-------------------------- MODULE FileTools_proof ---------------------------
(***************************************************************************)
(* Proofs about the tools: copies, the deletion of a line, getline, mydu   *)
(* and the messages of the library, for any contents of any length and any *)
(* sizes of the buffers.                                                   *)
(***************************************************************************)
EXTENDS FileTools, FiniteSetTheorems, SequenceTheorems, TLAPS

(* The number of places up to k with a property, given as the set of those *)
(* with it: one more place counts for one if it has the property.          *)
UpTo(T, k) == {j \in 1 .. k : j \in T}

LEMMA CountFirst ==
  ASSUME NEW T
  PROVE  Cardinality(UpTo(T, 0)) = 0
<1>1. UpTo(T, 0) = {}
  BY DEF UpTo
<1> QED
  BY <1>1, FS_EmptySet

LEMMA CountNext ==
  ASSUME NEW T, NEW k \in Nat
  PROVE  /\ Cardinality(UpTo(T, k)) \in Nat /\ Cardinality(UpTo(T, k)) <= k
         /\ Cardinality(UpTo(T, k + 1)) =
              Cardinality(UpTo(T, k)) + IF k + 1 \in T THEN 1 ELSE 0
<1>1. IsFiniteSet(1 .. k) /\ Cardinality(1 .. k) = k
  BY FS_Interval
<1>2. UpTo(T, k) \subseteq 1 .. k
  BY DEF UpTo
<1>3. /\ IsFiniteSet(UpTo(T, k)) /\ Cardinality(UpTo(T, k)) \in Nat
      /\ Cardinality(UpTo(T, k)) <= k
  BY <1>1, <1>2, FS_Subset, FS_CardinalityType
<1>4. CASE k + 1 \in T
  <2>1. UpTo(T, k + 1) = UpTo(T, k) \union {k + 1} /\ k + 1 \notin UpTo(T, k)
    BY <1>4 DEF UpTo
  <2> QED
    BY <1>3, <1>4, <2>1, FS_AddElement
<1>5. CASE k + 1 \notin T
  <2>1. UpTo(T, k + 1) = UpTo(T, k)
    BY <1>5 DEF UpTo
  <2> QED
    BY <1>3, <1>5, <2>1
<1> QED
  BY <1>3, <1>4, <1>5

(* A set of natural numbers has a least element, which Min finds. *)
LEMMA LeastNumber ==
  ASSUME NEW T, T \subseteq Nat, T # {}
  PROVE  Min(T) \in T /\ \A k \in T : Min(T) <= k
<1> DEFINE R == OpToRel(<, Nat)
<1>1. IsWellFoundedOn(R, Nat)
  BY NatLessThanWellFounded, Zenon
<1>2. \A x, y \in Nat : x < y => <<x, y>> \in R
  BY Zenon DEF OpToRel
<1> HIDE DEF R
<1>3. PICK x \in T : \A y \in T : ~(<<y, x>> \in R)
  BY <1>1, WFMin, Zenon
<1>4. \A y \in T : x <= y
  <2> SUFFICES ASSUME NEW y \in T
               PROVE  x <= y
    OBVIOUS
  <2>1. x \in Nat /\ y \in Nat
    OBVIOUS
  <2>2. ~(y < x)
    BY <1>2, <1>3, <2>1
  <2> QED
    BY <2>1, <2>2
<1> QED
  BY <1>4, Zenon DEF Min

-----------------------------------------------------------------------------
(* Files and excerpts of them.                                               *)

LEMMA ByteSeq ==
  ASSUME NEW f \in Seq(Byte)
  PROVE  /\ Len(f) \in Nat /\ f \in [1 .. Len(f) -> Byte]
         /\ \A k \in 1 .. Len(f) : f[k] \in Byte
         /\ f # <<>> <=> Len(f) > 0
         /\ SubSeq(f, 1, Len(f)) = f
<1>1. Len(f) \in Nat /\ f \in [1 .. Len(f) -> Byte] /\ (f # <<>> <=> Len(f) > 0)
  BY LenProperties
<1>2. SubSeq(f, 1, Len(f)) = f
  BY SubSeqFull
<1> QED
  BY <1>1, <1>2

(* p is what f has from offset off on. *)
Excerpt(p, f, off) ==
  /\ p \in Seq(Byte)
  /\ p # <<>> => off + Len(p) <= Len(f)
  /\ \A k \in 1 .. Len(p) : p[k] = f[off + k]

LEMMA SubExcerpt ==
  ASSUME NEW f \in Seq(Byte), NEW a \in Nat, NEW b \in Int, b <= Len(f)
  PROVE  /\ Excerpt(SubSeq(f, a + 1, b), f, a)
         /\ Len(SubSeq(f, a + 1, b)) = IF a < b THEN b - a ELSE 0
<1> DEFINE p == SubSeq(f, a + 1, b)
<1>1. Len(f) \in Nat /\ \A k \in 1 .. Len(f) : f[k] \in Byte
  BY ByteSeq
<1>2. \A k \in a + 1 .. b : f[k] \in Byte
  BY <1>1
<1>3. /\ p \in Seq(Byte)
      /\ Len(p) = IF a + 1 <= b THEN b - (a + 1) + 1 ELSE 0
      /\ \A k \in 1 .. b - (a + 1) + 1 : p[k] = f[a + 1 + k - 1]
  BY <1>2, SubSeqProperties
<1>4. Len(p) = IF a < b THEN b - a ELSE 0
  BY <1>3
<1>5. p # <<>> => a + Len(p) <= Len(f)
  BY <1>1, <1>3, <1>4, ByteSeq
<1>6. \A k \in 1 .. Len(p) : p[k] = f[a + k]
  <2> TAKE k \in 1 .. Len(p)
  <2>1. k \in 1 .. b - (a + 1) + 1 /\ a + 1 + k - 1 = a + k
    BY <1>4
  <2> QED
    BY <1>3, <2>1
<1> QED
  BY <1>3, <1>4, <1>5, <1>6 DEF Excerpt

(* An excerpt of an excerpt is one of the file. *)
LEMMA ExcerptOfExcerpt ==
  ASSUME NEW f \in Seq(Byte), NEW off \in Nat, NEW p, Excerpt(p, f, off),
         NEW a \in Nat, NEW b \in Int, b <= Len(p)
  PROVE  /\ Excerpt(SubSeq(p, a + 1, b), f, off + a)
         /\ Len(SubSeq(p, a + 1, b)) = IF a < b THEN b - a ELSE 0
<1> DEFINE q == SubSeq(p, a + 1, b)
<1>1. p \in Seq(Byte) /\ Len(p) \in Nat /\ Len(f) \in Nat
  BY ByteSeq DEF Excerpt
<1>2. Excerpt(q, p, a) /\ Len(q) = IF a < b THEN b - a ELSE 0
  BY <1>1, SubExcerpt
<1> HIDE DEF q
<1>3. q \in Seq(Byte) /\ Len(q) \in Nat
  BY <1>2, ByteSeq DEF Excerpt
<1>4. \A k \in 1 .. Len(q) : q[k] = f[off + a + k]
  <2> TAKE k \in 1 .. Len(q)
  <2>1. q[k] = p[a + k] /\ a < b /\ a + k \in 1 .. Len(p)
    BY <1>1, <1>2 DEF Excerpt
  <2>2. p[a + k] = f[off + (a + k)] /\ off + (a + k) = off + a + k
    BY <2>1 DEF Excerpt
  <2> QED
    BY <2>1, <2>2
<1>5. q # <<>> => off + a + Len(q) <= Len(f)
  <2> HAVE q # <<>>
  <2>1. a < b /\ Len(q) = b - a
    BY <1>2, <1>3, ByteSeq
  <2>2. p # <<>>
    BY <1>1, <2>1, ByteSeq
  <2>3. off + Len(p) <= Len(f)
    BY <2>2 DEF Excerpt
  <2> QED
    BY <1>1, <2>1, <2>3
<1> QED
  BY <1>2, <1>3, <1>4, <1>5 DEF Excerpt, q

LEMMA ChunkIs ==
  ASSUME NEW f \in Seq(Byte), NEW off \in Nat, NEW c \in Chunks(f, off)
  PROVE  Excerpt(c, f, off) /\ (c = <<>> <=> off >= Len(f))
<1>1. Len(f) \in Nat /\ <<>> \in Seq(Byte) /\ Len(<<>>) = 0
  BY ByteSeq, EmptySeq
<1>2. CASE off >= Len(f)
  <2>1. c = <<>>
    BY <1>2 DEF Chunks
  <2> QED
    BY <1>1, <1>2, <2>1, EmptySeq DEF Excerpt
<1>3. CASE off < Len(f)
  <2>1. PICK z \in 1 .. Least(BUFSIZE, Len(f) - off) : c = SubSeq(f, off + 1, off + z)
    BY <1>1, <1>3 DEF Chunks
  <2>2. z \in Nat /\ z >= 1 /\ off + z <= Len(f) /\ off + z \in Int
    BY <1>1, <2>1, FilesAssumption DEF Least
  <2>3. PICK b \in Int : b = off + z
    BY <2>2
  <2>4. Excerpt(SubSeq(f, off + 1, b), f, off) /\ Len(SubSeq(f, off + 1, b)) = b - off
    BY <2>2, <2>3, SubExcerpt
  <2>5. Excerpt(c, f, off) /\ Len(c) = z
    BY <2>1, <2>2, <2>3, <2>4
  <2>6. c # <<>>
    BY <1>1, <2>2, <2>5
  <2> QED
    BY <1>1, <1>3, <2>5, <2>6
<1> QED
  BY <1>1, <1>2, <1>3

(* What a write leaves, byte by byte. *)
LEMMA WrittenIs ==
  ASSUME NEW f \in Seq(Byte), NEW off \in Nat, NEW data \in Seq(Byte)
  PROVE  /\ WriteAt(f, off, data) \in Seq(Byte)
         /\ Len(WriteAt(f, off, data)) =
              IF data # <<>> /\ Len(f) < off + Len(data) THEN off + Len(data) ELSE Len(f)
         /\ \A k \in 1 .. Len(WriteAt(f, off, data)) :
              WriteAt(f, off, data)[k] =
                IF off < k /\ k <= off + Len(data) THEN data[k - off]
                ELSE IF k <= Len(f) THEN f[k] ELSE NUL
<1>1. Len(f) \in Nat /\ Len(data) \in Nat /\ Len(<<>>) = 0
  BY ByteSeq, EmptySeq
<1>2. CASE data = <<>>
  <2>1. WriteAt(f, off, data) = f
    BY <1>2 DEF WriteAt
  <2> QED
    BY <1>1, <1>2, <2>1
<1>3. CASE data # <<>>
  <2> DEFINE w == WriteAt(f, off, data)
             m == IF Len(f) < off + Len(data) THEN off + Len(data) ELSE Len(f)
             At(k) == IF off < k /\ k <= off + Len(data) THEN data[k - off]
                      ELSE IF k <= Len(f) THEN f[k] ELSE NUL
  <2>1. Max({Len(f), off + Len(data)}) = m
    <3>1. \A z \in {Len(f), off + Len(data)} :
             (\A y \in {Len(f), off + Len(data)} : z >= y) => z = m
      BY <1>1
    <3>2. m \in {Len(f), off + Len(data)} /\ \A y \in {Len(f), off + Len(data)} : m >= y
      BY <1>1
    <3> HIDE DEF m
    <3> QED
      BY <3>1, <3>2, Zenon DEF Max
  <2>2. w = [k \in 1 .. m |-> At(k)]
    BY <1>3, <2>1 DEF WriteAt
  <2>3. m \in Nat
    BY <1>1
  <2>4. \A k \in 1 .. m : At(k) \in Byte
    <3> TAKE k \in 1 .. m
    <3>1. CASE off < k /\ k <= off + Len(data)
      <4>1. k - off \in 1 .. Len(data)
        BY <1>1, <3>1
      <4> QED
        BY <3>1, <4>1, ByteSeq
    <3>2. CASE ~(off < k /\ k <= off + Len(data)) /\ k <= Len(f)
      BY <1>1, <3>2, ByteSeq
    <3>3. CASE ~(off < k /\ k <= off + Len(data)) /\ k > Len(f)
      BY <1>1, <3>3 DEF Byte
    <3> QED
      BY <1>1, <3>1, <3>2, <3>3
  <2> HIDE DEF At, m
  <2>5. w \in [1 .. m -> Byte]
    BY <2>2, <2>4
  <2> HIDE DEF w
  <2>6. w \in Seq(Byte) /\ Len(w) = m
    BY <2>3, <2>5
  <2>7. \A k \in 1 .. m : w[k] = At(k)
    BY <2>2
  <2> QED
    BY <1>3, <2>6, <2>7 DEF At, m, w
<1> QED
  BY <1>2, <1>3

LEMMA TruncatedIs ==
  ASSUME NEW f \in Seq(Byte), NEW z \in Int
  PROVE  /\ Truncated(f, z) \in Seq(Byte)
         /\ z \in Nat => Len(Truncated(f, z)) = z
         /\ \A k \in 1 .. z : k <= Len(f) => Truncated(f, z)[k] = f[k]
<1> DEFINE t == Truncated(f, z)
<1>1. Len(f) \in Nat
  BY ByteSeq
<1>2. PICK m \in Nat : (1 .. z = 1 .. m) /\ (z \in Nat => m = z)
  <2>1. CASE z \in Nat
    BY <2>1
  <2>2. CASE z \notin Nat
    <3>1. 1 .. z = 1 .. 0
      BY <2>2
    <3> QED
      BY <2>2, <3>1
  <2> QED
    BY <2>1, <2>2
<1>3. t = [k \in 1 .. m |-> IF k <= Len(f) THEN f[k] ELSE NUL]
  BY <1>2 DEF Truncated
<1>4. \A k \in 1 .. m : (IF k <= Len(f) THEN f[k] ELSE NUL) \in Byte
  <2> TAKE k \in 1 .. m
  <2>1. CASE k <= Len(f)
    BY <1>1, <2>1, ByteSeq
  <2>2. CASE ~(k <= Len(f))
    BY <2>2 DEF Byte
  <2> QED
    BY <2>1, <2>2
<1>5. t \in [1 .. m -> Byte]
  BY <1>3, <1>4
<1> HIDE DEF t
<1>6. t \in Seq(Byte) /\ Len(t) = m
  BY <1>5
<1>7. \A k \in 1 .. z : k <= Len(f) => t[k] = f[k]
  BY <1>2, <1>3
<1> QED
  BY <1>2, <1>6, <1>7 DEF t

-----------------------------------------------------------------------------
(* One program runs at a time, and files hold bytes.                       *)

Alone ==
  /\ cpc = "idle" \/ epc = "idle"
  /\ cpc = "idle" \/ gpc = "idle"
  /\ epc = "idle" \/ gpc = "idle"

FileKinds == files \in [Names -> Seq(Byte)]

BaseInv == Alone /\ FileKinds

LEMMA AloneInit ==
  Init => Alone
BY DEF Init, Alone, CopyIdle, EditIdle

(* Which of the programs a step is one of. *)
LEMMA StepKinds ==
  ASSUME [Next]_vars
  PROVE  \/ /\ Idle /\ \E t \in Tools, a, b \in Names : StartCopy(t, a, b)
            /\ UNCHANGED <<editVars, lineVars, diskVars, streamVars>>
         \/ /\ Idle /\ \E name \in Names, no \in LineNos : StartEdit(name, no)
            /\ UNCHANGED <<copyVars, lineVars, diskVars, streamVars>>
         \/ /\ Idle /\ \E name \in Names : StartLines(name)
            /\ UNCHANGED <<copyVars, editVars, diskVars, streamVars>>
         \/ CopyStep /\ UNCHANGED <<editVars, lineVars, diskVars, streamVars>>
         \/ EditStep /\ UNCHANGED <<copyVars, lineVars, diskVars, streamVars>>
         \/ LineStep /\ UNCHANGED <<copyVars, editVars, diskVars, streamVars>>
         \/ UNCHANGED <<files, copyVars, editVars, lineVars>>
<1>1. CASE Start
  BY <1>1, Zenon DEF Start
<1>2. CASE Step
  BY <1>2, Zenon DEF Step
<1>3. CASE UNCHANGED vars
  BY <1>3 DEF vars
<1> QED
  BY <1>1, <1>2, <1>3 DEF Next

LEMMA AloneStep ==
  Alone /\ [Next]_vars => Alone'
<1> SUFFICES ASSUME Alone, [Next]_vars
             PROVE  Alone'
  OBVIOUS
<1>1. CopyStep => cpc # "idle"
  BY DEF CopyStep, Read, CopyEnds, WriteWhole, WriteStream, WriteAgain, WriteRun, SkipZeros
<1>2. EditStep => epc # "idle"
  BY DEF EditStep, Locate, Seek, Shift, ShiftFails, Cut
<1>3. LineStep => gpc # "idle"
  BY DEF LineStep, CallGetline, Char, CharNoMemory, EndOfLines
<1>4. Idle => cpc = "idle" /\ epc = "idle" /\ gpc = "idle"
  BY DEF Idle
<1>5. /\ UNCHANGED copyVars => cpc' = cpc
      /\ UNCHANGED editVars => epc' = epc
      /\ UNCHANGED lineVars => gpc' = gpc
  BY DEF copyVars, editVars, lineVars
<1> QED
  BY <1>1, <1>2, <1>3, <1>4, <1>5, StepKinds DEF Alone

-----------------------------------------------------------------------------
(* my_getline.                                                             *)

Buffer(r, size) == size \in Nat /\ size >= 2 /\ DOMAIN r = 0 .. size - 1

(* The first c bytes of r are those that end at offset o of t, a line, the *)
(* whole of it if done.                                                    *)
Holds(r, c, t, o, done) ==
  /\ c \in Nat /\ c <= o
  /\ \A k \in 0 .. c - 1 : /\ r[k] = t[o - c + k + 1]
                           /\ r[k] = NL <=> done /\ k = c - 1
  /\ o = c \/ t[o - c] = NL

LineKinds ==
  /\ gpc \in {"idle", "call", "char", "exit"} /\ lines \in Nat
  /\ gpc = "idle" => offset = 0 /\ lines = 0 /\ lineptr = 0 /\ ~failed
  /\ gpc # "idle" => gname \in Names /\ offset \in Nat /\ offset <= Len(text)

BufferInv ==
  /\ (gpc = "call" /\ lineptr # 0) => Buffer(region, n)
  /\ (gpc = "call" /\ lines = 0) => offset = 0
  /\ gpc = "char" => /\ Buffer(region, n) /\ count < n
                     /\ cur_pos = [at |-> lineptr, off |-> count]
                     /\ Holds(region, count, text, offset, FALSE)
  /\ (gpc = "call" /\ lines > 0) => /\ count > 0 /\ region[count] = NUL
                                    /\ Holds(region, count, text, offset, TRUE)

LinesInv ==
  ~failed => /\ lines = Ended(offset)
             /\ gpc = "exit" => offset = Len(text)

LineInv == LineKinds /\ BufferInv /\ LinesInv

Breaking == {j \in 1 .. Len(text) : text[j] = NL}

LEMMA EndedIs ==
  ASSUME NEW k \in Nat, k <= Len(text), Len(text) \in Nat
  PROVE  Ended(k) = Cardinality(UpTo(Breaking, k))
<1>1. {j \in 1 .. k : text[j] = NL} = UpTo(Breaking, k)
  BY DEF UpTo, Breaking
<1> QED
  BY <1>1 DEF Ended

LEMMA EndedNext ==
  ASSUME NEW k \in Nat, k < Len(text), Len(text) \in Nat
  PROVE  Ended(k + 1) = Ended(k) + IF text[k + 1] = NL THEN 1 ELSE 0
<1>1. Ended(k) = Cardinality(UpTo(Breaking, k))
  BY EndedIs
<1>2. Ended(k + 1) = Cardinality(UpTo(Breaking, k + 1))
  BY EndedIs
<1>3. k + 1 \in Breaking <=> text[k + 1] = NL
  BY DEF Breaking
<1>4. Cardinality(UpTo(Breaking, k + 1)) =
        Cardinality(UpTo(Breaking, k)) + IF k + 1 \in Breaking THEN 1 ELSE 0
  BY CountNext
<1> QED
  BY <1>1, <1>2, <1>3, <1>4, Zenon

LEMMA EndedFirst ==
  Ended(0) = 0
<1>1. {j \in 1 .. 0 : text[j] = NL} = {}
  OBVIOUS
<1> QED
  BY <1>1, FS_EmptySet DEF Ended

LEMMA TextKinds ==
  ASSUME BaseInv, LineKinds, gpc # "idle"
  PROVE  Len(text) \in Nat /\ gname \in Names /\ offset \in Nat /\ offset <= Len(text)
<1>1. text \in Seq(Byte)
  BY DEF BaseInv, FileKinds, LineKinds, text
<1> QED
  BY <1>1 DEF LineKinds

(* A character is put behind those that are there. *)
LEMMA StoredNext ==
  ASSUME NEW r, NEW size, Buffer(r, size), NEW c \in Nat, c + 1 < size,
         NEW t, NEW o \in Nat, Holds(r, c, t, o, FALSE),
         NEW p, p.off = c, NEW ch, ch = t[o + 1]
  PROVE  /\ Buffer(Stored(r, p, ch), size)
         /\ Holds(Stored(r, p, ch), c + 1, t, o + 1, ch = NL)
<1>1. Buffer(Stored(r, p, ch), size)
  BY DEF Stored, Buffer
<1>2. c <= o /\ (o = c \/ t[o - c] = NL)
  BY DEF Holds
<1>3. o + 1 - (c + 1) = o - c
  BY <1>2
<1>4. ASSUME NEW k \in 0 .. c
      PROVE  /\ Stored(r, p, ch)[k] = t[o - c + k + 1]
             /\ Stored(r, p, ch)[k] = NL <=> ch = NL /\ k = c
  <2>1. k \in DOMAIN r
    BY DEF Buffer
  <2>2. CASE k = c
    <3>1. Stored(r, p, ch)[k] = ch
      BY <2>1, <2>2 DEF Stored
    <3>2. o - c + k + 1 = o + 1
      BY <1>2, <2>2
    <3> QED
      BY <2>2, <3>1, <3>2
  <2>3. CASE k # c
    <3>1. Stored(r, p, ch)[k] = r[k]
      BY <2>1, <2>3 DEF Stored
    <3>2. k \in 0 .. c - 1
      BY <2>3
    <3> QED
      BY <2>3, <3>1, <3>2 DEF Holds
  <2> QED
    BY <2>2, <2>3
<1>5. 0 .. (c + 1) - 1 = 0 .. c /\ c + 1 \in Nat /\ c + 1 <= o + 1 /\ (c + 1) - 1 = c
  BY <1>2
<1> QED
  BY <1>1, <1>2, <1>3, <1>4, <1>5 DEF Holds

(* So is the zero behind a line. *)
LEMMA StoredEnd ==
  ASSUME NEW r, NEW size, Buffer(r, size), NEW c \in Nat, c < size,
         NEW t, NEW o \in Nat, Holds(r, c, t, o, TRUE),
         NEW p, p.off = c
  PROVE  /\ Buffer(Stored(r, p, NUL), size)
         /\ Holds(Stored(r, p, NUL), c, t, o, TRUE)
         /\ Stored(r, p, NUL)[c] = NUL
<1>1. Buffer(Stored(r, p, NUL), size)
  BY DEF Stored, Buffer
<1>2. \A k \in 0 .. c - 1 : Stored(r, p, NUL)[k] = r[k]
  BY DEF Stored, Buffer
<1>3. Stored(r, p, NUL)[c] = NUL
  BY DEF Stored, Buffer
<1> QED
  BY <1>1, <1>2, <1>3 DEF Holds

(* Store, into a buffer with room for the character and a zero. *)
LEMMA StoreKeeps ==
  ASSUME BaseInv, LineInv, gpc = "char", offset < Len(text),
         NEW r, NEW size, Buffer(r, size), count + 1 < size,
         Holds(r, count, text, offset, FALSE),
         Store(r, [at |-> lineptr', off |-> count]), n' = size,
         UNCHANGED <<files, gname, failed>>
  PROVE  LineInv'
<1> DEFINE p == [at |-> lineptr', off |-> count]
           ch == text[offset + 1]
           r1 == Stored(r, p, ch)
           p1 == [p EXCEPT !.off = @ + 1]
<1>1. /\ cur_pos' = p1 /\ offset' = offset + 1 /\ count' = count + 1
      /\ ch = NL => region' = Stored(r1, p1, NUL) /\ gpc' = "call" /\ lines' = lines + 1
      /\ ch # NL => region' = r1 /\ gpc' = gpc /\ lines' = lines
  BY Zenon DEF Store
<1>2. p.off = count /\ p1 = [at |-> lineptr', off |-> count + 1] /\ p1.off = count + 1
  OBVIOUS
<1>3. Len(text) \in Nat /\ gname \in Names /\ offset \in Nat /\ text' = text
  BY TextKinds DEF LineInv, text
<1>4. count \in Nat /\ lines \in Nat
  BY DEF LineInv, LineKinds, BufferInv, Holds
<1>5. Buffer(r1, size) /\ Holds(r1, count + 1, text, offset + 1, ch = NL)
  <2>1. PICK c, o : c = count /\ o = offset
    OBVIOUS
  <2> HIDE DEF p
  <2> QED
    BY <1>2, <1>3, <1>4, <2>1, StoredNext
<1>6. ~failed => lines = Ended(offset)
  BY DEF LineInv, LinesInv
<1>7. Ended(offset + 1) = Ended(offset) + IF ch = NL THEN 1 ELSE 0
  BY <1>3, EndedNext
<1>8. Ended(offset)' = Ended(offset + 1)
  BY <1>1, <1>3 DEF Ended
<1> HIDE DEF p, r1, p1
<1>9. CASE ch = NL
  <2>1. /\ Buffer(Stored(r1, p1, NUL), size)
        /\ Holds(Stored(r1, p1, NUL), count + 1, text, offset + 1, TRUE)
        /\ Stored(r1, p1, NUL)[count + 1] = NUL
    <3>1. PICK c, o : c = count + 1 /\ o = offset + 1
      OBVIOUS
    <3>2. Holds(r1, count + 1, text, offset + 1, TRUE)
      <4>1. (ch = NL) = TRUE
        BY <1>9, Zenon
      <4> QED
        BY <1>5, <4>1, Zenon
    <3>3. c \in Nat /\ o \in Nat /\ c < size /\ p1.off = c
      BY <1>2, <1>3, <1>4, <3>1
    <3>4. Holds(r1, c, text, o, TRUE)
      BY <3>1, <3>2
    <3>5. PICK t : t = text
      OBVIOUS
    <3>6. /\ Buffer(Stored(r1, p1, NUL), size)
          /\ Holds(Stored(r1, p1, NUL), c, t, o, TRUE)
          /\ Stored(r1, p1, NUL)[c] = NUL
      <4>1. Holds(r1, c, t, o, TRUE)
        BY <3>4, <3>5, Zenon
      <4>2. Buffer(r1, size)
        BY <1>5
      <4>3. PICK q : q = p1
        OBVIOUS
      <4>4. q.off = c
        BY <3>3, <4>3
      <4>5. /\ Buffer(Stored(r1, q, NUL), size)
            /\ Holds(Stored(r1, q, NUL), c, t, o, TRUE)
            /\ Stored(r1, q, NUL)[c] = NUL
        BY ONLY <3>3, <4>1, <4>2, <4>4, StoredEnd
      <4> QED
        BY <4>3, <4>5
    <3> QED
      BY <3>1, <3>5, <3>6
  <2>2. region' = Stored(r1, p1, NUL) /\ gpc' = "call" /\ lines' = lines + 1
    BY <1>1, <1>9
  <2>3. LineKinds'
    BY <1>1, <1>3, <1>4, <2>2 DEF LineKinds
  <2>4. BufferInv'
    <3>1. Buffer(region', n')
      BY <2>1, <2>2
    <3>2. Holds(region', count', text', offset', TRUE)
      BY <1>1, <1>3, <2>1, <2>2
    <3>3. count' > 0 /\ region'[count'] = NUL
      BY <1>1, <1>4, <2>1, <2>2
    <3>4. lines' # 0
      BY <1>4, <2>2
    <3> QED
      BY <2>2, <3>1, <3>2, <3>3, <3>4 DEF BufferInv
  <2>5. LinesInv'
    BY <1>6, <1>7, <1>8, <1>9, <2>2 DEF LinesInv
  <2> QED
    BY <2>3, <2>4, <2>5 DEF LineInv
<1>10. CASE ch # NL
  <2>1. region' = r1 /\ gpc' = "char" /\ lines' = lines
    BY <1>1, <1>10
  <2>2. LineKinds'
    BY <1>1, <1>3, <1>4, <2>1 DEF LineKinds
  <2>3. Holds(r1, count + 1, text, offset + 1, FALSE)
    BY <1>5, <1>10
  <2>4. BufferInv'
    BY <1>1, <1>2, <1>3, <1>4, <1>5, <2>1, <2>3 DEF BufferInv
  <2>5. LinesInv'
    <3>1. Ended(offset) + 0 = Ended(offset)
      <4>1. Ended(offset) = Cardinality(UpTo(Breaking, offset))
        BY <1>3, EndedIs
      <4>2. Cardinality(UpTo(Breaking, offset)) \in Nat
        BY <1>3, CountNext
      <4> QED
        BY <4>1, <4>2
    <3> QED
      BY <1>6, <1>7, <1>8, <1>10, <2>1, <3>1 DEF LinesInv
  <2> QED
    BY <2>2, <2>4, <2>5 DEF LineInv
<1> QED
  BY <1>9, <1>10

LEMMA LineInit ==
  Init => LineInv
<1> SUFFICES ASSUME Init
             PROVE  LineInv
  OBVIOUS
<1>1. gpc = "idle" /\ offset = 0 /\ lineptr = 0 /\ lines = 0 /\ failed = FALSE
  BY DEF Init, LineIdle
<1> QED
  BY <1>1, EndedFirst DEF LineInv, LineKinds, BufferInv, LinesInv

LEMMA LineSame ==
  ASSUME LineInv, UNCHANGED lineVars, gpc = "idle" \/ UNCHANGED files
  PROVE  LineInv'
<1>1. CASE gpc = "idle"
  <2>1. /\ gpc' = "idle" /\ offset' = 0 /\ lineptr' = 0 /\ lines' = 0 /\ ~failed'
    BY <1>1 DEF lineVars, LineInv, LineKinds
  <2>2. Ended(offset)' = 0
    <3>1. {j \in 1 .. 0 : text'[j] = NL} = {}
      OBVIOUS
    <3> QED
      BY <2>1, <3>1, FS_EmptySet DEF Ended
  <2> QED
    BY <2>1, <2>2 DEF LineInv, LineKinds, BufferInv, LinesInv
<1>2. CASE UNCHANGED files
  <2>1. /\ gpc' = gpc /\ gname' = gname /\ offset' = offset /\ lineptr' = lineptr
        /\ n' = n /\ region' = region /\ cur_pos' = cur_pos /\ count' = count
        /\ lines' = lines /\ failed' = failed /\ text' = text
    BY <1>2 DEF lineVars, text
  <2>2. Ended(offset)' = Ended(offset)
    BY <2>1 DEF Ended
  <2> QED
    BY <2>1, <2>2 DEF LineInv, LineKinds, BufferInv, LinesInv
<1> QED
  BY <1>1, <1>2

LEMMA LineBegins ==
  ASSUME LineInv, gpc = "idle", FileKinds, NEW name \in Names, StartLines(name)
  PROVE  LineInv'
<1>1. /\ gname' = name /\ offset' = 0 /\ lineptr' = 0 /\ lines' = 0 /\ files' = files
      /\ \/ gpc' = "call" /\ ~failed'
         \/ gpc' = "exit" /\ failed'
  BY DEF StartLines, LineInv, LineKinds
<1>2. text' \in Seq(Byte)
  BY <1>1 DEF FileKinds, text
<1>3. Len(text') \in Nat
  BY <1>2
<1>4. Ended(offset)' = 0
  <2>1. {j \in 1 .. 0 : text'[j] = NL} = {}
    OBVIOUS
  <2> QED
    BY <1>1, <2>1, FS_EmptySet DEF Ended
<1>5. LineKinds'
  BY <1>1, <1>3 DEF LineKinds
<1>6. BufferInv'
  <2>1. gpc' # "char"
    BY <1>1
  <2>2. ~(lines' > 0)
    BY <1>1
  <2> QED
    BY <1>1, <2>1, <2>2, Zenon DEF BufferInv
<1>7. LinesInv'
  BY <1>1, <1>4 DEF LinesInv
<1> QED
  BY <1>5, <1>6, <1>7 DEF LineInv

LEMMA LineGoesOn ==
  ASSUME BaseInv, LineInv, LineStep
  PROVE  LineInv'
<1>1. gpc # "idle"
  BY DEF LineStep, CallGetline, Char, CharNoMemory, EndOfLines
<1>2. /\ Len(text) \in Nat /\ gname \in Names /\ offset \in Nat /\ offset <= Len(text)
      /\ lines \in Nat
  BY <1>1, TextKinds DEF LineInv, LineKinds
<1>3. UNCHANGED <<files, gname>> => text' = text
  BY DEF text
<1>4. CASE CallGetline
  <2>1. /\ gpc = "call" /\ text' = text /\ gname' = gname /\ offset' = offset /\ lines' = lines
    BY <1>3, <1>4 DEF CallGetline
  <2>2. Ended(offset)' = Ended(offset)
    BY <2>1 DEF Ended
  <2>3. CASE lineptr' = 0
    <3>1. gpc' = "exit" /\ failed'
      BY <1>4, <2>3 DEF CallGetline, Fails
    <3> QED
      BY <1>2, <2>1, <3>1 DEF LineInv, LineKinds, BufferInv, LinesInv
  <2>4. CASE lineptr' # 0
    <3>1. /\ gpc' = "char" /\ cur_pos' = [at |-> lineptr', off |-> 0] /\ count' = 0
          /\ failed' = failed
      BY <1>4, <2>4 DEF CallGetline, Top
    <3>2. Buffer(region', n')
      <4>1. CASE lineptr # 0
        BY <1>4, <2>1, <4>1 DEF CallGetline, LineInv, BufferInv
      <4>2. CASE lineptr = 0
        <5>1. n' = MALLOCSIZE /\ region' = Fresh(MALLOCSIZE)
          BY <1>4, <2>4, <4>2 DEF CallGetline
        <5> QED
          BY <5>1, GetLineAssumption DEF Buffer, Fresh
      <4> QED
        BY <4>1, <4>2
    <3>3. offset = 0 \/ text[offset] = NL
      <4>1. CASE lines = 0
        BY <2>1, <4>1 DEF LineInv, BufferInv
      <4>2. CASE lines # 0
        <5>0. lines > 0
          BY <1>2, <4>2
        <5>1. count > 0 /\ Holds(region, count, text, offset, TRUE)
          BY <2>1, <5>0 DEF LineInv, BufferInv
        <5>2. count - 1 \in 0 .. count - 1 /\ offset - count + (count - 1) + 1 = offset
          BY <1>2, <5>1 DEF Holds
        <5>3. region[count - 1] = text[offset] /\ region[count - 1] = NL
          BY <5>1, <5>2 DEF Holds
        <5> QED
          BY <5>3
      <4> QED
        BY <4>1, <4>2
    <3>4. Holds(region', 0, text, offset, FALSE)
      BY <1>2, <3>3 DEF Holds
    <3>5. LineKinds'
      BY <1>2, <2>1, <3>1 DEF LineKinds
    <3>6. BufferInv'
      <4>1. count' < n'
        BY <3>1, <3>2 DEF Buffer
      <4>2. Holds(region', count', text', offset', FALSE)
        BY <2>1, <3>1, <3>4
      <4> QED
        BY <3>1, <3>2, <4>1, <4>2 DEF BufferInv
    <3>7. LinesInv'
      BY <2>1, <2>2, <3>1 DEF LineInv, LinesInv
    <3> QED
      BY <3>5, <3>6, <3>7 DEF LineInv
  <2> QED
    BY <2>3, <2>4
<1>5. CASE Char
  <2>1. /\ gpc = "char" /\ offset < Len(text) /\ Buffer(region, n) /\ count < n
        /\ cur_pos = [at |-> lineptr, off |-> count] /\ count \in Nat
        /\ Holds(region, count, text, offset, FALSE)
        /\ UNCHANGED <<files, gname, failed>>
    BY <1>5 DEF Char, LineInv, BufferInv, Holds
  <2>2. n \in Nat /\ n >= 2
    BY <2>1 DEF Buffer
  <2>3. CASE Full
    <3>1. n' = 2 * n /\ Store(Grown(2 * n), [at |-> lineptr', off |-> count])
      BY <1>5, <2>3 DEF Char, Moved
    <3>2. count + 1 < 2 * n /\ 2 * n \in Nat /\ 2 * n >= 2
      BY <2>1, <2>2
    <3>3. DOMAIN Grown(2 * n) = 0 .. 2 * n - 1
      BY DEF Grown
    <3>4. Buffer(Grown(2 * n), 2 * n)
      BY <3>2, <3>3 DEF Buffer
    <3>5. \A k \in 0 .. count - 1 : Grown(2 * n)[k] = region[k]
      <4> TAKE k \in 0 .. count - 1
      <4>1. k \in DOMAIN region /\ k \in 0 .. 2 * n - 1
        BY <2>1, <2>2 DEF Buffer
      <4> QED
        BY <4>1 DEF Grown
    <3>6. Holds(Grown(2 * n), count, text, offset, FALSE)
      BY <2>1, <3>5 DEF Holds
    <3> QED
      BY <2>1, <3>1, <3>2, <3>4, <3>6, StoreKeeps
  <2>4. CASE ~Full
    <3>1. n' = n /\ lineptr' = lineptr /\ Store(region, cur_pos)
      BY <1>5, <2>4 DEF Char
    <3>2. count + 1 < n
      BY <2>1, <2>2, <2>4 DEF Full
    <3>3. Store(region, [at |-> lineptr', off |-> count])
      BY <2>1, <3>1
    <3> QED
      BY <2>1, <3>1, <3>2, <3>3, StoreKeeps
  <2> QED
    BY <2>3, <2>4
<1>6. CASE CharNoMemory
  <2>1. /\ gpc' = "exit" /\ failed' /\ text' = text /\ gname' = gname /\ lines' = lines
        /\ offset' = offset + 1 /\ offset < Len(text)
    BY <1>3, <1>6 DEF CharNoMemory, Fails
  <2> QED
    BY <1>2, <2>1 DEF LineInv, LineKinds, BufferInv, LinesInv
<1>7. CASE EndOfLines
  <2>1. /\ gpc' = "exit" /\ text' = text /\ gname' = gname /\ lines' = lines
        /\ offset' = offset
        /\ failed' \/ (offset = Len(text) /\ failed' = failed)
    BY <1>3, <1>7 DEF EndOfLines, Fails
  <2>2. Ended(offset)' = Ended(offset)
    BY <2>1 DEF Ended
  <2> QED
    BY <1>2, <2>1, <2>2 DEF LineInv, LineKinds, BufferInv, LinesInv
<1> QED
  BY <1>4, <1>5, <1>6, <1>7 DEF LineStep

LEMMA LineMeans ==
  LineInv => LineInBuffer
<1> SUFFICES ASSUME LineInv
             PROVE  LineInBuffer
  OBVIOUS
<1>1. CursorInBuffer
  BY DEF LineInv, BufferInv, Buffer, CursorInBuffer
<1>2. ~failed => /\ lines = Ended(offset)
                 /\ gpc = "exit" => offset = Len(text)
  BY DEF LineInv, LinesInv
<1>3. lines \in Nat
  BY DEF LineInv, LineKinds
<1>4. CASE gpc = "char"
  <2>1. Holds(region, count, text, offset, FALSE)
    BY <1>4 DEF LineInv, BufferInv
  <2> QED
    BY <1>1, <1>2, <1>4, <2>1 DEF LineInBuffer, Holds
<1>5. CASE gpc = "call" /\ lines > 0
  <2>1. Holds(region, count, text, offset, TRUE) /\ count > 0 /\ region[count] = NUL
    BY <1>5 DEF LineInv, BufferInv
  <2>2. region[count - 1] = NL
    <3>1. count - 1 \in 0 .. count - 1
      BY <2>1 DEF Holds
    <3> QED
      BY <2>1, <3>1 DEF Holds
  <2> QED
    BY <1>1, <1>2, <1>5, <2>1, <2>2 DEF LineInBuffer, Holds
<1>6. CASE gpc # "char" /\ ~(gpc = "call" /\ lines > 0)
  BY <1>1, <1>2, <1>6 DEF LineInBuffer
<1> QED
  BY <1>4, <1>5, <1>6

-----------------------------------------------------------------------------
(* The copies.                                                             *)

(* t is s as far as it goes, and as far as w but for zeros at the end; all *)
(* of it as far as w, if all.  From l on, unless l is 0, it may be bytes   *)
(* of any kind.                                                            *)
Copied(t, s, w, all, l) ==
  /\ Len(t) <= w /\ w <= Len(s) /\ l <= w + 1
  /\ \A k \in 1 .. Len(t) : l = 0 \/ k < l => t[k] = s[k]
  /\ \A k \in Len(t) + 1 .. w : l = 0 \/ k < l => s[k] = NUL
  /\ all => Len(t) = w

CopyKinds ==
  /\ cpc \in {"idle", "read", "write", "exit"}
  /\ rpos \in Nat /\ wpos \in Nat /\ cursor \in Nat /\ lost \in Nat /\ buf \in Seq(Byte)
  /\ cpc = "idle" =>
       rpos = 0 /\ wpos = 0 /\ Len(buf) = 0 /\ ~complained /\ ~faulty /\ lost = 0
  /\ cpc # "idle" =>
       tool \in Tools /\ cin \in Names /\ cout \in Names /\ source \in Seq(Byte)
  /\ cpc = "write" =>
       /\ cursor < Len(buf)
       /\ (tool # "holes" /\ ~(tool = "sysio" /\ lost > 0)) => cursor = 0

(* What is in the buffer was read from the source, behind what has been    *)
(* read before.                                                            *)
CopyData ==
  (cpc # "idle" /\ cin # cout) =>
    /\ files[cin] = source
    /\ Len(buf) <= rpos /\ rpos <= Len(source)
    /\ Excerpt(buf, source, rpos - Len(buf))

(* How much of the source has been dealt with: the target's offset never   *)
(* is beyond it, and falls behind only when bytes went missing.            *)
Reached == IF cpc = "write" THEN rpos - Len(buf) + cursor ELSE rpos

CopyPlace ==
  Copying =>
    \/ cpc = "exit" /\ complained /\ rpos = 0
    \/ /\ Copied(target, source, wpos, tool # "holes", lost)
       /\ wpos <= Reached
       /\ (lost = 0 \/ (tool = "sysio" /\ ~complained)) =>
            wpos = Reached \/ (cpc = "exit" /\ complained)

CopyTold ==
  /\ (cpc # "idle" /\ tool \in Checked /\ (faulty \/ lost > 0)) => cpc = "exit" /\ complained
  /\ (Copying /\ cpc = "exit" /\ ~complained /\ (tool \in Streams => ~faulty)) =>
       rpos = Len(source)

CopyInv == CopyKinds /\ CopyData /\ CopyPlace /\ CopyTold

(* Bytes that are put behind what is copied, of the source if nothing has  *)
(* gone missing.                                                           *)
LEMMA CopiedNext ==
  ASSUME NEW t \in Seq(Byte), NEW s \in Seq(Byte), NEW w \in Nat, NEW all, NEW l \in Nat,
         Copied(t, s, w, all, l), NEW d \in Seq(Byte), l = 0 => Excerpt(d, s, w),
         NEW k \in 0 .. Len(d), w + k <= Len(s)
  PROVE  Copied(WriteAt(t, w, SubSeq(d, 1, k)), s, w + k, all, l)
<1> DEFINE e == SubSeq(d, 0 + 1, k)
           u == WriteAt(t, w, e)
<1>1. Len(d) \in Nat /\ Len(t) \in Nat /\ Len(s) \in Nat /\ k \in Nat
  BY ByteSeq
<1>2. e \in Seq(Byte) /\ Len(e) = k /\ \A j \in 1 .. Len(e) : e[j] = d[j]
  <2>1. PICK a \in Nat : a = 0
    OBVIOUS
  <2>2. /\ Excerpt(SubSeq(d, a + 1, k), d, a)
        /\ Len(SubSeq(d, a + 1, k)) = IF a < k THEN k - a ELSE 0
    <3>1. k \in Int /\ k <= Len(d)
      BY <1>1
    <3> QED
      BY <3>1, SubExcerpt
  <2>3. Excerpt(e, d, 0) /\ Len(e) = k
    BY <1>1, <2>1, <2>2
  <2> HIDE DEF e
  <2>4. \A j \in 1 .. Len(e) : 0 + j = j
    OBVIOUS
  <2> QED
    BY <2>3, <2>4 DEF Excerpt
<1> HIDE DEF e
<1>4. /\ u \in Seq(Byte)
      /\ Len(u) = IF e # <<>> /\ Len(t) < w + Len(e) THEN w + Len(e) ELSE Len(t)
      /\ \A j \in 1 .. Len(u) :
           u[j] = IF w < j /\ j <= w + Len(e) THEN e[j - w]
                  ELSE IF j <= Len(t) THEN t[j] ELSE NUL
  BY <1>2, WrittenIs
<1> HIDE DEF u
<1>5. Len(t) <= w /\ w <= Len(s) /\ (all => Len(t) = w) /\ l <= w + 1
  BY DEF Copied
<1>6. e # <<>> <=> k > 0
  BY <1>2, ByteSeq
<1>7. Len(u) = IF k > 0 THEN w + k ELSE Len(t)
  BY <1>1, <1>2, <1>4, <1>5, <1>6
<1>9. \A j \in 1 .. Len(u) : l = 0 \/ j < l => u[j] = s[j]
  <2> SUFFICES ASSUME NEW j \in 1 .. Len(u), l = 0 \/ j < l
               PROVE  u[j] = s[j]
    OBVIOUS
  <2>1. CASE w < j /\ j <= w + k
    <3>1. u[j] = e[j - w] /\ j - w \in 1 .. Len(e) /\ w + (j - w) = j
      BY <1>1, <1>2, <1>4, <2>1
    <3>2. e[j - w] = d[j - w] /\ j - w \in 1 .. Len(d)
      BY <1>1, <1>2, <3>1
    <3>3. Excerpt(d, s, w)
      BY <1>5, <2>1
    <3> QED
      BY <3>1, <3>2, <3>3 DEF Excerpt
  <2>2. CASE ~(w < j /\ j <= w + k) /\ j <= Len(t)
    <3>1. u[j] = t[j] /\ j \in 1 .. Len(t)
      BY <1>1, <1>2, <1>4, <2>2
    <3> QED
      BY <3>1 DEF Copied
  <2>3. CASE ~(w < j /\ j <= w + k) /\ j > Len(t)
    <3>1. u[j] = NUL
      BY <1>1, <1>2, <1>4, <2>3
    <3>2. j \in Len(t) + 1 .. w
      BY <1>1, <1>5, <1>7, <2>3
    <3> QED
      BY <3>1, <3>2 DEF Copied
  <2> QED
    BY <1>1, <1>7, <2>1, <2>2, <2>3
<1>10. \A j \in Len(u) + 1 .. w + k : l = 0 \/ j < l => s[j] = NUL
  <2> TAKE j \in Len(u) + 1 .. w + k
  <2>1. j \in Len(t) + 1 .. w
    BY <1>1, <1>5, <1>7
  <2> QED
    BY <2>1 DEF Copied
<1>11. Len(u) <= w + k /\ (all => Len(u) = w + k) /\ l <= w + k + 1
  BY <1>1, <1>5, <1>7
<1>12. Copied(u, s, w + k, all, l)
  BY <1>9, <1>10, <1>11 DEF Copied
<1> QED
  BY <1>12 DEF u, e

(* Less is claimed when a byte goes missing. *)
LEMMA CopiedLess ==
  ASSUME NEW t, NEW s, NEW w, NEW all, NEW l \in Nat, l <= w + 1, Copied(t, s, w, all, 0)
  PROVE  Copied(t, s, w, all, l)
BY DEF Copied

(* Zeros of the source that are passed over. *)
LEMMA CopiedPast ==
  ASSUME NEW t \in Seq(Byte), NEW s \in Seq(Byte), NEW w \in Nat,
         Copied(t, s, w, FALSE, 0), NEW d, Excerpt(d, s, w),
         \A k \in 1 .. Len(d) : d[k] = NUL
  PROVE  Copied(t, s, w + Len(d), FALSE, 0)
<1>1. d \in Seq(Byte) /\ Len(d) \in Nat /\ Len(t) \in Nat /\ Len(s) \in Nat
  BY ByteSeq DEF Excerpt
<1>2. w + Len(d) <= Len(s)
  BY <1>1, ByteSeq DEF Excerpt, Copied
<1>3. \A j \in Len(t) + 1 .. w + Len(d) : s[j] = NUL
  <2> TAKE j \in Len(t) + 1 .. w + Len(d)
  <2>1. CASE j <= w
    BY <1>1, <2>1 DEF Copied
  <2>2. CASE j > w
    <3>1. j - w \in 1 .. Len(d) /\ w + (j - w) = j
      BY <1>1, <2>2
    <3> QED
      BY <3>1 DEF Excerpt
  <2> QED
    BY <1>1, <2>1, <2>2
<1> QED
  BY <1>1, <1>2, <1>3 DEF Copied

(* What a tool can read next, and when it can find nothing. *)
LEMMA AheadIs ==
  ASSUME files[cin] \in Seq(Byte), rpos \in Nat, NEW m \in Nat, m > 0
  PROVE  Excerpt(Ahead(m), files[cin], rpos) /\ (Ahead(m) = <<>> <=> rpos >= Len(files[cin]))
<1>1. Len(files[cin]) \in Nat
  BY ByteSeq
<1>2. PICK s \in Seq(Byte), a \in Nat : s = files[cin] /\ a = rpos
  OBVIOUS
<1>3. PICK b \in Int : b = Least(a + m, Len(s)) /\ b <= Len(s) /\ (a < b <=> a < Len(s))
  BY <1>1, <1>2 DEF Least
<1>4. Excerpt(SubSeq(s, a + 1, b), s, a) /\ Len(SubSeq(s, a + 1, b)) = IF a < b THEN b - a ELSE 0
  BY <1>3, SubExcerpt
<1>5. Ahead(m) = SubSeq(s, a + 1, b)
  BY <1>2, <1>3 DEF Ahead
<1>6. Ahead(m) \in Seq(Byte)
  BY <1>4, <1>5 DEF Excerpt
<1>7. Ahead(m) = <<>> <=> ~(Len(Ahead(m)) > 0)
  BY <1>6, ByteSeq
<1> QED
  BY <1>1, <1>2, <1>3, <1>4, <1>5, <1>7

LEMMA NextLineIs ==
  ASSUME files[cin] \in Seq(Byte), rpos \in Nat
  PROVE  Excerpt(NextLine, files[cin], rpos) /\ (NextLine = <<>> <=> rpos >= Len(files[cin]))
<1> DEFINE most == Ahead(BUFSIZE - 1)
           ends == {i \in 1 .. Len(most) : most[i] = NL}
<1>1. BUFSIZE - 1 \in Nat /\ BUFSIZE - 1 > 0
  BY FilesAssumption
<1>2. Excerpt(most, files[cin], rpos) /\ (most = <<>> <=> rpos >= Len(files[cin]))
  BY <1>1, AheadIs
<1>3. NextLine = IF ends = {} THEN most ELSE SubSeq(most, 1, Min(ends))
  BY DEF NextLine
<1> HIDE DEF most
<1>4. CASE ends = {}
  BY <1>2, <1>3, <1>4
<1>5. CASE ends # {}
  <2>1. most \in Seq(Byte) /\ Len(most) \in Nat
    BY <1>2, ByteSeq DEF Excerpt
  <2>2. Min(ends) \in ends
    <3>1. ends \subseteq Nat
      OBVIOUS
    <3> HIDE DEF ends
    <3> QED
      BY <1>5, <3>1, LeastNumber
  <2>3. PICK b \in Int : b = Min(ends) /\ b >= 1 /\ b <= Len(most)
    <3>1. \A b \in ends : b \in Int /\ b >= 1 /\ b <= Len(most)
      BY <2>1
    <3> HIDE DEF ends
    <3> QED
      BY <2>2, <3>1
  <2>4. PICK s \in Seq(Byte), off \in Nat, a \in Nat : s = files[cin] /\ off = rpos /\ a = 0
    OBVIOUS
  <2>5. Excerpt(SubSeq(most, a + 1, b), s, off + a) /\ Len(SubSeq(most, a + 1, b)) = IF a < b THEN b - a ELSE 0
    <3>1. Excerpt(most, s, off)
      BY <1>2, <2>4
    <3> QED
      BY <2>3, <3>1, ExcerptOfExcerpt
  <2>6. NextLine = SubSeq(most, a + 1, b)
    <3>1. a + 1 = 1 /\ b = Min(ends)
      BY <2>3, <2>4
    <3> HIDE DEF ends
    <3> QED
      BY <1>3, <1>5, <3>1
  <2>7. Excerpt(NextLine, files[cin], rpos) /\ Len(NextLine) > 0
    BY <2>3, <2>4, <2>5, <2>6
  <2>8. NextLine # <<>>
    BY <2>7, ByteSeq DEF Excerpt
  <2>9. most # <<>>
    BY <2>1, <2>3, ByteSeq
  <2> QED
    BY <1>2, <2>7, <2>8, <2>9
<1> QED
  BY <1>4, <1>5

LEMMA PieceIs ==
  ASSUME files[cin] \in Seq(Byte), rpos \in Nat, tool \in Tools, NEW piece \in Pieces
  PROVE  Excerpt(piece, files[cin], rpos) /\ (piece = <<>> <=> rpos >= Len(files[cin]))
<1>1. CASE tool \in Plain
  <2>1. piece \in Chunks(files[cin], rpos)
    BY <1>1 DEF Pieces, Plain, Checked
  <2>2. PICK s \in Seq(Byte), off \in Nat : s = files[cin] /\ off = rpos
    OBVIOUS
  <2>3. Excerpt(piece, s, off) /\ (piece = <<>> <=> off >= Len(s))
    BY <2>1, <2>2, ChunkIs
  <2> QED
    BY <2>2, <2>3
<1>2. CASE tool = "fgetc"
  <2>1. piece = Ahead(1)
    BY <1>2 DEF Pieces, Plain, Checked
  <2> QED
    BY <2>1, AheadIs
<1>3. CASE tool = "fgets"
  <2>1. piece = NextLine
    BY <1>3 DEF Pieces, Plain, Checked
  <2> QED
    BY <2>1, NextLineIs
<1>4. CASE tool = "fread"
  <2>1. piece = Ahead(BUFSIZE) /\ BUFSIZE \in Nat /\ BUFSIZE > 0
    BY <1>4, FilesAssumption DEF Pieces, Plain, Checked
  <2> QED
    BY <2>1, AheadIs
<1> QED
  BY <1>1, <1>2, <1>3, <1>4 DEF Tools, Streams

(* The run at the cursor is an excerpt of the buffer from there on, not    *)
(* empty, and of zeros only if it begins with one.                         *)
LEMMA RunIs ==
  ASSUME buf \in Seq(Byte), cursor \in Nat, cursor < Len(buf)
  PROVE  \E e \in cursor + 1 .. Len(buf) :
           /\ Run = SubSeq(buf, cursor + 1, e)
           /\ buf[cursor + 1] = NUL => \A i \in cursor + 1 .. e : buf[i] = NUL
<1> DEFINE other == {i \in cursor + 1 .. Len(buf) : (buf[i] = NUL) # (buf[cursor + 1] = NUL)}
<1>1. Len(buf) \in Nat
  BY ByteSeq
<1>2. Run = SubSeq(buf, cursor + 1, IF other = {} THEN Len(buf) ELSE Min(other) - 1)
  BY DEF Run
<1>3. CASE other = {}
  <2>1. \A i \in cursor + 1 .. Len(buf) : (buf[i] = NUL) = (buf[cursor + 1] = NUL)
    BY <1>3
  <2>2. Len(buf) \in cursor + 1 .. Len(buf)
    BY <1>1
  <2> QED
    BY <1>2, <1>3, <2>1, <2>2
<1>4. CASE other # {}
  <2>1. Min(other) \in other /\ \A k \in other : Min(other) <= k
    <3>1. other \subseteq Nat
      BY <1>1
    <3> HIDE DEF other
    <3> QED
      BY <1>4, <3>1, LeastNumber
  <2>2. cursor + 1 \notin other
    OBVIOUS
  <2>3. PICK e : e = Min(other) - 1
    OBVIOUS
  <2>4. e \in cursor + 1 .. Len(buf) /\ e < Min(other) /\ Min(other) \in Nat
    BY <1>1, <2>1, <2>2, <2>3
  <2>5. \A i \in cursor + 1 .. e : i \notin other
    BY <1>1, <2>1, <2>4
  <2>6. \A i \in cursor + 1 .. e : (buf[i] = NUL) = (buf[cursor + 1] = NUL)
    BY <1>1, <2>4, <2>5
  <2>7. Run = SubSeq(buf, cursor + 1, e)
    BY <1>2, <1>4, <2>3
  <2> QED
    BY <2>4, <2>6, <2>7
<1> QED
  BY <1>3, <1>4

(* What a write changes. *)
LEMMA PutIs ==
  ASSUME FileKinds, cout \in Names, wpos \in Nat, NEW data \in Seq(Byte), NEW all,
         NEW k \in 0 .. Len(data), Put(data, k, all)
  PROVE  /\ FileKinds' /\ wpos' = wpos + k
         /\ files'[cout] = WriteAt(files[cout], wpos, SubSeq(data, 1, k))
         /\ \A name \in Names : name # cout => files'[name] = files[name]
         /\ ~faulty' <=> ~faulty /\ k = Len(data)
         /\ lost' = IF lost = 0 /\ k < all THEN wpos + k + 1 ELSE lost
<1> DEFINE w == WriteAt(files[cout], wpos, SubSeq(data, 1, k))
<1>1. /\ files' = [files EXCEPT ![cout] = w] /\ wpos' = wpos + k
      /\ faulty' = (faulty \/ k < Len(data))
      /\ lost' = IF lost = 0 /\ k < all THEN wpos + k + 1 ELSE lost
  BY DEF Put
<1>2. files \in [Names -> Seq(Byte)] /\ Len(data) \in Nat
  BY ByteSeq DEF FileKinds
<1>3. SubSeq(data, 1, k) \in Seq(Byte)
  <2>1. Excerpt(SubSeq(data, 0 + 1, k), data, 0)
    BY <1>2, SubExcerpt
  <2> QED
    BY <2>1 DEF Excerpt
<1>4. w \in Seq(Byte)
  BY <1>2, <1>3, WrittenIs
<1>5. ~faulty' <=> ~faulty /\ k = Len(data)
  <2>1. ~faulty' <=> ~faulty /\ ~(k < Len(data))
    BY <1>1, Zenon
  <2>2. ~(k < Len(data)) <=> k = Len(data)
    BY <1>2
  <2> QED
    BY <2>1, <2>2, Zenon
<1> HIDE DEF w
<1>6. FileKinds'
  BY <1>1, <1>2, <1>4 DEF FileKinds
<1> QED
  BY <1>1, <1>2, <1>5, <1>6 DEF w

(* What becomes of the buffer when k bytes have been written: the tool     *)
(* dies, or drops the rest, or has dealt with m more bytes.                *)
DealsWith(k) ==
  \/ cpc' = "exit" /\ complained' /\ cursor' = cursor
  \/ tool = "sysio" /\ cpc' = "read" /\ complained' /\ cursor' = cursor /\ lost' > 0
  \/ \E m \in 1 .. Len(buf) - cursor :
       /\ Dealt(m) /\ complained' = complained
       /\ k <= m /\ ((lost' = 0 \/ tool = "sysio") => k = m)
       /\ (tool # "holes" /\ ~(tool = "sysio" /\ lost' > 0)) => cursor + m = Len(buf)
       /\ tool \in Checked => ~faulty' /\ lost' = 0

LEMMA CopyPuts ==
  ASSUME FileKinds, CopyInv, cpc = "write", NEW data \in Seq(Byte), NEW all \in Nat,
         Copying /\ lost = 0 => Excerpt(data, source, wpos),
         NEW k \in 0 .. Len(data), k <= Len(buf) - cursor, Put(data, k, all),
         UNCHANGED frame, DealsWith(k)
  PROVE  FileKinds' /\ CopyInv'
<1>1. /\ rpos \in Nat /\ wpos \in Nat /\ cursor \in Nat /\ lost \in Nat /\ buf \in Seq(Byte)
      /\ tool \in Tools /\ cin \in Names /\ cout \in Names /\ source \in Seq(Byte)
      /\ cursor < Len(buf)
  BY DEF CopyInv, CopyKinds
<1>2. UNCHANGED <<tool, cin, cout, rpos, buf, source>>
  BY DEF frame
<1>3. /\ FileKinds' /\ wpos' = wpos + k
      /\ files'[cout] = WriteAt(files[cout], wpos, SubSeq(data, 1, k))
      /\ \A name \in Names : name # cout => files'[name] = files[name]
      /\ lost' = IF lost = 0 /\ k < all THEN wpos + k + 1 ELSE lost
  BY <1>1, PutIs
<1>4. Len(buf) \in Nat /\ Len(data) \in Nat /\ wpos' \in Nat /\ lost' \in Nat /\ k \in Nat
  BY <1>1, <1>3, ByteSeq
<1>5. \/ cpc' = "exit" /\ complained' /\ cursor' = cursor
      \/ tool = "sysio" /\ cpc' = "read" /\ complained' /\ cursor' = cursor /\ lost' > 0
      \/ \E m \in 1 .. Len(buf) - cursor :
           /\ cursor' = cursor + m /\ complained' = complained
           /\ cpc' = IF cursor + m = Len(buf) THEN "read" ELSE "write"
           /\ k <= m /\ ((lost' = 0 \/ tool = "sysio") => k = m)
           /\ (tool # "holes" /\ ~(tool = "sysio" /\ lost' > 0)) => cursor + m = Len(buf)
           /\ tool \in Checked => ~faulty' /\ lost' = 0
  BY Zenon DEF DealsWith, Dealt
<1>6. CopyKinds'
  <2>1. CASE cpc' \in {"read", "exit"} /\ cursor' = cursor
    BY <1>1, <1>2, <1>4, <2>1 DEF CopyKinds
  <2>2. CASE \E m \in 1 .. Len(buf) - cursor :
               /\ cursor' = cursor + m
               /\ cpc' = IF cursor + m = Len(buf) THEN "read" ELSE "write"
               /\ (tool # "holes" /\ ~(tool = "sysio" /\ lost' > 0)) => cursor + m = Len(buf)
    <3>1. PICK m \in 1 .. Len(buf) - cursor :
            /\ cursor' = cursor + m
            /\ cpc' = IF cursor + m = Len(buf) THEN "read" ELSE "write"
            /\ (tool # "holes" /\ ~(tool = "sysio" /\ lost' > 0)) => cursor + m = Len(buf)
      BY <2>2
    <3>2. cursor' \in Nat /\ (cursor + m # Len(buf) => cursor' < Len(buf))
      BY <1>1, <1>4, <3>1
    <3>3. CASE cursor + m = Len(buf)
      <4>1. cpc' = "read"
        BY <3>1, <3>3
      <4> QED
        BY <1>1, <1>2, <1>4, <3>2, <4>1 DEF CopyKinds
    <3>4. CASE cursor + m # Len(buf)
      <4>1. cpc' = "write" /\ ~(tool # "holes" /\ ~(tool = "sysio" /\ lost' > 0))
        BY <3>1, <3>4
      <4> QED
        BY <1>1, <1>2, <1>4, <3>2, <3>4, <4>1 DEF CopyKinds
    <3> QED
      BY <3>3, <3>4
  <2> QED
    BY <1>5, <2>1, <2>2
<1>7. CopyData'
  <2> SUFFICES ASSUME cin # cout
               PROVE  /\ files'[cin] = source
                      /\ Len(buf) <= rpos /\ rpos <= Len(source)
                      /\ Excerpt(buf, source, rpos - Len(buf))
    BY <1>2 DEF CopyData
  <2> QED
    BY <1>1, <1>3 DEF CopyInv, CopyData
<1>8. CopyTold'
  <2>1. CASE cpc' = "exit" /\ complained'
    BY <2>1 DEF CopyTold
  <2>2. CASE cpc' # "exit" /\ (tool \in Checked => ~faulty' /\ lost' = 0)
    <3>1. ~(tool' \in Checked /\ (faulty' \/ lost' > 0))
      BY <1>2, <1>4, <2>2
    <3> QED
      BY <2>2, <3>1 DEF CopyTold
  <2>3. "sysio" \notin Checked
    BY DEF Checked
  <2>4. \A m \in 1 .. Len(buf) - cursor :
          cpc' = (IF cursor + m = Len(buf) THEN "read" ELSE "write") => cpc' # "exit"
    OBVIOUS
  <2>5. tool = "sysio" => tool \notin Checked
    BY <2>3
  <2>6. cpc' = "read" => cpc' # "exit"
    OBVIOUS
  <2> QED
    BY <1>5, <2>1, <2>2, <2>4, <2>5, <2>6, Zenon
<1>9. CopyPlace'
  <2> SUFFICES ASSUME Copying'
               PROVE  /\ Copied(target, source, wpos, tool # "holes", lost)'
                      /\ wpos' <= Reached'
                      /\ (lost' = 0 \/ (tool' = "sysio" /\ ~complained')) =>
                           wpos' = Reached' \/ (cpc' = "exit" /\ complained')
    BY DEF CopyPlace
  <2>1. Copying
    BY <1>2 DEF Copying
  <2>2. /\ Copied(target, source, wpos, tool # "holes", lost)
        /\ wpos <= rpos - Len(buf) + cursor
        /\ (lost = 0 \/ (tool = "sysio" /\ ~complained)) => wpos = rpos - Len(buf) + cursor
    BY <2>1 DEF CopyInv, CopyPlace, Reached
  <2>3. Len(source) \in Nat /\ rpos <= Len(source) /\ wpos + k <= rpos
    <3>1. rpos <= Len(source)
      BY <2>1 DEF Copying, CopyInv, CopyData
    <3> QED
      BY <1>1, <1>4, <2>2, <3>1, ByteSeq
  <2>4. Copied(target, source, wpos, tool # "holes", lost)'
    <3>0. target \in Seq(Byte)
      BY <1>1 DEF FileKinds, target
    <3>1. PICK t, whole : t \in Seq(Byte) /\ t = target /\ whole = (tool # "holes")
      BY <3>0, Zenon
    <3>2. PICK s \in Seq(Byte), w \in Nat, l \in Nat : s = source /\ w = wpos /\ l = lost
      BY <1>1, Zenon
    <3>3. Copied(t, s, w, whole, l) /\ (l = 0 => Excerpt(data, s, w)) /\ w + k <= Len(s)
      BY <1>1, <1>4, <2>1, <2>2, <2>3, <3>1, <3>2
    <3>4. Copied(WriteAt(t, w, SubSeq(data, 1, k)), s, w + k, whole, l)
      BY <3>1, <3>3, CopiedNext
    <3>5. Copied(WriteAt(t, w, SubSeq(data, 1, k)), s, w + k, whole, lost')
      <4>1. CASE lost' = lost
        BY <3>2, <3>4, <4>1
      <4>2. CASE lost' # lost
        <5>1. l = 0 /\ lost' = w + k + 1
          BY <1>3, <3>2, <4>2
        <5>2. lost' <= w + k + 1
          BY <1>4, <5>1
        <5>3. Copied(WriteAt(t, w, SubSeq(data, 1, k)), s, w + k, whole, 0)
          BY <3>4, <5>1
        <5> QED
          BY <1>4, <5>2, <5>3, CopiedLess
      <4> QED
        BY <4>1, <4>2
    <3>6. target' = WriteAt(t, w, SubSeq(data, 1, k)) /\ (tool # "holes")' = whole
      BY <1>2, <1>3, <3>1, <3>2 DEF target
    <3>7. wpos' = w + k /\ source' = s
      BY <1>2, <1>3, <3>2
    <3> QED
      BY <3>5, <3>6, <3>7, Zenon
  <2>5. CASE cpc' = "exit" /\ complained'
    <3>1. Reached' = rpos
      BY <1>2, <2>5 DEF Reached
    <3>2. wpos' <= Reached'
      BY <1>3, <2>3, <3>1
    <3> QED
      BY <2>4, <2>5, <3>2
  <2>6. CASE tool = "sysio" /\ cpc' = "read" /\ complained' /\ cursor' = cursor /\ lost' > 0
    <3>1. Reached' = rpos
      BY <1>2, <2>6 DEF Reached
    <3>2. wpos' <= Reached' /\ lost' # 0
      BY <1>3, <1>4, <2>3, <2>6, <3>1
    <3> QED
      BY <2>4, <2>6, <3>2
  <2>7. CASE \E m \in 1 .. Len(buf) - cursor :
               /\ cursor' = cursor + m /\ complained' = complained
               /\ cpc' = IF cursor + m = Len(buf) THEN "read" ELSE "write"
               /\ k <= m /\ ((lost' = 0 \/ tool = "sysio") => k = m)
    <3>1. PICK m \in 1 .. Len(buf) - cursor :
               /\ cursor' = cursor + m /\ complained' = complained
               /\ cpc' = IF cursor + m = Len(buf) THEN "read" ELSE "write"
               /\ k <= m /\ ((lost' = 0 \/ tool = "sysio") => k = m)
      BY <2>7
    <3>2. Reached' = rpos - Len(buf) + cursor + m
      <4>1. CASE cursor + m = Len(buf)
        <5>1. cpc' = "read"
          BY <3>1, <4>1
        <5>2. Reached' = rpos
          BY <1>2, <5>1 DEF Reached
        <5>3. m \in Int
          OBVIOUS
        <5>4. rpos - Len(buf) + cursor + m = rpos
          BY <1>1, <1>4, <4>1, <5>3
        <5> QED
          BY <1>1, <1>4, <4>1, <5>2, <5>4
      <4>2. CASE cursor + m # Len(buf)
        <5>1. cpc' = "write"
          BY <3>1, <4>2
        <5>2. Reached' = rpos - Len(buf) + cursor'
          BY <1>2, <5>1 DEF Reached
        <5> QED
          BY <1>1, <1>4, <3>1, <5>2
      <4> QED
        BY <4>1, <4>2
    <3>3. wpos' <= Reached'
      BY <1>1, <1>3, <1>4, <2>2, <3>1, <3>2
    <3>4. (lost' = 0 \/ (tool' = "sysio" /\ ~complained')) => wpos' = Reached'
      <4> HAVE lost' = 0 \/ (tool' = "sysio" /\ ~complained')
      <4>1. k = m
        BY <1>2, <3>1
      <4>2. lost' = 0 => lost = 0
        BY <1>1, <1>3, <1>4
      <4>3. lost = 0 \/ (tool = "sysio" /\ ~complained)
        BY <1>2, <3>1, <4>2, Zenon
      <4>4. wpos = rpos - Len(buf) + cursor
        BY <2>2, <4>3, Zenon
      <4> QED
        BY <1>1, <1>3, <1>4, <3>1, <3>2, <4>1, <4>4
    <3> QED
      BY <2>4, <3>3, <3>4
  <2> QED
    BY <1>5, <2>5, <2>6, <2>7
<1> QED
  BY <1>3, <1>6, <1>7, <1>8, <1>9 DEF CopyInv

(* Where the buffer's bytes from the cursor on go. *)
LEMMA BufferAhead ==
  ASSUME CopyInv, FileKinds, cpc = "write", Copying, lost = 0, NEW b \in Int, b <= Len(buf)
  PROVE  Excerpt(SubSeq(buf, cursor + 1, b), source, wpos)
<1>1. /\ rpos \in Nat /\ cursor \in Nat /\ buf \in Seq(Byte) /\ source \in Seq(Byte)
      /\ wpos = rpos - Len(buf) + cursor
  BY DEF CopyInv, CopyKinds, CopyPlace, Reached
<1>2. cin # cout
  BY DEF Copying
<1>3. Len(buf) <= rpos /\ Excerpt(buf, source, rpos - Len(buf))
  BY <1>2 DEF CopyInv, CopyData
<1>4. Len(buf) \in Nat
  BY <1>1, ByteSeq
<1>5. PICK off \in Nat, a \in Nat : off = rpos - Len(buf) /\ a = cursor
  <2>1. rpos - Len(buf) \in Nat /\ cursor \in Nat
    BY <1>1, <1>3, <1>4
  <2> QED
    BY <2>1, Zenon
<1>6. Excerpt(SubSeq(buf, a + 1, b), source, off + a)
  <2>1. Excerpt(buf, source, off)
    BY <1>3, <1>5
  <2> QED
    BY <1>1, <2>1, ExcerptOfExcerpt
<1>7. off + a = wpos
  BY <1>1, <1>5
<1> QED
  BY <1>5, <1>6, <1>7

(* The same of all of it, before anything of it has been written. *)
LEMMA BufferWhole ==
  ASSUME CopyInv, FileKinds, cpc = "write", Copying, lost = 0, cursor = 0
  PROVE  Excerpt(buf, source, wpos)
<1>1. buf \in Seq(Byte)
  BY DEF CopyInv, CopyKinds
<1>2. PICK b \in Int : b = Len(buf)
  BY <1>1, ByteSeq
<1>3. Excerpt(SubSeq(buf, cursor + 1, b), source, wpos)
  BY <1>2, BufferAhead
<1>4. SubSeq(buf, cursor + 1, b) = buf
  BY <1>1, <1>2, ByteSeq
<1> QED
  BY <1>3, <1>4

(* The tools that compare die of a short write, or have missed nothing.    *)
LEMMA CheckedDeals ==
  ASSUME FileKinds, CopyInv, cpc = "write", tool \in Checked, NEW data \in Seq(Byte),
         data # <<>>, NEW k \in 0 .. Len(data), Len(data) <= Len(buf) - cursor,
         PutOrDie(data, k), tool # "holes" => cursor + Len(data) = Len(buf)
  PROVE  DealsWith(k)
<1>1. Put(data, k, Len(data)) /\ cout \in Names /\ wpos \in Nat /\ lost \in Nat
  BY DEF PutOrDie, CopyInv, CopyKinds
<1>2. Len(data) \in Nat /\ Len(data) > 0
  BY ByteSeq
<1>3. lost = 0 /\ ~faulty
  BY <1>1 DEF CopyInv, CopyTold
<1>4. CASE k < Len(data)
  BY <1>4 DEF PutOrDie, DealsWith
<1>5. CASE ~(k < Len(data))
  <2>1. k = Len(data) /\ Dealt(Len(data)) /\ complained' = complained
    BY <1>2, <1>5 DEF PutOrDie
  <2>2. PICK m \in 1 .. Len(buf) - cursor : m = Len(data)
    <3>1. Len(data) \in 1 .. Len(buf) - cursor
      <4>1. buf \in Seq(Byte) /\ cursor \in Nat
        BY DEF CopyInv, CopyKinds
      <4> QED
        BY <1>2, <4>1, ByteSeq
    <3> QED
      BY <3>1, Zenon
  <2>3. ~faulty' /\ lost' = 0
    BY <1>1, <1>2, <1>3, <2>1, PutIs
  <2>4. k <= m
    BY <1>2, <2>1, <2>2
  <2>5. (tool # "holes" /\ ~(tool = "sysio" /\ lost' > 0)) => cursor + m = Len(buf)
    BY <2>2
  <2> QED
    BY <2>1, <2>2, <2>3, <2>4, <2>5, Zenon DEF DealsWith
<1> QED
  BY <1>4, <1>5

LEMMA WriteWholeKeeps ==
  ASSUME FileKinds, CopyInv, WriteWhole
  PROVE  FileKinds' /\ CopyInv'
<1>1. /\ cpc = "write" /\ tool = "tlpi" /\ UNCHANGED frame
      /\ \E k \in 0 .. Len(buf) : PutOrDie(buf, k)
  BY DEF WriteWhole
<1>2. buf \in Seq(Byte) /\ cursor = 0 /\ Len(buf) > 0
  BY <1>1 DEF CopyInv, CopyKinds
<1>3. Len(buf) \in Nat /\ buf # <<>> /\ Len(buf) <= Len(buf) - cursor
      /\ cursor + Len(buf) = Len(buf)
  BY <1>2, ByteSeq
<1>4. PICK k \in 0 .. Len(buf) : PutOrDie(buf, k)
  BY <1>1
<1>5. Copying /\ lost = 0 => Excerpt(buf, source, wpos)
  BY <1>1, <1>2, BufferWhole
<1>6. Put(buf, k, Len(buf)) /\ k <= Len(buf) - cursor
  BY <1>2, <1>3, <1>4 DEF PutOrDie
<1>7. DealsWith(k)
  <2>1. tool \in Checked
    BY <1>1 DEF Checked
  <2> QED
    BY <1>1, <1>2, <1>3, <1>4, <2>1, CheckedDeals
<1> QED
  BY <1>1, <1>2, <1>3, <1>5, <1>6, <1>7, CopyPuts

LEMMA CStringIs ==
  ASSUME NEW s \in Seq(Byte)
  PROVE  \E b \in Int : b <= Len(s) /\ CString(s) = SubSeq(s, 1, b)
<1> DEFINE ends == {i \in 1 .. Len(s) : s[i] = NUL}
<1>1. CString(s) = IF ends = {} THEN s ELSE SubSeq(s, 1, Min(ends) - 1)
  BY DEF CString
<1>2. Len(s) \in Nat
  BY ByteSeq
<1>3. CASE ends = {}
  <2>1. CString(s) = SubSeq(s, 1, Len(s)) /\ Len(s) \in Int /\ Len(s) <= Len(s)
    BY <1>1, <1>2, <1>3, ByteSeq
  <2> QED
    BY <2>1, Zenon
<1>4. CASE ends # {}
  <2>1. Min(ends) \in ends
    <3>1. ends \subseteq Nat
      OBVIOUS
    <3> HIDE DEF ends
    <3> QED
      BY <1>4, <3>1, LeastNumber
  <2>2. PICK b \in Int : b = Min(ends) - 1 /\ b <= Len(s)
    <3>1. \A b \in ends : b - 1 \in Int /\ b - 1 <= Len(s)
      BY <1>2
    <3> HIDE DEF ends
    <3> QED
      BY <2>1, <3>1
  <2>4. CString(s) = SubSeq(s, 1, b)
    <3> HIDE DEF ends
    <3> QED
      BY <1>1, <1>4, <2>2
  <2> QED
    BY <2>2, <2>4
<1> QED
  BY <1>3, <1>4

LEMMA WriteStreamKeeps ==
  ASSUME FileKinds, CopyInv, WriteStream
  PROVE  FileKinds' /\ CopyInv'
<1> DEFINE data == IF tool = "fgets" THEN CString(buf) ELSE buf
<1>1. /\ cpc = "write" /\ tool \in Streams /\ UNCHANGED frame /\ complained' = complained
      /\ \E k \in 0 .. Len(data) : Put(data, k, Len(buf))
      /\ Dealt(Len(buf))
  BY DEF WriteStream
<1>2. buf \in Seq(Byte) /\ cursor = 0 /\ Len(buf) > 0 /\ source \in Seq(Byte)
      /\ wpos \in Nat /\ cout \in Names /\ lost \in Nat
  <2>1. /\ cursor \in Nat /\ cursor < Len(buf) /\ buf \in Seq(Byte) /\ source \in Seq(Byte)
        /\ wpos \in Nat /\ cout \in Names /\ lost \in Nat
    BY <1>1 DEF CopyInv, CopyKinds
  <2>2. cursor = 0
    BY <1>1 DEF CopyInv, CopyKinds, Streams
  <2> QED
    BY <2>1, <2>2
<1>3. Len(buf) \in Nat
  BY <1>2, ByteSeq
<1>4. PICK k \in 0 .. Len(data) : Put(data, k, Len(buf))
  BY <1>1
<1>5. PICK a \in Nat, b \in Int : a = 0 /\ b <= Len(buf) /\ data = SubSeq(buf, a + 1, b)
  <2>1. PICK b \in Int : b <= Len(buf) /\ data = SubSeq(buf, 1, b)
    <3>1. CASE tool = "fgets"
      BY <1>2, <3>1, CStringIs
    <3>2. CASE tool # "fgets"
      <4>1. Len(buf) \in Int /\ Len(buf) <= Len(buf) /\ data = SubSeq(buf, 1, Len(buf))
        BY <1>2, <1>3, <3>2, ByteSeq
      <4> QED
        BY <4>1, Zenon
    <3> QED
      BY <3>1, <3>2
  <2>2. 0 \in Nat /\ 0 + 1 = 1
    OBVIOUS
  <2> QED
    BY <2>1, <2>2
<1> HIDE DEF data
<1>6. data \in Seq(Byte) /\ Len(data) = IF 0 < b THEN b ELSE 0
  <2>1. Excerpt(SubSeq(buf, a + 1, b), buf, a) /\ Len(SubSeq(buf, a + 1, b)) = IF a < b THEN b - a ELSE 0
    BY <1>2, <1>5, SubExcerpt
  <2> QED
    BY <1>5, <2>1 DEF Excerpt
<1>7. Copying /\ lost = 0 => Excerpt(data, source, wpos)
  <2> HAVE Copying /\ lost = 0
  <2>1. Excerpt(buf, source, wpos)
    BY <1>1, <1>2, BufferWhole
  <2>2. PICK off \in Nat, s \in Seq(Byte) : off = wpos /\ s = source
    BY <1>2
  <2>3. Excerpt(SubSeq(buf, a + 1, b), s, off + a)
    <3>1. Excerpt(buf, s, off)
      BY <2>1, <2>2
    <3> QED
      BY <1>5, <3>1, ExcerptOfExcerpt
  <2>4. off + a = off
    BY <1>5, <2>2
  <2> QED
    BY <1>5, <2>2, <2>3, <2>4
<1>8. k <= Len(buf) - cursor /\ k \in Nat
  BY <1>2, <1>3, <1>4, <1>5, <1>6
<1>9. DealsWith(k)
  <2>1. PICK m \in 1 .. Len(buf) - cursor : m = Len(buf)
    BY <1>2, <1>3
  <2>2. Dealt(m) /\ complained' = complained /\ k <= m /\ cursor + m = Len(buf)
    BY <1>1, <1>2, <1>3, <1>8, <2>1
  <2>3. tool # "sysio" /\ tool \notin Checked
    BY <1>1 DEF Streams, Checked
  <2>4. lost' = 0 => k = m
    <3>1. lost' = IF lost = 0 /\ k < Len(buf) THEN wpos + k + 1 ELSE lost
      BY <1>4 DEF Put
    <3> QED
      BY <1>2, <1>3, <1>8, <2>1, <3>1
  <2> QED
    BY <2>2, <2>3, <2>4, Zenon DEF DealsWith
<1> QED
  BY <1>1, <1>3, <1>4, <1>6, <1>7, <1>8, <1>9, CopyPuts

LEMMA WriteAgainKeeps ==
  ASSUME FileKinds, CopyInv, WriteAgain
  PROVE  FileKinds' /\ CopyInv'
<1>1. cpc = "write" /\ tool = "sysio" /\ UNCHANGED frame
  BY DEF WriteAgain
<1>2. /\ buf \in Seq(Byte) /\ cursor \in Nat /\ cursor < Len(buf) /\ lost \in Nat
      /\ lost = 0 => cursor = 0
      /\ wpos \in Nat /\ cout \in Names
  BY <1>1 DEF CopyInv, CopyKinds
<1>3. Len(buf) \in Nat
  BY <1>2, ByteSeq
<1>4. PICK b \in Nat : b = num /\ b <= Len(buf) /\ b > 0 /\ b = Len(buf) - cursor
  BY <1>2, <1>3 DEF num
<1>5. "sysio" \notin Checked
  BY DEF Checked
<1>6. CASE \E k \in 1 .. num : Put(SubSeq(buf, 1, num), k, num) /\ Dealt(k)
                               /\ complained' = complained
  <2> DEFINE data == SubSeq(buf, 1, num)
  <2>1. PICK k \in 1 .. num : Put(data, k, num) /\ Dealt(k) /\ complained' = complained
    BY <1>6
  <2>3. data \in Seq(Byte) /\ Len(data) = b
    <3>1. PICK a \in Nat : a = 0
      OBVIOUS
    <3>2. Excerpt(SubSeq(buf, a + 1, b), buf, a) /\ Len(SubSeq(buf, a + 1, b)) = IF a < b THEN b - a ELSE 0
      <4>1. b \in Int /\ b <= Len(buf)
        BY <1>4
      <4> QED
        BY <1>2, <4>1, SubExcerpt
    <3>3. a + 1 = 1
      BY <3>1
    <3>4. SubSeq(buf, a + 1, b) = data
      BY <1>4, <3>3
    <3> QED
      BY <1>4, <3>1, <3>2, <3>4 DEF Excerpt
  <2>4. Copying /\ lost = 0 => Excerpt(data, source, wpos)
    <3> HAVE Copying /\ lost = 0
    <3>1. cursor = 0
      BY <1>2
    <3>2. SubSeq(buf, 1, b) = buf
      BY <1>2, <1>3, <1>4, <3>1, ByteSeq
    <3>3. Excerpt(buf, source, wpos)
      BY <1>1, <3>1, BufferWhole
    <3> QED
      BY <1>4, <3>2, <3>3
  <2> HIDE DEF data
  <2>5. k \in 0 .. Len(data) /\ k <= Len(buf) - cursor /\ k \in Nat
    BY <1>2, <1>3, <1>4, <2>1, <2>3
  <2>6. DealsWith(k)
    <3>1. lost' = IF lost = 0 /\ k < num THEN wpos + k + 1 ELSE lost
      BY <2>1 DEF Put
    <3>2. (tool # "holes" /\ ~(tool = "sysio" /\ lost' > 0)) => cursor + k = Len(buf)
      <4> HAVE tool # "holes" /\ ~(tool = "sysio" /\ lost' > 0)
      <4>1. ~(lost' > 0)
        BY <1>1
      <4>2. ~(lost = 0 /\ k < num) /\ lost = 0
        BY <1>2, <2>5, <3>1, <4>1
      <4>3. k = b
        BY <1>4, <2>1, <2>5, <4>2
      <4>4. cursor = 0
        BY <1>2, <4>2
      <4> QED
        BY <1>3, <1>4, <4>3, <4>4
    <3>3. k \in 1 .. Len(buf) - cursor /\ k <= k
      BY <1>4, <2>1, <2>5
    <3>4. tool \notin Checked
      BY <1>1, <1>5
    <3> QED
      BY <2>1, <3>2, <3>3, <3>4, Zenon DEF DealsWith
  <2>7. PICK all \in Nat : all = num
    BY <1>4
  <2>8. Put(data, k, all)
    BY <2>1, <2>7
  <2> QED
    BY <1>1, <2>3, <2>4, <2>5, <2>6, <2>8, CopyPuts
<1>7. CASE Put(buf, 0, num) /\ cpc' = "read" /\ complained' = TRUE /\ cursor' = cursor
  <2>1. Copying /\ lost = 0 => Excerpt(buf, source, wpos)
    BY <1>1, <1>2, BufferWhole
  <2>2. lost' > 0
    <3>1. lost' = IF lost = 0 /\ 0 < num THEN wpos + 0 + 1 ELSE lost
      BY <1>7 DEF Put
    <3>2. 0 < num
      BY <1>4
    <3>3. lost' = IF lost = 0 THEN wpos + 0 + 1 ELSE lost
      BY <3>1, <3>2
    <3> QED
      BY <1>2, <3>3
  <2>3. DealsWith(0)
    BY <1>1, <1>7, <2>2 DEF DealsWith
  <2>4. PICK all \in Nat, k \in 0 .. Len(buf) : all = num /\ k = 0 /\ k <= Len(buf) - cursor
    BY <1>3, <1>4
  <2>5. Put(buf, k, all) /\ DealsWith(k)
    BY <1>7, <2>3, <2>4
  <2> QED
    BY <1>1, <1>2, <2>1, <2>4, <2>5, CopyPuts
<1> QED
  BY <1>6, <1>7 DEF WriteAgain

LEMMA WriteRunKeeps ==
  ASSUME FileKinds, CopyInv, WriteRun
  PROVE  FileKinds' /\ CopyInv'
<1>1. /\ cpc = "write" /\ tool = "holes" /\ UNCHANGED frame
      /\ \E k \in 0 .. Len(Run) : PutOrDie(Run, k)
  BY DEF WriteRun
<1>2. buf \in Seq(Byte) /\ cursor \in Nat /\ cursor < Len(buf)
  BY <1>1 DEF CopyInv, CopyKinds
<1>3. PICK e \in cursor + 1 .. Len(buf) : Run = SubSeq(buf, cursor + 1, e)
  BY <1>2, RunIs
<1>4. Len(buf) \in Nat /\ e \in Int /\ e <= Len(buf)
  BY <1>2, <1>3, ByteSeq
<1>5. Len(Run) = e - cursor /\ Run \in Seq(Byte)
  <2>1. PICK a \in Nat : a = cursor
    BY <1>2
  <2>2. Excerpt(SubSeq(buf, a + 1, e), buf, a) /\ Len(SubSeq(buf, a + 1, e)) = IF a < e THEN e - a ELSE 0
    BY <1>2, <1>4, SubExcerpt
  <2>3. Run = SubSeq(buf, a + 1, e)
    BY <1>3, <2>1
  <2>5. Len(Run) = e - cursor
    BY <1>2, <1>3, <2>1, <2>2, <2>3
  <2> QED
    BY <2>2, <2>3, <2>5 DEF Excerpt
<1>6. Copying /\ lost = 0 => Excerpt(Run, source, wpos)
  BY <1>1, <1>3, <1>4, BufferAhead
<1>7. PICK data \in Seq(Byte), k \in 0 .. Len(Run) : data = Run /\ PutOrDie(data, k)
  BY <1>1, <1>5
<1>8. /\ k \in 0 .. Len(data) /\ PutOrDie(data, k) /\ data # <<>>
      /\ Len(data) <= Len(buf) - cursor /\ k <= Len(buf) - cursor /\ Len(data) \in Nat
  <2>1. Len(data) \in Nat /\ Len(data) = e - cursor /\ (data # <<>> <=> Len(data) > 0)
    BY <1>5, <1>7, ByteSeq
  <2> QED
    BY <1>2, <1>3, <1>4, <1>7, <2>1
<1>9. DealsWith(k)
  <2>1. tool \in Checked
    BY <1>1 DEF Checked
  <2> QED
    BY <1>1, <1>8, <2>1, CheckedDeals
<1>10. Put(data, k, Len(data))
  BY <1>7 DEF PutOrDie
<1>11. Copying /\ lost = 0 => Excerpt(data, source, wpos)
  BY <1>6, <1>7
<1> QED
  BY <1>1, <1>8, <1>9, <1>10, <1>11, CopyPuts

LEMMA SkipZerosKeeps ==
  ASSUME FileKinds, CopyInv, SkipZeros
  PROVE  FileKinds' /\ CopyInv'
<1>1. /\ cpc = "write" /\ tool = "holes" /\ buf[cursor + 1] = NUL
      /\ UNCHANGED <<files, tool, cin, cout, rpos, buf, source, lost>>
  BY DEF SkipZeros, frame
<1>2. /\ buf \in Seq(Byte) /\ cursor \in Nat /\ cursor < Len(buf) /\ rpos \in Nat /\ wpos \in Nat
      /\ source \in Seq(Byte) /\ cout \in Names
  BY <1>1 DEF CopyInv, CopyKinds
<1>3. PICK e \in cursor + 1 .. Len(buf) :
         Run = SubSeq(buf, cursor + 1, e) /\ \A i \in cursor + 1 .. e : buf[i] = NUL
  BY <1>1, <1>2, RunIs
<1>4. Len(buf) \in Nat /\ e \in Int /\ e <= Len(buf)
  BY <1>2, <1>3, ByteSeq
<1>5. Excerpt(Run, buf, cursor) /\ Len(Run) = e - cursor /\ Run \in Seq(Byte)
  <2>1. PICK a \in Nat : a = cursor
    BY <1>2
  <2>2. Excerpt(SubSeq(buf, a + 1, e), buf, a) /\ Len(SubSeq(buf, a + 1, e)) = IF a < e THEN e - a ELSE 0
    BY <1>2, <1>4, SubExcerpt
  <2>3. Run = SubSeq(buf, a + 1, e)
    BY <1>3, <2>1
  <2>4. Excerpt(Run, buf, cursor)
    BY <2>1, <2>2, <2>3
  <2>5. Len(Run) = e - cursor
    BY <1>2, <1>3, <2>1, <2>2, <2>3
  <2> QED
    BY <2>4, <2>5 DEF Excerpt
<1>6. \A i \in 1 .. Len(Run) : Run[i] = NUL
  <2> TAKE i \in 1 .. Len(Run)
  <2>1. Run[i] = buf[cursor + i] /\ cursor + i \in cursor + 1 .. e
    BY <1>2, <1>4, <1>5 DEF Excerpt
  <2> QED
    BY <1>3, <2>1
<1>7. lost = 0 /\ ~faulty /\ tool \in Checked /\ "holes" \notin Streams
  <2>1. tool \in Checked
    BY <1>1 DEF Checked
  <2>2. lost \in Nat
    BY DEF CopyInv, CopyKinds
  <2> QED
    BY <1>1, <2>1, <2>2 DEF CopyInv, CopyTold, Streams
<1>8. FileKinds'
  BY <1>1 DEF FileKinds
<1>9. CopyData'
  BY <1>1 DEF CopyInv, CopyData
<1>10. CASE /\ wpos' = wpos + Len(Run) /\ Dealt(Len(Run))
            /\ complained' = complained /\ faulty' = faulty
  <2>1. /\ cursor' = cursor + Len(Run) /\ cursor' \in Nat /\ cursor' <= Len(buf)
        /\ cpc' = IF cursor' = Len(buf) THEN "read" ELSE "write"
        /\ Len(Run) \in Nat
    BY <1>2, <1>3, <1>4, <1>5, <1>10 DEF Dealt
  <2>2. cpc' = "read" \/ (cpc' = "write" /\ cursor' < Len(buf))
    BY <1>4, <2>1
  <2>3. CopyKinds'
    <3>1. wpos' \in Nat
      BY <1>2, <1>10, <2>1
    <3> QED
      BY <1>1, <1>2, <1>10, <2>1, <2>2, <3>1 DEF CopyInv, CopyKinds
  <2>4. CopyTold'
    BY <1>1, <1>7, <1>10, <2>2 DEF CopyTold
  <2>5. CopyPlace'
    <3> SUFFICES ASSUME Copying'
                 PROVE  CopyPlace'
      BY DEF CopyPlace
    <3>1. Copying
      BY <1>1 DEF Copying
    <3>2. /\ wpos = rpos - Len(buf) + cursor
          /\ Copied(target, source, wpos, tool # "holes", lost)
      BY <1>1, <1>7, <3>1 DEF CopyInv, CopyPlace, Reached
    <3>3. Excerpt(Run, source, wpos)
      BY <1>1, <1>3, <1>4, <1>7, <3>1, BufferAhead
    <3>4. Copied(target, source, wpos + Len(Run), FALSE, 0)
      <4>1. (tool # "holes") = FALSE
        BY <1>1, Zenon
      <4>2. PICK t, s, w, d : /\ t \in Seq(Byte) /\ s \in Seq(Byte) /\ w \in Nat
                              /\ t = target /\ s = source /\ w = wpos /\ d = Run
        <5>1. target \in Seq(Byte)
          BY <1>2 DEF FileKinds, target
        <5> QED
          BY <1>2, <5>1, Zenon
      <4>3. Copied(t, s, w, FALSE, 0)
        BY <1>7, <3>2, <4>1, <4>2, Zenon
      <4>4. Excerpt(d, s, w) /\ \A i \in 1 .. Len(d) : d[i] = NUL
        BY <1>6, <3>3, <4>2
      <4>5. Copied(t, s, w + Len(d), FALSE, 0)
        BY <4>2, <4>3, <4>4, CopiedPast
      <4> QED
        BY <4>2, <4>5
    <3>5. Copied(target, source, wpos, tool # "holes", lost)'
      <4>1. (tool' # "holes") = FALSE
        BY <1>1, Zenon
      <4>2. target' = target /\ source' = source /\ wpos' = wpos + Len(Run) /\ lost' = 0
        BY <1>1, <1>7, <1>10 DEF target
      <4> QED
        BY <3>4, <4>1, <4>2, Zenon
    <3>6. wpos' = rpos - Len(buf) + cursor'
      BY <1>2, <1>4, <1>10, <2>1, <3>2
    <3>7. wpos' = Reached' /\ wpos' <= Reached'
      BY <1>1, <1>2, <1>4, <2>1, <3>6 DEF Reached
    <3> QED
      BY <3>5, <3>7 DEF CopyPlace
  <2> QED
    BY <1>8, <1>9, <2>3, <2>4, <2>5 DEF CopyInv
<1>11. CASE /\ cpc' = "exit" /\ complained' = TRUE /\ faulty' = TRUE
            /\ UNCHANGED <<wpos, cursor>>
  <2>1. CopyKinds'
    BY <1>1, <1>11 DEF CopyInv, CopyKinds
  <2>2. CopyTold'
    BY <1>11 DEF CopyTold
  <2>3. CopyPlace'
    <3> SUFFICES ASSUME Copying'
                 PROVE  CopyPlace'
      BY DEF CopyPlace
    <3>1. Copying
      BY <1>1 DEF Copying
    <3>2. /\ wpos = rpos - Len(buf) + cursor
          /\ Copied(target, source, wpos, tool # "holes", lost)
      BY <1>1, <1>7, <3>1 DEF CopyInv, CopyPlace, Reached
    <3>3. Copied(target, source, wpos, tool # "holes", lost)'
      BY <1>1, <1>11, <3>2 DEF target
    <3>4. wpos' <= Reached'
      BY <1>1, <1>2, <1>4, <1>11, <3>2 DEF Reached
    <3> QED
      BY <1>11, <3>3, <3>4 DEF CopyPlace
  <2> QED
    BY <1>8, <1>9, <2>1, <2>2, <2>3 DEF CopyInv
<1> QED
  BY <1>10, <1>11 DEF SkipZeros

LEMMA ReadKeeps ==
  ASSUME FileKinds, CopyInv, Read
  PROVE  FileKinds' /\ CopyInv'
<1>1. /\ cpc = "read" /\ cursor' = 0 /\ cpc' = "write"
      /\ UNCHANGED <<files, tool, cin, cout, wpos, complained, source, faulty, lost>>
  BY DEF Read
<1>2. PICK piece \in Pieces : piece # <<>> /\ buf' = piece /\ rpos' = rpos + Len(piece)
  BY DEF Read
<1>3. /\ rpos \in Nat /\ wpos \in Nat /\ tool \in Tools /\ cin \in Names /\ cout \in Names
      /\ source \in Seq(Byte) /\ lost \in Nat
  BY <1>1 DEF CopyInv, CopyKinds
<1>4. files[cin] \in Seq(Byte)
  BY <1>3 DEF FileKinds
<1>5. Excerpt(piece, files[cin], rpos)
  BY <1>3, <1>4, PieceIs
<1>6. piece \in Seq(Byte) /\ Len(piece) \in Nat /\ Len(piece) > 0 /\ rpos + Len(piece) <= Len(files[cin])
  <2>1. piece \in Seq(Byte)
    BY <1>5 DEF Excerpt
  <2>2. Len(piece) \in Nat /\ Len(piece) > 0
    BY <1>2, <2>1, ByteSeq
  <2> QED
    BY <1>2, <1>5, <2>1, <2>2 DEF Excerpt
<1>7. FileKinds'
  BY <1>1 DEF FileKinds
<1>8. CopyKinds'
  <2>1. rpos' \in Nat
    BY <1>2, <1>3, <1>6
  <2> QED
    BY <1>1, <1>2, <1>3, <1>6, <2>1 DEF CopyKinds
<1>9. CopyData'
  <2> SUFFICES ASSUME cin # cout
               PROVE  /\ files'[cin] = source
                      /\ Len(buf') <= rpos' /\ rpos' <= Len(source)
                      /\ Excerpt(buf', source, rpos' - Len(buf'))
    BY <1>1 DEF CopyData
  <2>1. files[cin] = source
    BY <1>1 DEF CopyInv, CopyData
  <2>2. rpos' - Len(buf') = rpos
    BY <1>2, <1>3, <1>6
  <2> QED
    BY <1>1, <1>2, <1>3, <1>5, <1>6, <2>1, <2>2
<1>10. CopyPlace'
  <2> SUFFICES ASSUME Copying'
               PROVE  CopyPlace'
    BY DEF CopyPlace
  <2>1. Copying
    BY <1>1 DEF Copying
  <2>2. /\ Copied(target, source, wpos, tool # "holes", lost)
        /\ wpos <= rpos
        /\ (lost = 0 \/ (tool = "sysio" /\ ~complained)) => wpos = rpos
    BY <1>1, <2>1 DEF CopyInv, CopyPlace, Reached
  <2>3. Reached' = rpos
    BY <1>1, <1>2, <1>3, <1>6 DEF Reached
  <2>4. Copied(target, source, wpos, tool # "holes", lost)'
    BY <1>1, <2>2 DEF target
  <2>5. wpos' <= Reached' /\ ((lost' = 0 \/ (tool' = "sysio" /\ ~complained')) => wpos' = Reached')
    BY <1>1, <2>2, <2>3
  <2> QED
    BY <2>4, <2>5 DEF CopyPlace
<1>11. CopyTold'
  BY <1>1 DEF CopyInv, CopyTold
<1> QED
  BY <1>7, <1>8, <1>9, <1>10, <1>11 DEF CopyInv

LEMMA CopyEndsKeeps ==
  ASSUME FileKinds, CopyInv, CopyEnds
  PROVE  FileKinds' /\ CopyInv'
<1>1. /\ cpc = "read" /\ cpc' = "exit"
      /\ UNCHANGED <<files, tool, cin, cout, rpos, wpos, buf, cursor, source, lost>>
  BY DEF CopyEnds
<1>2. /\ rpos \in Nat /\ wpos \in Nat /\ tool \in Tools /\ cin \in Names /\ cout \in Names
      /\ source \in Seq(Byte) /\ lost \in Nat
  BY <1>1 DEF CopyInv, CopyKinds
<1>3. FileKinds'
  BY <1>1 DEF FileKinds
<1>4. CopyKinds'
  BY <1>1 DEF CopyInv, CopyKinds
<1>5. CopyData'
  BY <1>1 DEF CopyInv, CopyData
<1>6. ~complained' => ~complained
  BY Zenon DEF CopyEnds
<1>7. CopyPlace'
  <2> SUFFICES ASSUME Copying'
               PROVE  CopyPlace'
    BY DEF CopyPlace
  <2>1. Copying
    BY <1>1 DEF Copying
  <2>2. /\ Copied(target, source, wpos, tool # "holes", lost)
        /\ wpos <= rpos
        /\ (lost = 0 \/ (tool = "sysio" /\ ~complained)) => wpos = rpos
    BY <1>1, <2>1 DEF CopyInv, CopyPlace, Reached
  <2>3. Copied(target, source, wpos, tool # "holes", lost)'
    BY <1>1, <2>2 DEF target
  <2>4. Reached' = rpos
    BY <1>1 DEF Reached
  <2>5. wpos' <= Reached' /\ ((lost' = 0 \/ (tool' = "sysio" /\ ~complained')) => wpos' = Reached')
    BY <1>1, <1>6, <2>2, <2>4
  <2> QED
    BY <2>3, <2>5 DEF CopyPlace
<1>8. CopyTold'
  <2>1. tool \in Checked => ~faulty /\ lost = 0
    BY <1>1, <1>2 DEF CopyInv, CopyTold
  <2>2. tool \in Checked => tool \in Plain /\ tool \notin Streams
    BY DEF Plain, Checked, Streams
  <2>3. tool \in Tools => tool \in Plain \/ tool \in Streams
    BY DEF Tools
  <2>4. CASE <<>> \in Pieces /\ complained' = complained /\ faulty' = faulty
    <3>1. Copying' => rpos = Len(source)
      <4> HAVE Copying'
      <4>1. files[cin] = source /\ rpos <= Len(source)
        BY <1>1 DEF Copying, CopyInv, CopyData
      <4>2. rpos >= Len(files[cin])
        <5>1. files[cin] \in Seq(Byte)
          BY <1>2 DEF FileKinds
        <5>2. PICK piece \in Pieces : piece = <<>>
          BY <2>4
        <5> QED
          BY <1>2, <5>1, <5>2, PieceIs
      <4> QED
        BY <1>2, <4>1, <4>2, ByteSeq
    <3>2. tool \in Checked => ~faulty' /\ ~(lost' > 0)
      BY <1>1, <2>1, <2>4
    <3> QED
      BY <1>1, <3>1, <3>2 DEF CopyTold
  <2>5. CASE complained' = TRUE
    BY <1>1, <2>5 DEF CopyTold
  <2>6. CASE complained' = (complained \/ tool \in Plain) /\ faulty' = TRUE
    <3>1. CASE tool \in Plain
      <4>1. complained'
        BY <2>6, <3>1, Zenon
      <4> QED
        BY <1>1, <4>1 DEF CopyTold
    <3>2. CASE tool \in Streams
      <4>1. tool' \notin Checked /\ tool' \in Streams
        BY <1>1, <2>2, <3>2
      <4> QED
        BY <2>6, <4>1 DEF CopyTold
    <3> QED
      BY <1>2, <2>3, <3>1, <3>2
  <2> QED
    BY <2>4, <2>5, <2>6 DEF CopyEnds
<1> QED
  BY <1>3, <1>4, <1>5, <1>7, <1>8 DEF CopyInv

LEMMA CopyInit ==
  Init => CopyInv
<1> SUFFICES ASSUME Init
             PROVE  CopyInv
  OBVIOUS
<1>1. /\ cpc = "idle" /\ rpos = 0 /\ wpos = 0 /\ buf = <<>> /\ cursor = 0
      /\ complained = FALSE /\ faulty = FALSE /\ lost = 0
  BY DEF Init, CopyIdle
<1>2. buf \in Seq(Byte) /\ Len(buf) = 0
  BY <1>1, EmptySeq
<1> QED
  BY <1>1, <1>2 DEF CopyInv, CopyKinds, CopyData, CopyPlace, CopyTold, Copying

LEMMA CopyBegins ==
  ASSUME FileKinds, CopyInv, NEW t \in Tools, NEW a \in Names, NEW b \in Names, StartCopy(t, a, b)
  PROVE  FileKinds' /\ CopyInv'
<1>1. /\ tool' = t /\ cin' = a /\ cout' = b /\ source' = files[a] /\ cpc = "idle"
      /\ \/ cpc' = "read" /\ files' = [files EXCEPT ![b] = <<>>]
            /\ complained' = complained /\ faulty' = faulty
         \/ cpc' = "exit" /\ complained' = TRUE /\ files' = files
      /\ rpos' = rpos /\ wpos' = wpos /\ buf' = buf /\ cursor' = cursor /\ lost' = lost
  BY DEF StartCopy, Open
<1>2. /\ rpos = 0 /\ wpos = 0 /\ buf \in Seq(Byte) /\ Len(buf) = 0 /\ ~complained /\ ~faulty
      /\ cursor \in Nat /\ lost = 0
  BY <1>1 DEF CopyInv, CopyKinds
<1>3. files \in [Names -> Seq(Byte)] /\ <<>> \in Seq(Byte) /\ Len(<<>>) = 0
  BY EmptySeq DEF FileKinds
<1>4. /\ FileKinds' /\ source' \in Seq(Byte)
      /\ a # b => files'[a] = files[a]
      /\ cpc' = "read" => files'[b] = <<>> /\ ~complained' /\ ~faulty'
      /\ cpc' = "exit" => complained'
      /\ cpc' \in {"read", "exit"}
  <2>1. CASE /\ cpc' = "read" /\ files' = [files EXCEPT ![b] = <<>>]
             /\ complained' = complained /\ faulty' = faulty
    <3>1. FileKinds'
      BY <1>3, <2>1 DEF FileKinds
    <3> QED
      BY <1>1, <1>2, <1>3, <2>1, <3>1
  <2>2. CASE cpc' = "exit" /\ complained' = TRUE /\ files' = files
    BY <1>1, <1>3, <2>2 DEF FileKinds
  <2> QED
    BY <1>1, <2>1, <2>2
<1>5. Len(files[a]) \in Nat
  BY <1>3, ByteSeq
<1>6. CopyKinds'
  BY <1>1, <1>2, <1>4 DEF CopyKinds
<1>7. CopyData'
  <2>1. Excerpt(buf, files[a], 0)
    BY <1>2, ByteSeq DEF Excerpt
  <2>2. rpos' - Len(buf') = 0 /\ Len(buf') <= rpos' /\ rpos' <= Len(source')
    BY <1>1, <1>2, <1>5
  <2>3. Excerpt(buf', source', rpos' - Len(buf'))
    BY <1>1, <2>1, <2>2
  <2> QED
    BY <1>1, <1>4, <2>2, <2>3 DEF CopyData
<1>8. CopyPlace'
  <2>1. CASE cpc' = "read"
    <3>1. Copied(<<>>, files[a], 0, tool' # "holes", 0)
      BY <1>3, <1>5 DEF Copied
    <3>2. Copied(target, source, wpos, tool # "holes", lost)'
      <4>1. target' = <<>> /\ source' = files[a] /\ wpos' = 0 /\ lost' = 0
        BY <1>1, <1>2, <1>4, <2>1 DEF target
      <4> QED
        BY <3>1, <4>1, Zenon
    <3>3. wpos' = Reached' /\ wpos' <= Reached'
      BY <1>1, <1>2, <2>1 DEF Reached
    <3> QED
      BY <3>2, <3>3 DEF CopyPlace
  <2>2. CASE cpc' = "exit"
    BY <1>1, <1>2, <1>4, <2>2 DEF CopyPlace
  <2> QED
    BY <1>4, <2>1, <2>2
<1>9. CopyTold'
  <2>1. ~(lost' > 0)
    BY <1>1, <1>2
  <2>2. CASE cpc' = "read"
    BY <1>4, <2>1, <2>2 DEF CopyTold
  <2>3. CASE cpc' = "exit"
    BY <1>4, <2>3 DEF CopyTold
  <2> QED
    BY <1>4, <2>2, <2>3
<1> QED
  BY <1>4, <1>6, <1>7, <1>8, <1>9 DEF CopyInv

LEMMA CopySame ==
  ASSUME CopyInv, UNCHANGED copyVars, cpc = "idle" \/ UNCHANGED files
  PROVE  CopyInv'
<1>1. /\ cpc' = cpc /\ tool' = tool /\ cin' = cin /\ cout' = cout /\ rpos' = rpos
      /\ wpos' = wpos /\ buf' = buf /\ cursor' = cursor /\ complained' = complained
      /\ source' = source /\ faulty' = faulty /\ lost' = lost
  BY DEF copyVars
<1>2. CopyKinds'
  BY <1>1 DEF CopyInv, CopyKinds
<1>3. CASE cpc = "idle"
  BY <1>1, <1>2, <1>3 DEF CopyInv, CopyData, CopyPlace, CopyTold, Copying
<1>4. CASE UNCHANGED files
  <2>1. CopyData'
    BY <1>1, <1>4 DEF CopyInv, CopyData
  <2>2. Copying' <=> Copying
    BY <1>1 DEF Copying
  <2>3. CopyPlace'
    BY <1>1, <1>4, <2>2 DEF CopyInv, CopyPlace, Reached, target
  <2>4. CopyTold'
    BY <1>1, <2>2 DEF CopyInv, CopyTold
  <2> QED
    BY <1>2, <2>1, <2>3, <2>4 DEF CopyInv
<1> QED
  BY <1>3, <1>4

LEMMA CopyGoesOn ==
  ASSUME FileKinds, CopyInv, CopyStep
  PROVE  FileKinds' /\ CopyInv'
BY ReadKeeps, CopyEndsKeeps, WriteWholeKeeps, WriteStreamKeeps, WriteAgainKeeps,
   WriteRunKeeps, SkipZerosKeeps DEF CopyStep

LEMMA CopyMeans ==
  FileKinds /\ CopyInv => CopyInOrder /\ CopyOrComplain
<1> SUFFICES ASSUME FileKinds, CopyInv
             PROVE  CopyInOrder /\ CopyOrComplain
  OBVIOUS
<1>1. CASE ~Copying
  BY <1>1 DEF CopyInOrder, CopyOrComplain
<1>2. CASE Copying
  <2>1. /\ rpos \in Nat /\ wpos \in Nat /\ source \in Seq(Byte) /\ lost \in Nat
        /\ cpc # "idle" /\ cout \in Names /\ tool \in Tools
    BY <1>2 DEF Copying, CopyInv, CopyKinds
  <2>2. Len(target) \in Nat /\ Len(source) \in Nat
    BY <2>1, ByteSeq DEF FileKinds, target
  <2>3. (cpc = "exit" /\ complained /\ rpos = 0) \/ Copied(target, source, wpos, tool # "holes", lost)
    BY <1>2 DEF CopyInv, CopyPlace
  <2>4. CopyInOrder
    <3> SUFFICES ASSUME rpos > 0
                 PROVE  /\ Len(target) <= Len(source)
                        /\ \A k \in 1 .. Len(target) : lost = 0 \/ k < lost => target[k] = source[k]
      BY DEF CopyInOrder
    <3>1. Copied(target, source, wpos, tool # "holes", lost)
      BY <2>1, <2>3
    <3> QED
      BY <2>1, <2>2, <3>1 DEF Copied
  <2>5. CopyOrComplain
    <3> SUFFICES ASSUME cpc = "exit", ~complained
                 PROVE  /\ tool \in Checked => ~faulty
                        /\ tool \in {"sysio", "tlpi"} => Len(target) = Len(source)
                        /\ tool = "holes" => \A k \in Len(target) + 1 .. Len(source) : source[k] = NUL
                        /\ tool \in Streams => faulty \/ lost > 0 \/ Len(target) = Len(source)
      BY DEF CopyOrComplain
    <3>1. /\ Copied(target, source, wpos, tool # "holes", lost)
          /\ (lost = 0 \/ tool = "sysio") => wpos = rpos
          /\ tool \in Checked => ~faulty /\ lost = 0
          /\ (tool \in Streams => ~faulty) => rpos = Len(source)
      BY <1>2, <2>1 DEF CopyInv, CopyPlace, CopyTold, Reached
    <3>2. /\ tool \in {"sysio", "tlpi", "holes"} => tool \notin Streams
          /\ tool \in {"tlpi", "holes"} => tool \in Checked
          /\ tool \in Streams => tool # "holes"
      BY DEF Streams, Checked
    <3>3. tool \in Checked => ~faulty
      BY <3>1
    <3>4. tool \in {"sysio", "tlpi"} => Len(target) = Len(source)
      <4> HAVE tool \in {"sysio", "tlpi"}
      <4>1. wpos = Len(source) /\ tool # "holes"
        BY <3>1, <3>2
      <4> QED
        BY <3>1, <4>1 DEF Copied
    <3>5. tool = "holes" => \A k \in Len(target) + 1 .. Len(source) : source[k] = NUL
      <4> HAVE tool = "holes"
      <4>1. wpos = Len(source) /\ lost = 0
        BY <3>1, <3>2
      <4> QED
        BY <3>1, <4>1 DEF Copied
    <3>6. tool \in Streams => faulty \/ lost > 0 \/ Len(target) = Len(source)
      <4> SUFFICES ASSUME tool \in Streams, ~faulty, ~(lost > 0)
                   PROVE  Len(target) = Len(source)
        OBVIOUS
      <4>1. wpos = Len(source) /\ tool # "holes"
        BY <2>1, <3>1, <3>2
      <4> QED
        BY <3>1, <4>1 DEF Copied
    <3> QED
      BY <3>3, <3>4, <3>5, <3>6
  <2> QED
    BY <2>4, <2>5
<1> QED
  BY <1>1, <1>2

-----------------------------------------------------------------------------
(* The deletion of a line.                                                 *)

(* Places of line breaks, and how many there are up to place k. *)
Ending(f) == {j \in 1 .. Len(f) : f[j] = NL}
EndsTo(f, k) == Cardinality(UpTo(Ending(f), k))

LEMMA EndsToIs ==
  ASSUME NEW f, NEW k \in Nat
  PROVE  /\ EndsTo(f, 0) = 0 /\ EndsTo(f, k) \in Nat /\ EndsTo(f, k + 1) \in Nat
         /\ k + 1 \in Ending(f) => EndsTo(f, k + 1) = EndsTo(f, k) + 1
         /\ k + 1 \notin Ending(f) => EndsTo(f, k + 1) = EndsTo(f, k)
<1>1. EndsTo(f, 0) = 0
  BY CountFirst DEF EndsTo
<1>2. /\ EndsTo(f, k) \in Nat
      /\ EndsTo(f, k + 1) = EndsTo(f, k) + IF k + 1 \in Ending(f) THEN 1 ELSE 0
  BY CountNext DEF EndsTo
<1> QED
  BY <1>1, <1>2

LEMMA EndsToGrows ==
  ASSUME NEW f, NEW a \in Nat, NEW b \in Nat, a <= b
  PROVE  EndsTo(f, a) <= EndsTo(f, b)
<1>1. UpTo(Ending(f), a) \subseteq UpTo(Ending(f), b)
  BY DEF UpTo
<1>2. IsFiniteSet(UpTo(Ending(f), b))
  <2>1. IsFiniteSet(1 .. b) /\ UpTo(Ending(f), b) \subseteq 1 .. b
    BY FS_Interval DEF UpTo
  <2> QED
    BY <2>1, FS_Subset
<1> QED
  BY <1>1, <1>2, FS_Subset DEF EndsTo

(* Moving a set of numbers does not change how many they are. *)
LEMMA ShiftedCount ==
  ASSUME NEW S, IsFiniteSet(S), S \subseteq Int, NEW d \in Int
  PROVE  /\ IsFiniteSet({j + d : j \in S})
         /\ Cardinality({j + d : j \in S}) = Cardinality(S)
<1> DEFINE M == {j + d : j \in S}
           h == [j \in S |-> j + d]
<1>1. h \in [S -> M]
  OBVIOUS
<1>2. \A a, b \in S : h[a] = h[b] => a = b
  OBVIOUS
<1>3. \A m \in M : \E j \in S : h[j] = m
  OBVIOUS
<1> HIDE DEF M, h
<1>4. h \in Bijection(S, M)
  BY <1>1, <1>2, <1>3, Zenon DEF Bijection, Injection, Surjection, IsInjective
<1>5. ExistsBijection(S, M)
  BY <1>4 DEF ExistsBijection
<1>6. IsFiniteSet(M) /\ Cardinality(M) = Cardinality(S)
  BY <1>5, FS_Bijection
<1> QED
  BY <1>6 DEF M

(* The breaks in front of an offset are those up to the place of the byte  *)
(* before it.                                                              *)
LEMMA OffsetsBelow ==
  ASSUME NEW f \in Seq(Byte), NEW b \in Nat, b <= Len(f)
  PROVE  Cardinality({o \in BreakOffsets(f) : o < b}) = EndsTo(f, b)
<1>1. Len(f) \in Nat
  BY ByteSeq
<1>2. {o \in BreakOffsets(f) : o < b} = {j + (-1) : j \in UpTo(Ending(f), b)}
  <2>1. ASSUME NEW o \in BreakOffsets(f), o < b
        PROVE  o \in {j + (-1) : j \in UpTo(Ending(f), b)}
    <3>1. o + 1 \in UpTo(Ending(f), b) /\ o = (o + 1) + (-1)
      BY <1>1, <2>1 DEF BreakOffsets, UpTo, Ending
    <3> QED
      BY <3>1
  <2>2. ASSUME NEW j \in UpTo(Ending(f), b)
        PROVE  j + (-1) \in BreakOffsets(f) /\ j + (-1) < b
    <3>1. j \in Ending(f) /\ j <= b /\ j \in Nat /\ j + (-1) = j - 1
      BY <1>1 DEF UpTo, Ending
    <3> QED
      BY <3>1 DEF BreakOffsets, Ending
  <2> QED
    BY <2>1, <2>2
<1>3. IsFiniteSet(UpTo(Ending(f), b)) /\ UpTo(Ending(f), b) \subseteq Int
  <2>1. IsFiniteSet(1 .. b) /\ UpTo(Ending(f), b) \subseteq 1 .. b
    BY FS_Interval DEF UpTo
  <2> QED
    BY <2>1, FS_Subset
<1>4. Cardinality({j + (-1) : j \in UpTo(Ending(f), b)}) = Cardinality(UpTo(Ending(f), b))
  BY <1>3, ShiftedCount
<1> QED
  BY <1>2, <1>4 DEF EndsTo

(* The break that ends a line is the one with that number. *)
LEMMA BreakIs ==
  ASSUME NEW f \in Seq(Byte), NEW m \in Nat, m >= 1, NEW k \in Ending(f), EndsTo(f, k) = m
  PROVE  BreakOf(f, m) = k - 1 /\ k - 1 \in BreakOffsets(f)
<1> DEFINE B(b) == Cardinality({o \in BreakOffsets(f) : o < b}) = m - 1
<1>1. Len(f) \in Nat /\ k \in Nat /\ k >= 1 /\ k <= Len(f)
  BY ByteSeq DEF Ending
<1>2. k - 1 \in BreakOffsets(f)
  BY <1>1 DEF BreakOffsets, Ending
<1>3. EndsTo(f, k - 1) = m - 1
  <2>1. PICK j \in Nat : j = k - 1 /\ j + 1 = k
    BY <1>1
  <2>2. EndsTo(f, j + 1) = EndsTo(f, j) + 1 /\ EndsTo(f, j) \in Nat
    BY <2>1, EndsToIs
  <2> QED
    BY <2>1, <2>2
<1>4. B(k - 1)
  BY <1>1, <1>3, OffsetsBelow
<1>5. ASSUME NEW b \in BreakOffsets(f), B(b)
      PROVE  b = k - 1
  <2>1. b \in Nat /\ b < Len(f) /\ b + 1 \in Ending(f)
    BY <1>1 DEF BreakOffsets, Ending
  <2>2. EndsTo(f, b) = m - 1
    BY <1>1, <1>5, <2>1, OffsetsBelow
  <2>3. EndsTo(f, b + 1) = m
    BY <2>1, <2>2, EndsToIs
  <2>4. ~(b < k - 1)
    <3>1. b < k - 1 => EndsTo(f, b + 1) <= EndsTo(f, k - 1)
      BY <1>1, <2>1, EndsToGrows
    <3> QED
      BY <1>3, <2>3, <3>1
  <2>5. ~(k - 1 < b)
    <3>1. k - 1 < b => EndsTo(f, k) <= EndsTo(f, b)
      BY <1>1, <2>1, EndsToGrows
    <3> QED
      BY <2>2, <3>1
  <2> QED
    BY <1>1, <2>1, <2>4, <2>5
<1>6. BreakOf(f, m) = CHOOSE b \in BreakOffsets(f) : B(b)
  <2>1. m # 0
    OBVIOUS
  <2> QED
    BY <2>1, Zenon DEF BreakOf
<1> HIDE DEF B
<1>7. (CHOOSE b \in BreakOffsets(f) : B(b)) = k - 1
  BY <1>2, <1>4, <1>5
<1> QED
  BY <1>2, <1>6, <1>7

LEMMA BreakFound ==
  ASSUME NEW f \in Seq(Byte), NEW m \in Nat, m >= 1, HasBreak(f, m)
  PROVE  \E k \in Ending(f) : EndsTo(f, k) = m /\ BreakOf(f, m) = k - 1
<1> DEFINE T == {k \in 1 .. Len(f) : EndsTo(f, k) >= m}
<1>1. Len(f) \in Nat
  BY ByteSeq
<1>2. m <= EndsTo(f, Len(f))
  <2>1. {o \in BreakOffsets(f) : o < Len(f)} = BreakOffsets(f)
    BY <1>1 DEF BreakOffsets
  <2>2. Cardinality({o \in BreakOffsets(f) : o < Len(f)}) = EndsTo(f, Len(f))
    BY <1>1, OffsetsBelow
  <2> QED
    BY <2>1, <2>2 DEF HasBreak
<1>3. Len(f) \in T
  <2>1. Len(f) # 0
    BY <1>2, EndsToIs
  <2> QED
    BY <1>1, <1>2, <2>1
<1>4. Min(T) \in T /\ \A k \in T : Min(T) <= k
  <2>1. T \subseteq Nat /\ T # {}
    BY <1>3
  <2> HIDE DEF T
  <2> QED
    BY <2>1, LeastNumber
<1>5. PICK k \in T : \A j \in T : k <= j
  BY <1>4
<1>6. k \in 1 .. Len(f) /\ EndsTo(f, k) >= m
  BY <1>5
<1>7. PICK j \in Nat : j + 1 = k
  <2>1. k - 1 \in Nat /\ (k - 1) + 1 = k
    BY <1>6
  <2> QED
    BY <2>1, Zenon
<1>8. EndsTo(f, j) < m
  <2>1. EndsTo(f, 0) = 0 /\ EndsTo(f, j) \in Nat
    BY EndsToIs
  <2>2. CASE j = 0
    BY <2>1, <2>2
  <2>3. CASE j # 0
    <3>1. j \notin T
      BY <1>5, <1>6, <1>7
    <3>2. j \in 1 .. Len(f)
      BY <1>1, <1>6, <1>7, <2>3
    <3> QED
      BY <2>1, <3>1, <3>2
  <2> QED
    BY <2>2, <2>3
<1>9. k \in Ending(f) /\ EndsTo(f, k) = m
  <2>1. /\ EndsTo(f, j) \in Nat
        /\ j + 1 \in Ending(f) => EndsTo(f, j + 1) = EndsTo(f, j) + 1
        /\ j + 1 \notin Ending(f) => EndsTo(f, j + 1) = EndsTo(f, j)
    BY EndsToIs
  <2> QED
    BY <1>6, <1>7, <1>8, <2>1
<1> QED
  BY <1>9, BreakIs

EditKinds ==
  /\ epc \in {"idle", "locate", "seek", "shift", "exit"}
  /\ prevbrk \in Nat /\ curbrk \in Nat /\ linebrks \in Nat
  /\ epc = "idle" => /\ prevbrk = 0 /\ linebrks = 0 /\ ~spoiled
                     /\ lineno = 0 /\ outcome = "none"
  /\ epc # "idle" => /\ edited \in Names /\ lineno \in Nat
                     /\ original \in Seq(Byte) /\ Len(original) <= INT_MAX
                     /\ fd1 \in Nat \union {BadFd} /\ fd2 \in Nat \union {BadFd}
  /\ epc \in {"locate", "seek"} => file = original /\ ~spoiled

(* The scan has counted the breaks up to its place, of which there are     *)
(* fewer than the line's, and has seen the one before the line or not.     *)
ScanInv ==
  epc = "locate" =>
    /\ fd1 = BadFd => linebrks = 0 /\ prevbrk = 0
    /\ lineno > 0 => linebrks < lineno
    /\ lineno < 1 => prevbrk = 0
    /\ fd1 # BadFd =>
         /\ fd1 <= Len(original) /\ linebrks = EndsTo(original, fd1)
         /\ prevbrk # 0 => prevbrk < fd1
         /\ Tellable => prevbrk = IF fd1 > BreakOf(original, lineno - 1)
                                  THEN BreakOf(original, lineno - 1) ELSE 0

(* Once the scan has ended, the line is between prevbrk and curbrk. *)
LineFound ==
  (epc \in {"seek", "shift"} /\ fd1 # BadFd) =>
    /\ prevbrk <= curbrk
    /\ Tellable => /\ prevbrk = BreakOf(original, lineno - 1)
                   /\ curbrk = BreakOf(original, lineno)
                   /\ curbrk \in BreakOffsets(original)

ShiftInv ==
  epc = "shift" => fd1 \in Nat /\ fd2 \in Nat /\ prevbrk < fd2

LineDone == ReadBeforeWritten /\ LineGone

EditMost == EditKinds /\ ScanInv /\ LineFound /\ ShiftInv /\ LineDone

(* A file has fewer lines than FarLine speaks of: none is found.           *)
NearLine == epc \in {"seek", "shift"} => lineno <= INT_MAX

EditInv == EditMost /\ NearLine /\ FarLine

LEMMA ScanCount ==
  ASSUME original \in Seq(Byte), fd1 \in Nat, fd1 <= Len(original),
         NEW c, Excerpt(c, original, fd1), c # <<>>, linebrks = EndsTo(original, fd1),
         NEW i \in 0 .. Len(c)
  PROVE  Breaks(c, i) = EndsTo(original, fd1 + i)
<1> DEFINE E == Ending(original)
           S == {j \in 1 .. i : c[j] = NL}
           M == {j + fd1 : j \in S}
<1>1. c \in Seq(Byte) /\ Len(c) \in Nat /\ Len(original) \in Nat /\ fd1 + Len(c) <= Len(original)
  BY ByteSeq DEF Excerpt
<1>2. i \in Nat /\ i <= Len(c)
  BY <1>1
<1>3. IsFiniteSet(S) /\ S \subseteq Int
  <2>1. IsFiniteSet(1 .. i) /\ S \subseteq 1 .. i
    BY <1>2, FS_Interval
  <2> QED
    BY <2>1, FS_Subset
<1>4. IsFiniteSet(M) /\ Cardinality(M) = Cardinality(S)
  <2>1. PICK d \in Int : d = fd1
    OBVIOUS
  <2>2. M = {j + d : j \in S}
    BY <2>1
  <2> HIDE DEF S, M
  <2> QED
    BY <1>3, <2>2, ShiftedCount
<1>5. IsFiniteSet(UpTo(E, fd1)) /\ Cardinality(UpTo(E, fd1)) \in Nat
  <2>1. IsFiniteSet(1 .. fd1) /\ UpTo(E, fd1) \subseteq 1 .. fd1
    BY FS_Interval DEF UpTo
  <2> QED
    BY <2>1, FS_Subset, FS_CardinalityType
<1>6. UpTo(E, fd1 + i) = UpTo(E, fd1) \union M
  <2>1. \A j \in 1 .. i : c[j] = original[fd1 + j] /\ fd1 + j \in 1 .. Len(original)
    BY <1>1, <1>2 DEF Excerpt
  <2>2. ASSUME NEW k \in UpTo(E, fd1 + i), k \notin UpTo(E, fd1)
        PROVE  k \in M
    <3>1. k \in E /\ k \in Nat /\ k > fd1 /\ k <= fd1 + i
      BY <1>2, <2>2 DEF UpTo
    <3>2. k - fd1 \in 1 .. i /\ (k - fd1) + fd1 = k /\ fd1 + (k - fd1) = k
      BY <1>2, <3>1
    <3>3. c[k - fd1] = NL
      BY <2>1, <3>1, <3>2 DEF Ending
    <3> QED
      BY <3>2, <3>3
  <2>3. ASSUME NEW j \in S
        PROVE  j + fd1 \in UpTo(E, fd1 + i)
    <3>1. fd1 + j \in 1 .. Len(original) /\ original[fd1 + j] = NL /\ fd1 + j = j + fd1
      BY <1>2, <2>1
    <3>2. j + fd1 \in 1 .. fd1 + i
      BY <1>2
    <3> QED
      BY <3>1, <3>2 DEF UpTo, Ending
  <2>4. UpTo(E, fd1) \subseteq UpTo(E, fd1 + i)
    BY <1>2 DEF UpTo
  <2> QED
    BY <2>2, <2>3, <2>4
<1>7. UpTo(E, fd1) \cap M = {}
  BY <1>2 DEF UpTo
<1>8. Cardinality(UpTo(E, fd1 + i)) = Cardinality(UpTo(E, fd1)) + Cardinality(M)
  <2> HIDE DEF E, M
  <2>1. Cardinality(UpTo(E, fd1) \cap M) = 0
    BY <1>7, FS_EmptySet
  <2>2. Cardinality(UpTo(E, fd1) \union M) =
           Cardinality(UpTo(E, fd1)) + Cardinality(M) - Cardinality(UpTo(E, fd1) \cap M)
    BY <1>4, <1>5, FS_Union
  <2>3. Cardinality(M) \in Nat
    BY <1>4, FS_CardinalityType
  <2>4. Cardinality(UpTo(E, fd1 + i)) = Cardinality(UpTo(E, fd1) \union M)
    BY <1>6, Zenon
  <2> QED
    BY <1>5, <2>1, <2>2, <2>3, <2>4
<1> QED
  BY <1>4, <1>8 DEF Breaks, EndsTo

(* What the scan finds in a chunk. *)
LEMMA ScanFinds ==
  ASSUME original \in Seq(Byte), fd1 \in Nat, fd1 <= Len(original),
         NEW c, Excerpt(c, original, fd1), c # <<>>, linebrks = EndsTo(original, fd1),
         lineno \in Int, lineno > 0 => linebrks < lineno
  PROVE  /\ Stop(c) \in 1 .. Len(c)
         /\ Hits(c) = {} => Stop(c) = Len(c)
         /\ (Hits(c) = {} /\ lineno > 0) => EndsTo(original, fd1 + Len(c)) < lineno
         /\ (Hits(c) # {} /\ lineno > 0) =>
              /\ fd1 + Stop(c) \in Ending(original)
              /\ EndsTo(original, fd1 + Stop(c)) = lineno
<1>1. c \in Seq(Byte) /\ Len(c) \in Nat /\ Len(c) > 0
  BY ByteSeq DEF Excerpt
<1>2. \A i \in 0 .. Len(c) : Breaks(c, i) = EndsTo(original, fd1 + i)
  BY ScanCount
<1>3. \A i \in 1 .. Len(c) : i \in Hits(c) <=> EndsTo(original, fd1 + i) = lineno
  BY <1>1, <1>2 DEF Hits
<1>4. Hits(c) # {} => Min(Hits(c)) \in Hits(c) /\ \A k \in Hits(c) : Min(Hits(c)) <= k
  <2>1. Hits(c) \subseteq Nat
    BY DEF Hits
  <2> QED
    BY <2>1, LeastNumber
<1>5. Hits(c) \subseteq 1 .. Len(c)
  BY DEF Hits
<1>6. /\ Hits(c) = {} => Stop(c) = Len(c)
      /\ Hits(c) # {} => Stop(c) = Min(Hits(c))
  BY DEF Stop
<1>7. Stop(c) \in 1 .. Len(c)
  BY <1>1, <1>4, <1>5, <1>6
<1>8. ASSUME NEW m \in 1 .. Len(c), lineno > 0,
             \A i \in 1 .. m - 1 : EndsTo(original, fd1 + i) < lineno
      PROVE  /\ EndsTo(original, fd1 + m) > lineno => FALSE
             /\ EndsTo(original, fd1 + m) = lineno => fd1 + m \in Ending(original)
  <2>1. PICK a \in Nat : a + 1 = fd1 + m
    <3>1. fd1 + m - 1 \in Nat /\ (fd1 + m - 1) + 1 = fd1 + m
      OBVIOUS
    <3> QED
      BY <3>1, Zenon
  <2>2. EndsTo(original, a) < lineno
    <3>1. CASE m = 1
      <4>1. a = fd1
        BY <2>1, <3>1
      <4> QED
        BY <1>8, <4>1
    <3>2. CASE m # 1
      <4>1. m - 1 \in 1 .. m - 1 /\ fd1 + (m - 1) = a
        BY <2>1, <3>2
      <4> QED
        BY <1>8, <4>1
    <3> QED
      BY <3>1, <3>2
  <2>3. /\ EndsTo(original, a) \in Nat
        /\ a + 1 \in Ending(original) => EndsTo(original, a + 1) = EndsTo(original, a) + 1
        /\ a + 1 \notin Ending(original) => EndsTo(original, a + 1) = EndsTo(original, a)
    BY EndsToIs
  <2> QED
    BY <2>1, <2>2, <2>3
<1>9. ASSUME lineno > 0, NEW m \in 0 .. Len(c), \A i \in 1 .. m : i \notin Hits(c)
      PROVE  \A i \in 1 .. m : EndsTo(original, fd1 + i) < lineno
  <2> DEFINE T == {i \in 1 .. m : ~(EndsTo(original, fd1 + i) < lineno)}
  <2> SUFFICES ASSUME T # {}
               PROVE  FALSE
    OBVIOUS
  <2>1. PICK k \in T : \A j \in T : k <= j
    <3>1. T \subseteq Nat
      OBVIOUS
    <3> HIDE DEF T
    <3> QED
      BY <3>1, LeastNumber
  <2>2. k \in 1 .. m /\ k \in 1 .. Len(c) /\ ~(EndsTo(original, fd1 + k) < lineno)
    BY <1>1, <2>1
  <2>3. \A i \in 1 .. k - 1 : EndsTo(original, fd1 + i) < lineno
    <3> TAKE i \in 1 .. k - 1
    <3>1. i \in 1 .. m /\ ~(k <= i)
      BY <2>2
    <3>2. i \notin T
      BY <2>1, <3>1
    <3> QED
      BY <3>1, <3>2
  <2>4. EndsTo(original, fd1 + k) > lineno => FALSE
    BY <1>8, <1>9, <2>2, <2>3
  <2>5. EndsTo(original, fd1 + k) \in Nat
    <3>1. PICK b \in Nat : b = fd1 + k
      BY <2>2
    <3> QED
      BY <3>1, EndsToIs
  <2>6. EndsTo(original, fd1 + k) = lineno
    BY <2>2, <2>4, <2>5
  <2> QED
    BY <1>3, <1>9, <2>2, <2>6
<1>10. (Hits(c) = {} /\ lineno > 0) => EndsTo(original, fd1 + Len(c)) < lineno
  <2> HAVE Hits(c) = {} /\ lineno > 0
  <2>1. Len(c) \in 0 .. Len(c) /\ Len(c) \in 1 .. Len(c)
    BY <1>1
  <2> QED
    BY <1>9, <2>1
<1>11. (Hits(c) # {} /\ lineno > 0) => /\ fd1 + Stop(c) \in Ending(original)
                                       /\ EndsTo(original, fd1 + Stop(c)) = lineno
  <2> HAVE Hits(c) # {} /\ lineno > 0
  <2>1. Stop(c) \in Hits(c) /\ \A k \in Hits(c) : Stop(c) <= k
    BY <1>4, <1>6
  <2>2. PICK s \in 1 .. Len(c) : s = Stop(c)
    BY <1>7
  <2>3. s - 1 \in 0 .. Len(c) /\ \A i \in 1 .. s - 1 : i \notin Hits(c)
    BY <1>1, <2>1, <2>2
  <2>4. \A i \in 1 .. s - 1 : EndsTo(original, fd1 + i) < lineno
    BY <1>9, <2>3
  <2>5. EndsTo(original, fd1 + s) = lineno
    BY <1>3, <2>1, <2>2
  <2>6. fd1 + s \in Ending(original)
    BY <1>8, <2>4, <2>5
  <2> QED
    BY <2>2, <2>5, <2>6
<1> QED
  BY <1>6, <1>7, <1>10, <1>11

(* The break before the line, as the scan sees it. *)
LEMMA ScanPrev ==
  ASSUME original \in Seq(Byte), fd1 \in Nat, fd1 <= Len(original),
         NEW c, Excerpt(c, original, fd1), c # <<>>, linebrks = EndsTo(original, fd1),
         lineno \in Int, lineno > 0 => linebrks < lineno,
         prevbrk \in Nat, prevbrk # 0 => prevbrk < fd1
  PROVE  /\ NewPrev(c) \in Nat
         /\ NewPrev(c) # 0 => NewPrev(c) < fd1 + Stop(c)
         /\ (lineno < 1 /\ prevbrk = 0) => NewPrev(c) = 0
         /\ (Tellable /\ prevbrk = IF fd1 > BreakOf(original, lineno - 1)
                                   THEN BreakOf(original, lineno - 1) ELSE 0) =>
              NewPrev(c) = IF fd1 + Stop(c) > BreakOf(original, lineno - 1)
                           THEN BreakOf(original, lineno - 1) ELSE 0
<1> DEFINE at == {i \in 1 .. Stop(c) : Breaks(c, i) = lineno - 1 /\ fd1 + i # 1}
           pb == BreakOf(original, lineno - 1)
<1>1. c \in Seq(Byte) /\ Len(c) \in Nat /\ Len(original) \in Nat
  BY ByteSeq DEF Excerpt
<1>2. Stop(c) \in 1 .. Len(c)
  BY ScanFinds
<1>3. \A i \in 1 .. Stop(c) : Breaks(c, i) = EndsTo(original, fd1 + i)
  <2> TAKE i \in 1 .. Stop(c)
  <2>1. i \in 0 .. Len(c)
    BY <1>1, <1>2
  <2> QED
    BY <2>1, ScanCount
<1>4. NewPrev(c) = IF prevbrk # 0 \/ at = {} THEN prevbrk ELSE fd1 + Min(at) - 1
  BY DEF NewPrev
<1>5. at # {} => Min(at) \in at /\ \A k \in at : Min(at) <= k
  <2>1. at \subseteq Nat
    BY <1>1, <1>2
  <2> HIDE DEF at
  <2> QED
    BY <2>1, LeastNumber
<1>6. \A i \in at : i \in 1 .. Stop(c) /\ EndsTo(original, fd1 + i) = lineno - 1 /\ fd1 + i # 1
  BY <1>3
<1>7. CASE prevbrk # 0 \/ at = {}
  <2>1. NewPrev(c) = prevbrk
    BY <1>4, <1>7
  <2>2. ASSUME Tellable, prevbrk = IF fd1 > pb THEN pb ELSE 0
        PROVE  NewPrev(c) = IF fd1 + Stop(c) > pb THEN pb ELSE 0
    <3>1. PICK k \in Ending(original) : EndsTo(original, k) = lineno - 1 /\ pb = k - 1
      <4>1. PICK m \in Nat : m = lineno - 1 /\ m >= 1
        BY <2>2 DEF Tellable
      <4>2. HasBreak(original, m)
        BY <2>2, <4>1 DEF Tellable
      <4> QED
        BY <4>1, <4>2, BreakFound
    <3>2. pb > 0
      BY <2>2 DEF Tellable
    <3>3. k \in Nat
      BY <1>1 DEF Ending
    <3>4. CASE fd1 > pb
      <4>1. fd1 + Stop(c) > pb
        BY <1>1, <1>2, <3>1, <3>3, <3>4
      <4> QED
        BY <2>1, <2>2, <3>4, <4>1
    <3>5. CASE ~(fd1 > pb)
      <4>1. at = {} /\ prevbrk = 0
        BY <1>7, <2>2, <3>5
      <4>2. ~(fd1 + Stop(c) > pb)
        <5> SUFFICES ASSUME fd1 + Stop(c) > pb
                     PROVE  FALSE
          OBVIOUS
        <5>1. PICK i : i = k - fd1
          OBVIOUS
        <5>2. i \in 1 .. Stop(c) /\ fd1 + i = k /\ fd1 + i # 1
          BY <1>1, <1>2, <3>1, <3>2, <3>3, <3>5, <5>1
        <5>3. Breaks(c, i) = lineno - 1
          BY <1>3, <3>1, <5>2
        <5> QED
          BY <4>1, <5>2, <5>3
      <4> QED
        BY <2>1, <4>1, <4>2
    <3> QED
      BY <3>4, <3>5
  <2> QED
    BY <1>1, <1>2, <2>1, <2>2
<1>8. CASE prevbrk = 0 /\ at # {}
  <2> DEFINE i == Min(at)
  <2>1. NewPrev(c) = fd1 + i - 1
    BY <1>4, <1>8
  <2>2. /\ i \in 1 .. Stop(c) /\ EndsTo(original, fd1 + i) = lineno - 1 /\ fd1 + i # 1
        /\ \A k \in at : i <= k
    BY <1>5, <1>6, <1>8
  <2> HIDE DEF i
  <2>3. NewPrev(c) \in Nat /\ NewPrev(c) < fd1 + Stop(c)
    BY <1>1, <1>2, <2>1, <2>2
  <2>4. lineno >= 1
    <3>1. PICK b \in Nat : b = fd1 + i
      BY <1>1, <1>2, <2>2
    <3>2. EndsTo(original, b) \in Nat
      BY EndsToIs
    <3> QED
      BY <2>2, <3>1, <3>2
  <2>5. ASSUME Tellable, prevbrk = IF fd1 > pb THEN pb ELSE 0
        PROVE  NewPrev(c) = IF fd1 + Stop(c) > pb THEN pb ELSE 0
    <3>1. PICK k \in Ending(original) : EndsTo(original, k) = lineno - 1 /\ pb = k - 1
      <4>1. PICK m \in Nat : m = lineno - 1 /\ m >= 1
        BY <2>5 DEF Tellable
      <4>2. HasBreak(original, m)
        BY <2>5, <4>1 DEF Tellable
      <4> QED
        BY <4>1, <4>2, BreakFound
    <3>2. pb > 0
      BY <2>5 DEF Tellable
    <3>3. k \in Nat
      BY <1>1 DEF Ending
    <3>4. ~(fd1 > pb)
      BY <1>8, <2>5, <3>2
    <3>5. k <= fd1 + i
      <4> SUFFICES ASSUME fd1 + i < k
                   PROVE  FALSE
        BY <1>1, <1>2, <2>2, <3>3
      <4>1. PICK a \in Nat, b \in Nat : a = fd1 + i /\ b = k - 1 /\ a <= b
        <5>1. fd1 + i \in Nat /\ k - 1 \in Nat /\ fd1 + i <= k - 1
          BY <1>1, <1>2, <2>2, <3>3
        <5> QED
          BY <5>1, Zenon
      <4>2. EndsTo(original, a) <= EndsTo(original, b)
        BY <4>1, EndsToGrows
      <4>3. EndsTo(original, b + 1) = EndsTo(original, b) + 1 /\ EndsTo(original, b) \in Nat
        <5>1. b + 1 = k
          BY <3>3, <4>1
        <5> QED
          BY <5>1, EndsToIs
      <4>4. EndsTo(original, b + 1) = lineno - 1
        BY <3>1, <3>3, <4>1
      <4>5. EndsTo(original, a) = lineno - 1
        BY <2>2, <4>1
      <4> QED
        BY <4>2, <4>3, <4>4, <4>5
    <3>6. fd1 + i = k
      <4>1. PICK j : j = k - fd1
        OBVIOUS
      <4>2. j \in 1 .. Stop(c) /\ fd1 + j = k
        BY <1>1, <1>2, <2>2, <3>1, <3>3, <3>4, <3>5, <4>1
      <4>3. Breaks(c, j) = lineno - 1 /\ fd1 + j # 1
        BY <1>3, <3>1, <3>2, <3>3, <4>2
      <4>4. i <= j
        BY <2>2, <4>2, <4>3
      <4> QED
        BY <1>1, <1>2, <2>2, <3>3, <3>5, <4>2, <4>4
    <3> QED
      BY <1>1, <1>2, <2>1, <2>2, <3>1, <3>3, <3>6
  <2> QED
    BY <1>8, <2>3, <2>4, <2>5
<1> QED
  BY <1>7, <1>8

LEMMA ScanKeeps ==
  ASSUME FileKinds, EditMost, epc = "locate", fd1 # BadFd, Scan,
         UNCHANGED <<files, edited, lineno, fd2, original, spoiled>>
  PROVE  EditMost'
<1>1. PICK c \in Chunks(file, fd1) \ {<<>>} :
        /\ prevbrk' = NewPrev(c) /\ linebrks' = Breaks(c, Stop(c))
        /\ IF Hits(c) # {}
           THEN curbrk' = fd1 + Stop(c) - 1 /\ epc' = "seek"
           ELSE UNCHANGED <<curbrk, epc>>
        /\ fd1' = fd1 + Len(c) /\ outcome' = outcome
  BY DEF Scan
<1>2. /\ edited \in Names /\ lineno \in Nat /\ original \in Seq(Byte) /\ Len(original) <= INT_MAX /\ fd1 \in Nat
      /\ fd2 \in Nat \union {BadFd} /\ prevbrk \in Nat /\ curbrk \in Nat /\ linebrks \in Nat
      /\ file = original /\ ~spoiled
  BY DEF EditMost, EditKinds
<1>3. /\ lineno > 0 => linebrks < lineno
      /\ lineno < 1 => prevbrk = 0
      /\ fd1 <= Len(original) /\ linebrks = EndsTo(original, fd1)
      /\ prevbrk # 0 => prevbrk < fd1
      /\ Tellable => prevbrk = IF fd1 > BreakOf(original, lineno - 1)
                               THEN BreakOf(original, lineno - 1) ELSE 0
  BY DEF EditMost, ScanInv
<1>4. Excerpt(c, original, fd1) /\ c # <<>>
  <2>1. PICK f \in Seq(Byte), off \in Nat : f = original /\ off = fd1
    BY <1>2
  <2>2. c \in Chunks(f, off) /\ c # <<>>
    BY <1>2, <2>1
  <2> QED
    BY <2>1, <2>2, ChunkIs
<1>5. /\ c \in Seq(Byte) /\ Len(c) \in Nat /\ Len(original) \in Nat
      /\ fd1 + Len(c) <= Len(original)
  BY <1>2, <1>4, ByteSeq DEF Excerpt
<1>6. /\ Stop(c) \in 1 .. Len(c)
      /\ Hits(c) = {} => Stop(c) = Len(c)
      /\ (Hits(c) = {} /\ lineno > 0) => EndsTo(original, fd1 + Len(c)) < lineno
      /\ (Hits(c) # {} /\ lineno > 0) =>
           /\ fd1 + Stop(c) \in Ending(original)
           /\ EndsTo(original, fd1 + Stop(c)) = lineno
  BY <1>2, <1>3, <1>4, ScanFinds
<1>7. /\ NewPrev(c) \in Nat
      /\ NewPrev(c) # 0 => NewPrev(c) < fd1 + Stop(c)
      /\ (lineno < 1 /\ prevbrk = 0) => NewPrev(c) = 0
      /\ Tellable => NewPrev(c) = IF fd1 + Stop(c) > BreakOf(original, lineno - 1)
                                  THEN BreakOf(original, lineno - 1) ELSE 0
  BY <1>2, <1>3, <1>4, ScanPrev
<1>8. linebrks' = EndsTo(original, fd1 + Stop(c)) /\ linebrks' \in Nat
  <2>1. Stop(c) \in 0 .. Len(c)
    BY <1>6
  <2>2. Breaks(c, Stop(c)) = EndsTo(original, fd1 + Stop(c))
    BY <1>2, <1>3, <1>4, <2>1, ScanCount
  <2>3. PICK k \in Nat : k = fd1 + Stop(c)
    BY <1>2, <1>6
  <2> QED
    BY <1>1, <2>2, <2>3, EndsToIs
<1>9. /\ file' = file /\ original' = original /\ lineno' = lineno /\ edited' = edited
      /\ fd2' = fd2 /\ spoiled' = spoiled /\ (Tellable' <=> Tellable)
  BY DEF file, Tellable
<1>10. CASE Hits(c) = {}
  <2>1. epc' = "locate" /\ curbrk' = curbrk /\ fd1' = fd1 + Stop(c) /\ fd1' \in Nat
        /\ fd1' <= Len(original) /\ fd1' # BadFd
    BY <1>1, <1>2, <1>5, <1>6, <1>10 DEF BadFd
  <2>2. EditKinds'
    BY <1>1, <1>2, <1>7, <1>8, <1>9, <2>1 DEF EditKinds
  <2>3. lineno > 0 => linebrks' < lineno
    BY <1>6, <1>8, <1>10
  <2>4. linebrks' = EndsTo(original, fd1')
    BY <1>8, <2>1
  <2>5. /\ lineno < 1 => prevbrk' = 0
        /\ prevbrk' # 0 => prevbrk' < fd1'
        /\ Tellable => prevbrk' = IF fd1' > BreakOf(original, lineno - 1)
                                  THEN BreakOf(original, lineno - 1) ELSE 0
    BY <1>1, <1>3, <1>7, <2>1
  <2>6. ScanInv'
    BY <1>9, <2>1, <2>3, <2>4, <2>5 DEF ScanInv
  <2>7. LineFound' /\ ShiftInv' /\ LineDone'
    BY <2>1 DEF LineFound, ShiftInv, LineDone, LineGone, ReadBeforeWritten
  <2> QED
    BY <2>2, <2>6, <2>7 DEF EditMost
<1>11. CASE Hits(c) # {}
  <2>1. epc' = "seek" /\ curbrk' = fd1 + Stop(c) - 1 /\ fd1' \in Nat /\ curbrk' \in Nat
    BY <1>1, <1>2, <1>5, <1>6, <1>11
  <2>2. EditKinds'
    BY <1>1, <1>2, <1>7, <1>8, <1>9, <2>1 DEF EditKinds
  <2>3. prevbrk' <= curbrk'
    BY <1>1, <1>2, <1>5, <1>6, <1>7, <2>1
  <2>4. ASSUME Tellable
        PROVE  /\ prevbrk' = BreakOf(original, lineno - 1)
               /\ curbrk' = BreakOf(original, lineno)
               /\ curbrk' \in BreakOffsets(original)
    <3>1. PICK m, k : m \in Nat /\ m = lineno /\ m > 1 /\ k = fd1 + Stop(c)
      BY <1>2, <2>4 DEF Tellable
    <3>2. k \in Ending(original) /\ EndsTo(original, k) = m /\ k \in Nat /\ curbrk' = k - 1
      BY <1>2, <1>5, <1>6, <1>11, <2>1, <3>1
    <3>3. BreakOf(original, m) = k - 1 /\ k - 1 \in BreakOffsets(original)
      BY <1>2, <3>1, <3>2, BreakIs
    <3>4. PICK q \in Nat : q = m - 1 /\ q >= 1
      BY <3>1
    <3>5. PICK p \in Ending(original) : EndsTo(original, p) = q /\ BreakOf(original, q) = p - 1
      <4>1. HasBreak(original, q)
        BY <2>4, <3>1, <3>4 DEF Tellable
      <4> QED
        BY <1>2, <3>4, <4>1, BreakFound
    <3>6. p \in Nat
      BY <1>5, <3>5 DEF Ending
    <3>7. p < k
      <4>1. k <= p => EndsTo(original, k) <= EndsTo(original, p)
        BY <3>2, <3>6, EndsToGrows
      <4>2. m \in Nat /\ EndsTo(original, k) = m /\ EndsTo(original, p) = m - 1
        BY <3>1, <3>2, <3>4, <3>5
      <4>3. ~(k <= p)
        BY <4>1, <4>2
      <4> QED
        BY <3>2, <3>6, <4>3
    <3>8. fd1 + Stop(c) > BreakOf(original, lineno - 1)
      BY <3>1, <3>2, <3>4, <3>5, <3>6, <3>7
    <3> QED
      BY <1>1, <1>7, <2>4, <3>1, <3>2, <3>3, <3>8
  <2>5. LineFound'
    BY <1>9, <2>3, <2>4 DEF LineFound
  <2>6. ScanInv' /\ ShiftInv' /\ LineDone'
    BY <2>1 DEF ScanInv, ShiftInv, LineDone, LineGone, ReadBeforeWritten
  <2> QED
    BY <2>2, <2>5, <2>6 DEF EditMost
<1> QED
  BY <1>10, <1>11

LEMMA ScanEndsKeeps ==
  ASSUME FileKinds, EditMost, epc = "locate", ScanEnds,
         UNCHANGED <<files, edited, lineno, fd2, original, spoiled>>
  PROVE  EditMost'
<1>1. /\ UNCHANGED <<fd1, linebrks, prevbrk, curbrk>>
      /\ IF linebrks < lineno THEN epc' = "exit" /\ outcome' = "no line"
         ELSE epc' = "seek" /\ outcome' = outcome
  BY DEF ScanEnds, Ends
<1>2. /\ edited \in Names /\ lineno \in Nat /\ original \in Seq(Byte) /\ Len(original) <= INT_MAX
      /\ prevbrk \in Nat /\ curbrk \in Nat /\ linebrks \in Nat
      /\ fd1 \in Nat \union {BadFd} /\ fd2 \in Nat \union {BadFd}
      /\ file = original /\ ~spoiled
  BY DEF EditMost, EditKinds
<1>3. /\ file' = file /\ original' = original /\ lineno' = lineno /\ edited' = edited
      /\ fd2' = fd2 /\ fd1' = fd1 /\ linebrks' = linebrks /\ prevbrk' = prevbrk
      /\ curbrk' = curbrk /\ ~spoiled'
  BY <1>1, <1>2 DEF file
<1>9. Tellable' <=> Tellable
  BY <1>3 DEF Tellable
<1>4. epc' \in {"exit", "seek"}
  BY <1>1
<1>5. EditKinds'
  BY <1>2, <1>3, <1>4 DEF EditKinds
<1>6. ScanInv' /\ ShiftInv'
  BY <1>4 DEF ScanInv, ShiftInv
<1>7. LineFound'
  <2>1. CASE linebrks < lineno
    BY <1>1, <2>1 DEF LineFound
  <2>2. CASE ~(linebrks < lineno)
    <3>1. lineno < 1 /\ prevbrk = 0
      BY <1>2, <2>2 DEF EditMost, ScanInv
    <3>2. ~Tellable
      BY <1>2, <3>1 DEF Tellable
    <3>3. prevbrk' <= curbrk' /\ ~Tellable'
      BY <1>2, <1>3, <1>9, <3>1, <3>2
    <3> QED
      BY <3>3 DEF LineFound
  <2> QED
    BY <2>1, <2>2
<1>8. LineDone'
  <2>1. CASE linebrks < lineno
    <3>1. epc' = "exit" /\ outcome' = "no line" /\ file' = original'
      BY <1>1, <1>2, <1>3, <2>1
    <3> QED
      BY <3>1 DEF LineDone, LineGone, ReadBeforeWritten
  <2>2. CASE ~(linebrks < lineno)
    BY <1>1, <2>2 DEF LineDone, LineGone, ReadBeforeWritten
  <2> QED
    BY <2>1, <2>2
<1> QED
  BY <1>5, <1>6, <1>7, <1>8 DEF EditMost

LEMMA SeekKeeps ==
  ASSUME FileKinds, EditMost, Seek
  PROVE  FileKinds' /\ EditMost'
<1>1. /\ epc = "seek"
      /\ UNCHANGED <<files, edited, lineno, linebrks, prevbrk, curbrk, original, spoiled>>
      /\ IF fd1 # BadFd /\ fd2 # BadFd
         THEN fd1' = curbrk + 1 /\ fd2' = prevbrk + 1 /\ epc' = "shift"
         ELSE epc' = "exit" /\ outcome' = "failed" /\ UNCHANGED <<fd1, fd2>>
  BY DEF Seek, Behind, Ends
<1>2. /\ edited \in Names /\ lineno \in Nat /\ original \in Seq(Byte) /\ Len(original) <= INT_MAX
      /\ prevbrk \in Nat /\ curbrk \in Nat /\ linebrks \in Nat
      /\ fd1 \in Nat \union {BadFd} /\ fd2 \in Nat \union {BadFd}
      /\ file = original /\ ~spoiled
  BY <1>1 DEF EditMost, EditKinds
<1>3. /\ file' = original /\ original' = original /\ lineno' = lineno /\ edited' = edited
      /\ linebrks' = linebrks /\ prevbrk' = prevbrk /\ curbrk' = curbrk /\ ~spoiled'
      /\ FileKinds'
  BY <1>1, <1>2 DEF file, FileKinds
<1>4. Tellable' <=> Tellable
  BY <1>3 DEF Tellable
<1>5. CASE fd1 # BadFd /\ fd2 # BadFd
  <2>1. /\ fd1' = curbrk + 1 /\ fd2' = prevbrk + 1 /\ epc' = "shift"
        /\ fd1' \in Nat /\ fd2' \in Nat
    BY <1>1, <1>2, <1>5
  <2>2. /\ prevbrk <= curbrk
        /\ Tellable => /\ prevbrk = BreakOf(original, lineno - 1)
                       /\ curbrk = BreakOf(original, lineno)
                       /\ curbrk \in BreakOffsets(original)
    BY <1>1, <1>5 DEF EditMost, LineFound
  <2>3. EditKinds'
    BY <1>2, <1>3, <2>1 DEF EditKinds
  <2>4. ScanInv' /\ ShiftInv'
    BY <1>2, <1>3, <2>1 DEF ScanInv, ShiftInv
  <2>5. LineFound'
    BY <1>3, <1>4, <2>2 DEF LineFound
  <2>6. ReadBeforeWritten'
    <3>1. Len(original) \in Nat
      BY <1>2, ByteSeq
    <3>2. fd2' <= fd1' /\ fd1' - fd2' = curbrk - prevbrk
      BY <1>2, <2>1, <2>2
    <3>3. \A k \in 1 .. Least(fd2', Len(original)) : k <= prevbrk + 1
      BY <1>2, <2>1, <3>1 DEF Least
    <3> QED
      BY <1>3, <3>2, <3>3 DEF ReadBeforeWritten
  <2>7. LineDone'
    BY <2>1, <2>6 DEF LineDone, LineGone
  <2> QED
    BY <1>3, <2>3, <2>4, <2>5, <2>7 DEF EditMost
<1>6. CASE ~(fd1 # BadFd /\ fd2 # BadFd)
  <2>1. epc' = "exit" /\ outcome' = "failed" /\ fd1' = fd1 /\ fd2' = fd2
    BY <1>1, <1>6
  <2>2. EditKinds'
    BY <1>2, <1>3, <2>1 DEF EditKinds
  <2>3. ScanInv' /\ ShiftInv' /\ LineFound'
    BY <2>1 DEF ScanInv, ShiftInv, LineFound
  <2>4. LineDone'
    BY <2>1 DEF LineDone, LineGone, ReadBeforeWritten
  <2> QED
    BY <1>3, <2>2, <2>3, <2>4 DEF EditMost
<1> QED
  BY <1>5, <1>6

LEMMA ShiftKeeps ==
  ASSUME FileKinds, EditMost, Shift
  PROVE  FileKinds' /\ EditMost'
<1>1. /\ epc = "shift"
      /\ UNCHANGED <<epc, edited, lineno, linebrks, prevbrk, curbrk, outcome, original>>
  BY DEF Shift
<1>2. PICK c \in Chunks(file, fd1) \ {<<>>} : \E m \in 1 .. Len(c) :
        /\ files' = [files EXCEPT ![edited] = WriteAt(file, fd2, SubSeq(c, 1, m))]
        /\ fd1' = fd1 + Len(c) /\ fd2' = fd2 + m
        /\ spoiled' = (spoiled \/ m < Len(c))
  BY DEF Shift
<1>3. PICK m \in 1 .. Len(c) :
        /\ files' = [files EXCEPT ![edited] = WriteAt(file, fd2, SubSeq(c, 1, m))]
        /\ fd1' = fd1 + Len(c) /\ fd2' = fd2 + m
        /\ spoiled' = (spoiled \/ m < Len(c))
  BY <1>2
<1>4. /\ edited \in Names /\ lineno \in Nat /\ original \in Seq(Byte) /\ Len(original) <= INT_MAX
      /\ prevbrk \in Nat /\ curbrk \in Nat /\ linebrks \in Nat
      /\ fd1 \in Nat /\ fd2 \in Nat /\ prevbrk < fd2
  BY <1>1 DEF EditMost, EditKinds, ShiftInv
<1>5. files \in [Names -> Seq(Byte)] /\ file \in Seq(Byte)
  BY <1>4 DEF FileKinds, file
<1>6. Excerpt(c, file, fd1) /\ c # <<>>
  <2>1. PICK f \in Seq(Byte), off \in Nat : f = file /\ off = fd1
    BY <1>4, <1>5
  <2>2. c \in Chunks(f, off) /\ c # <<>>
    BY <1>2, <2>1
  <2> QED
    BY <2>1, <2>2, ChunkIs
<1>7. /\ c \in Seq(Byte) /\ Len(c) \in Nat /\ Len(file) \in Nat /\ m \in Nat /\ m >= 1 /\ m <= Len(c)
      /\ fd1 + Len(c) <= Len(file)
      /\ \A k \in 1 .. Len(c) : c[k] = file[fd1 + k]
  BY <1>3, <1>5, <1>6, ByteSeq DEF Excerpt
<1>8. PICK d : d = SubSeq(c, 1, m)
  OBVIOUS
<1>9. d \in Seq(Byte) /\ Len(d) = m /\ d # <<>> /\ \A k \in 1 .. m : d[k] = c[k]
  <2>1. PICK a \in Nat, b \in Int : a = 0 /\ b = m
    BY <1>7
  <2>2. Excerpt(SubSeq(c, a + 1, b), c, a) /\ Len(SubSeq(c, a + 1, b)) = IF a < b THEN b - a ELSE 0
    BY <1>7, <2>1, SubExcerpt
  <2>3. d = SubSeq(c, a + 1, b)
    BY <1>8, <2>1
  <2>4. Excerpt(d, c, 0) /\ Len(d) = m
    BY <1>7, <2>1, <2>2, <2>3
  <2>5. d \in Seq(Byte) /\ \A k \in 1 .. m : d[k] = c[0 + k]
    BY <2>4 DEF Excerpt
  <2> QED
    BY <1>7, <2>4, <2>5, ByteSeq
<1>10. /\ edited' = edited /\ original' = original /\ lineno' = lineno /\ prevbrk' = prevbrk
       /\ curbrk' = curbrk /\ linebrks' = linebrks /\ epc' = "shift"
       /\ file' = WriteAt(file, fd2, d) /\ FileKinds'
  <2>1. WriteAt(file, fd2, d) \in Seq(Byte)
    BY <1>4, <1>5, <1>9, WrittenIs
  <2>2. files' = [files EXCEPT ![edited] = WriteAt(file, fd2, d)]
    BY <1>3, <1>8
  <2>3. files' \in [Names -> Seq(Byte)] /\ files'[edited] = WriteAt(file, fd2, d)
    BY <1>4, <1>5, <2>1, <2>2
  <2> QED
    BY <1>1, <2>3 DEF FileKinds, file
<1>11. fd2 <= fd1 /\ Len(file) = Len(original) /\ \A k \in fd1 + 1 .. Len(file) : file[k] = original[k]
  BY <1>1 DEF EditMost, LineDone, LineGone, ReadBeforeWritten
<1>12. /\ Len(file') = Len(file)
       /\ \A k \in 1 .. Len(file) :
            file'[k] = IF fd2 < k /\ k <= fd2 + m THEN d[k - fd2] ELSE file[k]
  <2>1. PICK f \in Seq(Byte), off \in Nat : f = file /\ off = fd2
    BY <1>4, <1>5
  <2>2. /\ Len(WriteAt(f, off, d)) =
             IF d # <<>> /\ Len(f) < off + Len(d) THEN off + Len(d) ELSE Len(f)
        /\ \A k \in 1 .. Len(WriteAt(f, off, d)) :
             WriteAt(f, off, d)[k] =
               IF off < k /\ k <= off + Len(d) THEN d[k - off]
               ELSE IF k <= Len(f) THEN f[k] ELSE NUL
    BY <1>9, WrittenIs
  <2>3. file' = WriteAt(f, off, d) /\ ~(Len(f) < off + Len(d))
    BY <1>4, <1>7, <1>9, <1>10, <1>11, <2>1
  <2>4. Len(file') = Len(f)
    BY <2>2, <2>3
  <2>5. \A k \in 1 .. Len(f) :
            file'[k] = IF off < k /\ k <= off + Len(d) THEN d[k - off] ELSE f[k]
    BY <2>2, <2>3, <2>4
  <2> QED
    BY <1>9, <2>1, <2>4, <2>5
<1>13. fd1' \in Nat /\ fd2' \in Nat /\ prevbrk < fd2' /\ fd2' <= fd1'
  BY <1>3, <1>4, <1>7, <1>11
<1>15. \A k \in fd1' + 1 .. Len(file') : file'[k] = original[k]
  <2> TAKE k \in fd1' + 1 .. Len(file')
  <2>1. k \in fd1 + 1 .. Len(file) /\ k \in 1 .. Len(file) /\ ~(k <= fd2 + m)
    BY <1>3, <1>4, <1>7, <1>11, <1>12
  <2> QED
    BY <1>11, <1>12, <2>1
<1>16. ASSUME ~spoiled'
       PROVE  /\ fd1' - fd2' = curbrk - prevbrk
              /\ \A k \in 1 .. Least(fd2', Len(file')) :
                   file'[k] = IF k <= prevbrk + 1 THEN original[k]
                              ELSE original[k + curbrk - prevbrk]
  <2>1. ~spoiled /\ m = Len(c)
    <3>1. ~spoiled /\ ~(m < Len(c))
      BY <1>3, <1>16, Zenon
    <3> QED
      BY <1>7, <3>1
  <2>2. /\ fd1 - fd2 = curbrk - prevbrk
        /\ \A k \in 1 .. Least(fd2, Len(file)) :
             file[k] = IF k <= prevbrk + 1 THEN original[k]
                       ELSE original[k + curbrk - prevbrk]
    BY <1>1, <2>1 DEF EditMost, LineDone, LineGone, ReadBeforeWritten
  <2>3. fd1' - fd2' = curbrk - prevbrk
    <3>1. fd1' = fd1 + Len(c) /\ fd2' = fd2 + Len(c) /\ Len(c) \in Nat
      BY <1>3, <1>7, <2>1
    <3>2. fd1 - fd2 = curbrk - prevbrk /\ fd1 \in Nat /\ fd2 \in Nat
      BY <1>4, <2>2
    <3> QED
      BY <3>1, <3>2
  <2>4. ASSUME NEW k \in 1 .. Least(fd2', Len(file'))
        PROVE  file'[k] = IF k <= prevbrk + 1 THEN original[k]
                          ELSE original[k + curbrk - prevbrk]
    <3>1. k \in Nat /\ k >= 1 /\ k <= fd2 + m /\ k <= Len(file)
      BY <1>3, <1>4, <1>7, <1>12, <2>4 DEF Least
    <3>2. CASE k <= fd2
      <4>1. k \in 1 .. Least(fd2, Len(file)) /\ k \in 1 .. Len(file) /\ ~(fd2 < k)
        BY <1>4, <1>7, <3>1, <3>2 DEF Least
      <4>2. file'[k] = file[k]
        BY <1>12, <4>1
      <4> QED
        BY <2>2, <4>1, <4>2
    <3>3. CASE k > fd2
      <4>1. PICK j \in Nat : j = k - fd2 /\ j >= 1 /\ j <= m
        BY <1>4, <1>7, <3>1, <3>3
      <4>2. file'[k] = d[j]
        BY <1>4, <1>12, <3>1, <3>3, <4>1
      <4>3. d[j] = c[j] /\ c[j] = file[fd1 + j]
        BY <1>7, <1>9, <4>1
      <4>4. fd1 + j \in fd1 + 1 .. Len(file) /\ fd1 + j = k + curbrk - prevbrk
        BY <1>4, <1>7, <2>2, <3>1, <4>1
      <4>5. file[fd1 + j] = original[fd1 + j]
        BY <1>11, <4>4
      <4>6. ~(k <= prevbrk + 1)
        BY <1>4, <3>1, <3>3
      <4> QED
        BY <4>2, <4>3, <4>4, <4>5, <4>6
    <3> QED
      BY <1>4, <3>1, <3>2, <3>3
  <2> QED
    BY <2>3, <2>4
<1>17. ReadBeforeWritten'
  BY <1>10, <1>11, <1>12, <1>13, <1>15, <1>16 DEF ReadBeforeWritten
<1>18. LineDone'
  BY <1>10, <1>17 DEF LineDone, LineGone
<1>19. EditKinds'
  BY <1>4, <1>10, <1>13 DEF EditKinds
<1>20. ScanInv' /\ ShiftInv'
  BY <1>10, <1>13 DEF ScanInv, ShiftInv
<1>21. LineFound'
  <2>1. Tellable' <=> Tellable
    BY <1>10 DEF Tellable
  <2>2. fd1 # BadFd
    BY <1>4 DEF BadFd
  <2>3. /\ prevbrk <= curbrk
        /\ Tellable => /\ prevbrk = BreakOf(original, lineno - 1)
                       /\ curbrk = BreakOf(original, lineno)
                       /\ curbrk \in BreakOffsets(original)
    BY <1>1, <2>2 DEF EditMost, LineFound
  <2> QED
    BY <1>10, <2>1, <2>3 DEF LineFound
<1> QED
  BY <1>10, <1>18, <1>19, <1>20, <1>21 DEF EditMost

LEMMA ShiftFailsKeeps ==
  ASSUME FileKinds, EditMost, ShiftFails
  PROVE  FileKinds' /\ EditMost'
<1>1. /\ epc = "shift" /\ epc' = "exit" /\ outcome' = "failed"
      /\ UNCHANGED <<files, edited, lineno, fd2, linebrks, prevbrk, curbrk, original, spoiled>>
      /\ \E c \in Chunks(file, fd1) : fd1' \in {fd1, fd1 + Len(c)}
  BY DEF ShiftFails, Ends
<1>2. /\ edited \in Names /\ original \in Seq(Byte) /\ fd1 \in Nat
  BY <1>1 DEF EditMost, EditKinds, ShiftInv
<1>3. FileKinds'
  BY <1>1 DEF FileKinds
<1>4. fd1' \in Nat
  <2>1. PICK c \in Chunks(file, fd1) : fd1' \in {fd1, fd1 + Len(c)}
    BY <1>1
  <2>2. PICK f \in Seq(Byte), off \in Nat : f = file /\ off = fd1
    BY <1>2 DEF FileKinds, file
  <2>3. c \in Chunks(f, off)
    BY <2>2
  <2>4. Excerpt(c, f, off)
    BY <2>3, ChunkIs
  <2>5. Len(c) \in Nat
    BY <2>4, ByteSeq DEF Excerpt
  <2> QED
    BY <1>2, <2>1, <2>5
<1>5. EditKinds'
  BY <1>1, <1>4 DEF EditMost, EditKinds
<1>6. ScanInv' /\ ShiftInv' /\ LineFound'
  BY <1>1 DEF ScanInv, ShiftInv, LineFound
<1>7. LineDone'
  BY <1>1 DEF LineDone, LineGone, ReadBeforeWritten
<1> QED
  BY <1>3, <1>5, <1>6, <1>7 DEF EditMost

(* The file without the line, byte by byte. *)
LEMMA WithoutIs ==
  ASSUME NEW f \in Seq(Byte), NEW a \in Nat, NEW b \in Nat, a <= b, b < Len(f)
  PROVE  /\ Without(f, a, b) \in Seq(Byte) /\ Len(Without(f, a, b)) = Len(f) - (b - a)
         /\ \A k \in 1 .. Len(f) - (b - a) :
              Without(f, a, b)[k] = IF k <= a + 1 THEN f[k] ELSE f[k + b - a]
<1> DEFINE s == SubSeq(f, 1, a + 1)
           t == SubSeq(f, b + 2, Len(f))
<1>1. Len(f) \in Nat
  BY ByteSeq
<1>2. s \in Seq(Byte) /\ Len(s) = a + 1 /\ \A k \in 1 .. a + 1 : s[k] = f[k]
  <2>1. PICK z \in Nat, y \in Int : z = 0 /\ y = a + 1 /\ y <= Len(f)
    BY <1>1
  <2>2. Excerpt(SubSeq(f, z + 1, y), f, z) /\ Len(SubSeq(f, z + 1, y)) = IF z < y THEN y - z ELSE 0
    BY <2>1, SubExcerpt
  <2>3. s = SubSeq(f, z + 1, y)
    BY <2>1
  <2>4. Excerpt(s, f, 0) /\ Len(s) = a + 1
    BY <2>1, <2>2, <2>3
  <2> QED
    BY <2>4 DEF Excerpt
<1>3. t \in Seq(Byte) /\ Len(t) = Len(f) - b - 1 /\ \A k \in 1 .. Len(f) - b - 1 : t[k] = f[b + 1 + k]
  <2>1. PICK z \in Nat, y \in Int : z = b + 1 /\ y = Len(f)
    BY <1>1
  <2>2. Excerpt(SubSeq(f, z + 1, y), f, z) /\ Len(SubSeq(f, z + 1, y)) = IF z < y THEN y - z ELSE 0
    BY <2>1, SubExcerpt
  <2>3. t = SubSeq(f, z + 1, y)
    BY <2>1
  <2>4. Excerpt(t, f, b + 1) /\ Len(t) = Len(f) - b - 1
    BY <1>1, <2>1, <2>2, <2>3
  <2> QED
    BY <2>4 DEF Excerpt
<1> HIDE DEF s, t
<1>4. /\ s \o t \in Seq(Byte) /\ Len(s \o t) = Len(s) + Len(t)
      /\ \A k \in 1 .. Len(s) + Len(t) : (s \o t)[k] = IF k <= Len(s) THEN s[k] ELSE t[k - Len(s)]
  BY <1>2, <1>3, ConcatProperties
<1>5. Len(s) + Len(t) = Len(f) - (b - a)
  BY <1>1, <1>2, <1>3
<1>6. ASSUME NEW k \in 1 .. Len(f) - (b - a)
      PROVE  (s \o t)[k] = IF k <= a + 1 THEN f[k] ELSE f[k + b - a]
  <2>1. (s \o t)[k] = IF k <= a + 1 THEN s[k] ELSE t[k - (a + 1)]
    BY <1>2, <1>4, <1>5
  <2>2. CASE k <= a + 1
    BY <1>1, <1>2, <2>1, <2>2
  <2>3. CASE ~(k <= a + 1)
    <3>1. PICK j \in Nat : j = k - (a + 1) /\ j >= 1 /\ j <= Len(f) - b - 1
      BY <1>1, <2>3
    <3>2. t[j] = f[b + 1 + j] /\ b + 1 + j = k + b - a
      BY <1>1, <1>3, <3>1
    <3> QED
      BY <2>1, <2>3, <3>1, <3>2
  <2> QED
    BY <2>2, <2>3
<1> QED
  BY <1>4, <1>5, <1>6 DEF Without, s, t

LEMMA CutKeeps ==
  ASSUME FileKinds, EditMost, Cut
  PROVE  FileKinds' /\ EditMost'
<1>1. /\ epc = "shift" /\ fd1 >= Len(file) /\ fd1' = Len(file)
      /\ files' = [files EXCEPT ![edited] = Truncated(file, Len(file) - (curbrk - prevbrk))]
      /\ epc' = "exit" /\ outcome' = "done"
      /\ UNCHANGED <<edited, lineno, fd2, linebrks, prevbrk, curbrk, original, spoiled>>
  BY DEF Cut, Ends
<1>2. /\ edited \in Names /\ lineno \in Nat /\ original \in Seq(Byte) /\ Len(original) <= INT_MAX
      /\ prevbrk \in Nat /\ curbrk \in Nat /\ linebrks \in Nat
      /\ fd1 \in Nat /\ fd2 \in Nat /\ prevbrk < fd2
  BY <1>1 DEF EditMost, EditKinds, ShiftInv
<1>3. files \in [Names -> Seq(Byte)] /\ file \in Seq(Byte) /\ Len(file) \in Nat
  BY <1>2, ByteSeq DEF FileKinds, file
<1>4. PICK z \in Int : z = Len(file) - (curbrk - prevbrk)
  <2>1. Len(file) - (curbrk - prevbrk) \in Int
    BY <1>2, <1>3
  <2> QED
    BY <2>1, Zenon
<1>5. /\ Truncated(file, z) \in Seq(Byte)
      /\ z \in Nat => Len(Truncated(file, z)) = z
      /\ \A k \in 1 .. z : k <= Len(file) => Truncated(file, z)[k] = file[k]
  BY <1>3, TruncatedIs
<1>6. FileKinds' /\ file' = Truncated(file, z)
  <2>1. files' = [files EXCEPT ![edited] = Truncated(file, z)]
    BY <1>1, <1>4
  <2> QED
    BY <1>1, <1>2, <1>3, <1>5, <2>1 DEF FileKinds, file
<1>7. EditKinds'
  BY <1>1, <1>2, <1>3 DEF EditMost, EditKinds
<1>8. ScanInv' /\ ShiftInv' /\ LineFound'
  BY <1>1 DEF ScanInv, ShiftInv, LineFound
<1>9. LineDone'
  <2>1. CASE ~(~spoiled' /\ Tellable')
    BY <1>1, <2>1 DEF LineDone, LineGone, ReadBeforeWritten
  <2>2. CASE ~spoiled' /\ Tellable'
    <3>1. ~spoiled /\ Tellable
      BY <1>1, <2>2 DEF Tellable
    <3>2. fd1 # BadFd
      BY <1>2 DEF BadFd
    <3>3. /\ prevbrk <= curbrk
          /\ prevbrk = BreakOf(original, lineno - 1)
          /\ curbrk = BreakOf(original, lineno)
          /\ curbrk \in BreakOffsets(original)
      BY <1>1, <3>1, <3>2 DEF EditMost, LineFound
    <3>4. /\ Len(file) = Len(original)
          /\ fd1 - fd2 = curbrk - prevbrk
          /\ \A k \in 1 .. Least(fd2, Len(file)) :
               file[k] = IF k <= prevbrk + 1 THEN original[k]
                         ELSE original[k + curbrk - prevbrk]
      BY <1>1, <3>1 DEF EditMost, LineDone, LineGone, ReadBeforeWritten
    <3>5. curbrk < Len(original)
      BY <1>3, <3>3, <3>4 DEF BreakOffsets
    <3>6. z \in Nat /\ z <= Len(file) /\ z <= fd2 /\ z = Len(original) - (curbrk - prevbrk)
      <4>1. fd1 - fd2 = curbrk - prevbrk /\ Len(file) = Len(original) /\ prevbrk <= curbrk
        BY <3>3, <3>4
      <4>2. fd1 >= Len(file) /\ prevbrk \in Nat /\ curbrk \in Nat /\ fd1 \in Nat /\ fd2 \in Nat
        BY <1>1, <1>2
      <4> QED
        BY <1>3, <1>4, <3>5, <4>1, <4>2
    <3>7. PICK w : w = Without(original, prevbrk, curbrk)
      OBVIOUS
    <3>8. /\ w \in Seq(Byte) /\ Len(w) = z
          /\ \A k \in 1 .. z : w[k] = IF k <= prevbrk + 1 THEN original[k]
                                      ELSE original[k + curbrk - prevbrk]
      <4>1. PICK f \in Seq(Byte), a \in Nat, b \in Nat : f = original /\ a = prevbrk /\ b = curbrk
        BY <1>2
      <4>2. /\ Without(f, a, b) \in Seq(Byte) /\ Len(Without(f, a, b)) = Len(f) - (b - a)
            /\ \A k \in 1 .. Len(f) - (b - a) :
                 Without(f, a, b)[k] = IF k <= a + 1 THEN f[k] ELSE f[k + b - a]
        <5>1. a <= b /\ b < Len(f)
          BY <3>3, <3>5, <4>1
        <5> QED
          BY <5>1, WithoutIs
      <4> QED
        BY <3>6, <3>7, <4>1, <4>2
    <3>9. \A k \in 1 .. z : Truncated(file, z)[k] = w[k]
      <4> TAKE k \in 1 .. z
      <4>1. k \in 1 .. Least(fd2, Len(file)) /\ k <= Len(file)
        BY <1>2, <1>3, <3>6 DEF Least
      <4> QED
        BY <1>5, <3>4, <3>8, <4>1
    <3>10. Truncated(file, z) = w
      <4>1. PICK u : u = Truncated(file, z)
        OBVIOUS
      <4>2. u \in Seq(Byte) /\ Len(u) = Len(w) /\ \A k \in 1 .. Len(u) : u[k] = w[k]
        BY <1>5, <3>6, <3>8, <3>9, <4>1
      <4> QED
        BY <3>8, <4>1, <4>2, SeqEqual
    <3>11. file' = Without(original, BreakOf(original, lineno - 1), BreakOf(original, lineno))
      BY <1>6, <3>3, <3>7, <3>10
    <3>12. original' = original /\ lineno' = lineno
      BY <1>1
    <3> QED
      BY <1>1, <3>11, <3>12 DEF LineDone, LineGone, ReadBeforeWritten
  <2> QED
    BY <2>1, <2>2
<1> QED
  BY <1>6, <1>7, <1>8, <1>9 DEF EditMost

LEMMA EditInit ==
  Init => EditInv
<1> SUFFICES ASSUME Init
             PROVE  EditInv
  OBVIOUS
<1>1. /\ epc = "idle" /\ prevbrk = 0 /\ curbrk = 0 /\ linebrks = 0 /\ spoiled = FALSE
      /\ lineno = 0 /\ outcome = "none"
  BY DEF Init, EditIdle
<1>2. ~(lineno > INT_MAX)
  BY <1>1, LineEditAssumption
<1> QED
  BY <1>1, <1>2 DEF EditInv, NearLine, FarLine, EditMost, EditKinds, ScanInv, LineFound, ShiftInv, LineDone, LineGone, ReadBeforeWritten

LEMMA EditBegins ==
  ASSUME FileKinds, EditInv, NEW name \in Names, NEW no \in LineNos, StartEdit(name, no)
  PROVE  FileKinds' /\ EditInv'
<1>1. /\ epc = "idle" /\ epc' = "locate" /\ edited' = name /\ original' = files[name]
      /\ fd1' \in {0, BadFd} /\ fd2' \in {0, BadFd}
      /\ lineno' = (IF no < 0 THEN SIZE_MAX + 1 + no ELSE no) /\ Len(files[name]) <= INT_MAX
      /\ UNCHANGED <<files, linebrks, prevbrk, curbrk, outcome, spoiled>>
  BY DEF StartEdit
<1>2. prevbrk = 0 /\ linebrks = 0 /\ ~spoiled /\ curbrk \in Nat /\ outcome = "none"
  BY <1>1 DEF EditInv, EditMost, EditKinds
<1>3. lineno' \in Nat
  <2>1. no \in Int /\ no >= -INT_MAX - 1 /\ INT_MAX \in Nat /\ SIZE_MAX \in Nat
        /\ SIZE_MAX > 2 * INT_MAX
    BY LineEditAssumption
  <2> QED
    BY <1>1, <2>1
<1>4. files[name] \in Seq(Byte) /\ Len(files[name]) \in Nat /\ file' = files[name]
  BY <1>1, ByteSeq DEF FileKinds, file
<1>5. FileKinds'
  BY <1>1 DEF FileKinds
<1>6. EditKinds'
  BY <1>1, <1>2, <1>3, <1>4 DEF EditKinds
<1>7. ScanInv'
  <2>1. EndsTo(files[name], 0) = 0
    BY EndsToIs
  <2>2. prevbrk' = 0 /\ linebrks' = 0
    BY <1>1, <1>2
  <2>3. fd1' # BadFd => fd1' = 0
    BY <1>1
  <2>4. (fd1' # BadFd /\ Tellable') => prevbrk' = IF fd1' > BreakOf(original', lineno' - 1)
                                                THEN BreakOf(original', lineno' - 1) ELSE 0
    <3> HAVE fd1' # BadFd /\ Tellable'
    <3>1. BreakOf(original', lineno' - 1) > 0
      BY DEF Tellable
    <3>2. PICK m \in Nat : m = lineno' - 1 /\ m >= 1
      BY <1>1, <1>3 DEF Tellable
    <3>3. HasBreak(files[name], m)
      BY <1>1, <3>2 DEF Tellable
    <3>4. PICK k \in Ending(files[name]) : BreakOf(files[name], m) = k - 1
      BY <1>4, <3>2, <3>3, BreakFound
    <3>5. k \in Nat
      BY <1>4 DEF Ending
    <3>6. ~(0 > BreakOf(original', lineno' - 1))
      BY <1>1, <3>1, <3>2, <3>4, <3>5
    <3> QED
      BY <2>2, <2>3, <3>6
  <2>5. fd1' # BadFd => fd1' <= Len(original') /\ linebrks' = EndsTo(original', fd1')
    BY <1>1, <1>4, <2>1, <2>2, <2>3
  <2> QED
    BY <1>1, <1>3, <2>2, <2>4, <2>5 DEF ScanInv
<1>8. LineFound' /\ ShiftInv' /\ LineDone'
  BY <1>1 DEF LineFound, ShiftInv, LineDone, LineGone, ReadBeforeWritten
<1>9. NearLine' /\ FarLine'
  BY <1>1, <1>2, <1>4 DEF NearLine, FarLine
<1> QED
  BY <1>5, <1>6, <1>7, <1>8, <1>9 DEF EditInv, EditMost

LEMMA EditSame ==
  ASSUME EditInv, UNCHANGED editVars, epc = "idle" \/ UNCHANGED files
  PROVE  EditInv'
<1>1. /\ epc' = epc /\ edited' = edited /\ lineno' = lineno /\ fd1' = fd1 /\ fd2' = fd2
      /\ linebrks' = linebrks /\ prevbrk' = prevbrk /\ curbrk' = curbrk
      /\ outcome' = outcome /\ original' = original /\ spoiled' = spoiled
  BY DEF editVars
<1>2. CASE epc = "idle"
  <2>1. EditKinds'
    BY <1>1, <1>2 DEF EditInv, EditMost, EditKinds
  <2>2. ~(lineno' > INT_MAX)
    BY <1>1, <1>2, LineEditAssumption DEF EditInv, EditMost, EditKinds
  <2> QED
    BY <1>1, <1>2, <2>1, <2>2 DEF EditInv, NearLine, FarLine, EditMost, ScanInv, LineFound, ShiftInv, LineDone, LineGone, ReadBeforeWritten
<1>3. CASE UNCHANGED files
  <2>1. file' = file
    BY <1>1, <1>3 DEF file
  <2>2. Tellable' <=> Tellable
    BY <1>1 DEF Tellable
  <2>3. EditKinds'
    BY <1>1, <2>1 DEF EditInv, EditMost, EditKinds
  <2>4. ScanInv'
    BY <1>1, <2>2 DEF EditInv, EditMost, ScanInv
  <2>5. LineFound'
    BY <1>1, <2>2 DEF EditInv, EditMost, LineFound
  <2>6. ShiftInv'
    BY <1>1 DEF EditInv, EditMost, ShiftInv
  <2>7. ReadBeforeWritten'
    BY <1>1, <2>1 DEF EditInv, EditMost, LineDone, LineGone, ReadBeforeWritten
  <2>8. LineDone'
    BY <1>1, <2>1, <2>2, <2>7 DEF EditInv, EditMost, LineDone, LineGone
  <2>9. NearLine' /\ FarLine'
    BY <1>1, <2>1 DEF EditInv, NearLine, FarLine
  <2> QED
    BY <2>3, <2>4, <2>5, <2>6, <2>8, <2>9 DEF EditInv, EditMost
<1> QED
  BY <1>2, <1>3

LEMMA EditMostGoesOn ==
  ASSUME FileKinds, EditMost, EditStep
  PROVE  FileKinds' /\ EditMost'
<1>1. CASE Locate
  <2>1. epc = "locate" /\ UNCHANGED <<files, edited, lineno, fd2, original, spoiled>>
    BY <1>1 DEF Locate
  <2>2. FileKinds'
    BY <2>1 DEF FileKinds
  <2>3. (fd1 # BadFd /\ Scan) \/ ScanEnds
    BY <1>1 DEF Locate
  <2> QED
    BY <2>1, <2>2, <2>3, ScanKeeps, ScanEndsKeeps
<1> QED
  BY <1>1, SeekKeeps, ShiftKeeps, ShiftFailsKeeps, CutKeeps DEF EditStep

(* The scan does not find a line that no file can have. *)
LEMMA FarScan ==
  ASSUME EditMost, FileKinds, epc = "locate", fd1 # BadFd, lineno > INT_MAX,
         NEW c \in Chunks(file, fd1) \ {<<>>}
  PROVE  Hits(c) = {}
<1>1. /\ edited \in Names /\ lineno \in Nat /\ original \in Seq(Byte) /\ fd1 \in Nat
      /\ file = original /\ Len(original) <= INT_MAX /\ INT_MAX \in Nat
  BY LineEditAssumption DEF EditMost, EditKinds
<1>2. /\ lineno > 0 => linebrks < lineno
      /\ fd1 <= Len(original) /\ linebrks = EndsTo(original, fd1)
  BY DEF EditMost, ScanInv
<1>3. Excerpt(c, original, fd1) /\ c # <<>>
  <2>1. PICK f \in Seq(Byte), off \in Nat : f = original /\ off = fd1
    BY <1>1
  <2>2. c \in Chunks(f, off) /\ c # <<>>
    BY <1>1, <2>1
  <2> QED
    BY <2>1, <2>2, ChunkIs
<1>4. lineno > 0 /\ lineno \in Int
  BY <1>1
<1>5. ASSUME Hits(c) # {}
      PROVE  FALSE
  <2>1. /\ fd1 + Stop(c) \in Ending(original) /\ EndsTo(original, fd1 + Stop(c)) = lineno
    BY <1>1, <1>2, <1>3, <1>4, <1>5, ScanFinds
  <2>2. PICK k \in Nat : k = fd1 + Stop(c) /\ k <= Len(original)
    <3>1. Len(original) \in Nat
      BY <1>1, ByteSeq
    <3> QED
      BY <2>1, <3>1 DEF Ending
  <2>3. EndsTo(original, k) \in Nat /\ EndsTo(original, k) <= k
    BY CountNext DEF EndsTo
  <2>4. EndsTo(original, k) = lineno /\ Len(original) \in Nat
    BY <1>1, <2>1, <2>2, ByteSeq
  <2> QED
    BY <1>1, <2>2, <2>3, <2>4
<1> QED
  BY <1>5

LEMMA FarKept ==
  ASSUME FileKinds, EditInv, EditStep
  PROVE  NearLine' /\ FarLine'
<1>1. epc # "idle" /\ lineno' = lineno
  BY DEF EditStep, Locate, Seek, Shift, ShiftFails, Cut
<1>2. lineno \in Nat /\ INT_MAX \in Nat
  BY <1>1, LineEditAssumption DEF EditInv, EditMost, EditKinds
<1>3. CASE lineno <= INT_MAX
  <2>1. ~(lineno' > INT_MAX) /\ lineno' <= INT_MAX
    BY <1>1, <1>2, <1>3
  <2> QED
    BY <2>1 DEF NearLine, FarLine
<1>4. CASE lineno > INT_MAX
  <2>1. epc \notin {"seek", "shift"} /\ file = original /\ outcome # "done"
    BY <1>2, <1>4 DEF EditInv, NearLine, FarLine
  <2>2. Locate
    BY <2>1 DEF EditStep, Seek, Shift, ShiftFails, Cut
  <2>3. epc = "locate" /\ file' = file /\ original' = original
    BY <2>2 DEF Locate, file
  <2>4. epc' \notin {"seek", "shift"} /\ outcome' # "done"
    <3>1. CASE fd1 # BadFd /\ Scan
      <4>1. PICK c \in Chunks(file, fd1) \ {<<>>} :
              /\ Hits(c) = {} => epc' = epc
              /\ outcome' = outcome
        BY <3>1 DEF Scan
      <4>2. Hits(c) = {}
        BY <1>4, <2>3, <3>1, FarScan DEF EditInv
      <4> QED
        BY <2>1, <2>3, <4>1, <4>2
    <3>2. CASE ScanEnds
      <4>1. linebrks < lineno
        <5>1. lineno > 0
          BY <1>2, <1>4
        <5> QED
          BY <2>3, <5>1 DEF EditInv, EditMost, ScanInv
      <4> QED
        BY <3>2, <4>1 DEF ScanEnds, Ends
    <3> QED
      BY <2>2, <3>1, <3>2 DEF Locate
  <2> QED
    BY <2>1, <2>3, <2>4 DEF NearLine, FarLine
<1> QED
  BY <1>2, <1>3, <1>4

LEMMA EditGoesOn ==
  ASSUME FileKinds, EditInv, EditStep
  PROVE  FileKinds' /\ EditInv'
BY EditMostGoesOn, FarKept DEF EditInv

-----------------------------------------------------------------------------
(* The tools together: what each of them keeps about itself, and that no   *)
(* other changes the files while it runs.                                  *)

ToolsInv == BaseInv /\ CopyInv /\ EditInv /\ LineInv

LEMMA ToolsInit ==
  Init => ToolsInv
<1> SUFFICES ASSUME Init
             PROVE  ToolsInv
  OBVIOUS
<1>1. FileKinds
  <2>1. <<>> \in Seq(Byte)
    BY EmptySeq
  <2>2. NoContents \in [Names -> Seq(Byte)]
    BY <2>1 DEF NoContents
  <2>3. files \in Contents \/ files = NoContents
    BY DEF Init
  <2> QED
    BY <2>2, <2>3, ContentsAssumption DEF FileKinds
<1> QED
  BY <1>1, AloneInit, CopyInit, EditInit, LineInit DEF ToolsInv, BaseInv

LEMMA ToolsStep ==
  ToolsInv /\ [Next]_vars => ToolsInv'
<1> SUFFICES ASSUME ToolsInv, [Next]_vars
             PROVE  ToolsInv'
  OBVIOUS
<1>1. Alone /\ FileKinds /\ CopyInv /\ EditInv /\ LineInv /\ BaseInv
  BY DEF ToolsInv, BaseInv
<1>2. Alone'
  BY <1>1, AloneStep
<1> SUFFICES FileKinds' /\ CopyInv' /\ EditInv' /\ LineInv'
  BY <1>2 DEF ToolsInv, BaseInv
<1>3. CASE Idle /\ (\E t \in Tools, a, b \in Names : StartCopy(t, a, b))
           /\ UNCHANGED <<editVars, lineVars, diskVars, streamVars>>
  <2>1. epc = "idle" /\ gpc = "idle"
    BY <1>3 DEF Idle
  <2>2. PICK t \in Tools, a \in Names, b \in Names : StartCopy(t, a, b)
    BY <1>3
  <2>3. FileKinds' /\ CopyInv'
    BY <1>1, <2>2, CopyBegins
  <2>4. EditInv'
    BY <1>1, <1>3, <2>1, EditSame
  <2>5. LineInv'
    BY <1>1, <1>3, <2>1, LineSame
  <2> QED
    BY <2>3, <2>4, <2>5
<1>4. CASE Idle /\ (\E name \in Names, no \in LineNos : StartEdit(name, no))
           /\ UNCHANGED <<copyVars, lineVars, diskVars, streamVars>>
  <2>1. cpc = "idle" /\ gpc = "idle"
    BY <1>4 DEF Idle
  <2>2. PICK name \in Names, no \in LineNos : StartEdit(name, no)
    BY <1>4
  <2>3. FileKinds' /\ EditInv'
    BY <1>1, <2>2, EditBegins
  <2>4. CopyInv'
    BY <1>1, <1>4, <2>1, CopySame
  <2>5. LineInv'
    BY <1>1, <1>4, <2>1, LineSame
  <2> QED
    BY <2>3, <2>4, <2>5
<1>5. CASE Idle /\ (\E name \in Names : StartLines(name))
           /\ UNCHANGED <<copyVars, editVars, diskVars, streamVars>>
  <2>1. cpc = "idle" /\ epc = "idle" /\ gpc = "idle"
    BY <1>5 DEF Idle
  <2>2. PICK name \in Names : StartLines(name)
    BY <1>5
  <2>3. LineInv'
    BY <1>1, <2>1, <2>2, LineBegins
  <2>4. FileKinds'
    BY <1>1, <2>2 DEF StartLines, FileKinds
  <2>5. CopyInv'
    BY <1>1, <1>5, <2>1, CopySame
  <2>6. EditInv'
    BY <1>1, <1>5, <2>1, EditSame
  <2> QED
    BY <2>3, <2>4, <2>5, <2>6
<1>6. CASE CopyStep /\ UNCHANGED <<editVars, lineVars, diskVars, streamVars>>
  <2>1. cpc # "idle"
    BY <1>6 DEF CopyStep, Read, CopyEnds, WriteWhole, WriteStream, WriteAgain, WriteRun,
                SkipZeros
  <2>2. epc = "idle" /\ gpc = "idle"
    BY <1>1, <2>1 DEF Alone
  <2>3. FileKinds' /\ CopyInv'
    BY <1>1, <1>6, CopyGoesOn
  <2>4. EditInv'
    BY <1>1, <1>6, <2>2, EditSame
  <2>5. LineInv'
    BY <1>1, <1>6, <2>2, LineSame
  <2> QED
    BY <2>3, <2>4, <2>5
<1>7. CASE EditStep /\ UNCHANGED <<copyVars, lineVars, diskVars, streamVars>>
  <2>1. epc # "idle"
    BY <1>7 DEF EditStep, Locate, Seek, Shift, ShiftFails, Cut
  <2>2. cpc = "idle" /\ gpc = "idle"
    BY <1>1, <2>1 DEF Alone
  <2>3. FileKinds' /\ EditInv'
    BY <1>1, <1>7, EditGoesOn
  <2>4. CopyInv'
    BY <1>1, <1>7, <2>2, CopySame
  <2>5. LineInv'
    BY <1>1, <1>7, <2>2, LineSame
  <2> QED
    BY <2>3, <2>4, <2>5
<1>8. CASE LineStep /\ UNCHANGED <<copyVars, editVars, diskVars, streamVars>>
  <2>1. gpc # "idle"
    BY <1>8 DEF LineStep, CallGetline, Char, CharNoMemory, EndOfLines
  <2>2. cpc = "idle" /\ epc = "idle"
    BY <1>1, <2>1 DEF Alone
  <2>3. LineInv'
    BY <1>1, <1>8, LineGoesOn
  <2>4. UNCHANGED files
    BY <1>8 DEF LineStep, CallGetline, Char, CharNoMemory, EndOfLines
  <2>5. FileKinds'
    BY <1>1, <2>4 DEF FileKinds
  <2>6. CopyInv'
    BY <1>1, <1>8, <2>2, CopySame
  <2>7. EditInv'
    BY <1>1, <1>8, <2>2, EditSame
  <2> QED
    BY <2>3, <2>5, <2>6, <2>7
<1>9. CASE UNCHANGED <<files, copyVars, editVars, lineVars>>
  <2>1. FileKinds'
    BY <1>1, <1>9 DEF FileKinds
  <2> QED
    BY <1>1, <1>9, <2>1, CopySame, EditSame, LineSame
<1> QED
  BY <1>3, <1>4, <1>5, <1>6, <1>7, <1>8, <1>9, StepKinds

LEMMA ToolsAlways ==
  Spec => []ToolsInv
BY ToolsInit, ToolsStep, PTL DEF Spec

(* my_getline writes where cur_pos points: inside the buffer its caller    *)
(* has, behind the characters of this line, with room for one more and for *)
(* the '\0' that ends it, whatever the buffer has grown by and wherever it *)
(* has moved; a line that is returned is the file's; and every line that   *)
(* ends in a break has been returned once, in its turn, and nothing else   *)
(* but a partial line at the end of the file, if that.                     *)
THEOREM LinesStored == Spec => []LineInBuffer
<1>1. ToolsInv => LineInBuffer
  BY LineMeans DEF ToolsInv
<1> QED
  BY <1>1, ToolsAlways, PTL

(* What a copy tool has put into another file is at every moment no longer *)
(* than the source, and it is the source up to the first place where a     *)
(* byte went missing (lost): in a short or failed write that is not looked *)
(* at or goes wrong, or behind a '\0' that fgets read.  Without such a     *)
(* place it is the source as far as it goes, skipped zeros included.       *)
THEOREM CopiedInOrder == Spec => []CopyInOrder
<1>1. ToolsInv => CopyInOrder
  BY CopyMeans DEF ToolsInv, BaseInv
<1> QED
  BY <1>1, ToolsAlways, PTL

(* If a copy tool ends without a complaint, then no call has failed or was *)
(* short (of the tools that compare write's result); the target has the    *)
(* length of the source (mycp_sysio, whose bytes may still be others after *)
(* a short write, and cp_tlpi), or lacks zeros at its end (cp_holes); on   *)
(* streams it has it unless a call failed or a '\0' cut a line short.      *)
THEOREM CopiedOrComplained == Spec => []CopyOrComplain
<1>1. ToolsInv => CopyOrComplain
  BY CopyMeans DEF ToolsInv, BaseInv
<1> QED
  BY <1>1, ToolsAlways, PTL

(* mylined moves what follows the line over it, chunk by chunk, and reads  *)
(* every byte before it is overwritten, whatever its writes return; when   *)
(* it ends without a short write the file is the old one without the line, *)
(* or unchanged if there is no such line, for the lines that can be told   *)
(* from "not found" (Tellable) and files of at most INT_MAX bytes; and a   *)
(* negative number, which is a huge one, changes no such file.             *)
THEOREM LineDeleted == Spec => []DeletesLine
<1>1. ToolsInv => DeletesLine
  BY DEF ToolsInv, EditInv, EditMost, LineDone, DeletesLine
<1> QED
  BY <1>1, ToolsAlways, PTL

-----------------------------------------------------------------------------
(* What is printed, and the messages.                                      *)

Procs    == {"parent", "child"}
Places   == {"tty", "file"}
Numbered == [no : Nat]
Calls    == Reports \union {"none"}
Message  == [by : Procs, fn : Calls, sofar : SUBSET Numbered]
Item     == Numbered \union Message
Live     == {"run", "flush", "say", "text", "end"}
Process  ==
  [at : Live \union {"none", "open", "failed", "exit", "_exit", "abort"}, fn : Calls,
   buffer : Seq(Numbered), errno : Errors \union {AnyErr}, saved : Errors \union {AnyErr},
   printed : SUBSET Numbered, quiet : BOOLEAN]

Distinct(s) ==
  \A j, k \in DOMAIN s : (j # k /\ "no" \in DOMAIN s[j]) => s[j] # s[k]

StreamKinds ==
  /\ pieces \in Nat /\ out \in {"tty", "file", "none"} /\ redirects \in BOOLEAN
  /\ shown \in [Places -> Seq(Item)]
  /\ procs \in [Procs -> Process]

(* As long as the program has not been given its output, nothing is shown. *)
Before == {"none", "open", "failed"}
OutInv ==
  /\ procs.parent.at \in Before =>
       procs.child.at = "none" /\ shown = [place \in Places |-> <<>>]
  /\ procs.parent.at \notin Before => out = IF redirects THEN "file" ELSE "tty"
  /\ procs.parent.at = "open" => redirects /\ out # "file"
  /\ procs.child.at \notin {"open", "failed"}

(* What a process r has printed, and no failed write was to bring, is      *)
(* shown or in its buffer; when it comes to speak and has not called       *)
(* err_exit, and at its end, it is shown.                                  *)
ProcInv(r, on) ==
  /\ r.at \in {"none", "open"} =>
       r.printed = {} /\ r.buffer = <<>> /\ r.quiet /\ r.errno = r.saved
  /\ r.at \in Live => r.printed \subseteq on \union ItemsOf(r.buffer)
  /\ r.at = "exit" => r.printed \subseteq on
  /\ r.at \in {"say", "text"} /\ r.fn # "err_exit" => r.printed \subseteq on
  /\ r.at = "run" /\ r.fn = "errMsg" => r.errno = r.saved
  /\ r.at \in Live \ {"run"} /\ r.quiet => r.fn = "err_exit"

(* Pieces are numbered as they come. *)
Upto(s, z) == \A k \in DOMAIN s : s[k] \in Numbered => s[k].no <= z

Quiet == procs.child.quiet /\ procs.child.at # "exit"

OnceInv ==
  Quiet =>
    /\ \A place \in Places : Distinct(shown[place])
    /\ Distinct(procs.parent.buffer)
    /\ procs.parent.at \notin Before =>
         \A i \in ItemsOf(procs.parent.buffer) : i \notin ItemsOf(shown[out])

StreamInv ==
  /\ StreamKinds /\ OutInv
  /\ \A p \in Procs : procs[p].at \notin Before => ProcInv(procs[p], ItemsOf(shown[out]))
  /\ \A p \in Procs : procs[p].at \in Before => ProcInv(procs[p], {})
  /\ \A place \in Places : Upto(shown[place], pieces)
  /\ \A p \in Procs : Upto(procs[p].buffer, pieces)
  /\ OnceInv /\ PrintedFirst

LEMMA ItemIs ==
  /\ \A i \in Item : "no" \in DOMAIN i <=> i \in Numbered
  /\ \A i \in Item : "sofar" \in DOMAIN i <=> i \in Message
  /\ \A i \in Numbered : i \notin Message
<1>1. \A i \in Numbered : "no" \in DOMAIN i /\ "sofar" \notin DOMAIN i
  BY DEF Numbered
<1>2. \A i \in Message : "sofar" \in DOMAIN i /\ "no" \notin DOMAIN i
  BY DEF Message
<1> QED
  BY <1>1, <1>2 DEF Item

LEMMA ItemsJoin ==
  ASSUME NEW S, NEW s \in Seq(S), NEW t \in Seq(S)
  PROVE  /\ s \o t \in Seq(S) /\ ItemsOf(s \o t) = ItemsOf(s) \union ItemsOf(t)
         /\ Len(s \o t) = Len(s) + Len(t)
         /\ \A k \in 1 .. Len(s) : (s \o t)[k] = s[k]
         /\ \A k \in 1 .. Len(s) + Len(t) : k > Len(s) => (s \o t)[k] = t[k - Len(s)]
<1>1. /\ s \o t \in Seq(S) /\ Len(s \o t) = Len(s) + Len(t)
      /\ \A k \in 1 .. Len(s) : (s \o t)[k] = s[k]
      /\ \A k \in 1 .. Len(s) + Len(t) : k > Len(s) => (s \o t)[k] = t[k - Len(s)]
  BY ConcatProperties
<1>2. PICK u : u = s \o t
  OBVIOUS
<1>3. PICK a \in Nat, b \in Nat : a = Len(s) /\ b = Len(t)
  OBVIOUS
<1>4. DOMAIN s = 1 .. a /\ DOMAIN t = 1 .. b /\ DOMAIN u = 1 .. a + b
  BY <1>1, <1>2, <1>3
<1>5. /\ \A k \in 1 .. a : u[k] = s[k]
      /\ \A k \in 1 .. a + b : k > a => u[k] = t[k - a]
  BY <1>1, <1>2, <1>3
<1>6. ItemsOf(u) \subseteq ItemsOf(s) \union ItemsOf(t)
  <2> SUFFICES ASSUME NEW k \in 1 .. a + b
               PROVE  u[k] \in ItemsOf(s) \union ItemsOf(t)
    BY <1>4 DEF ItemsOf
  <2>1. CASE k <= a
    BY <1>3, <1>4, <1>5, <2>1 DEF ItemsOf
  <2>2. CASE k > a
    <3>1. k - a \in 1 .. b /\ u[k] = t[k - a]
      BY <1>3, <1>5, <2>2
    <3> QED
      BY <1>4, <3>1 DEF ItemsOf
  <2> QED
    BY <1>3, <2>1, <2>2
<1>7. ItemsOf(s) \subseteq ItemsOf(u)
  <2>1. \A k \in 1 .. a : k \in 1 .. a + b /\ u[k] = s[k]
    BY <1>3, <1>5
  <2> QED
    BY <1>4, <2>1 DEF ItemsOf
<1>8. ItemsOf(t) \subseteq ItemsOf(u)
  <2>1. \A k \in 1 .. b : k + a \in 1 .. a + b /\ u[k + a] = t[k]
    BY <1>3, <1>5
  <2> QED
    BY <1>4, <2>1 DEF ItemsOf
<1> QED
  BY <1>1, <1>2, <1>6, <1>7, <1>8

LEMMA PlaceIn ==
  ASSUME NEW a \in Nat, NEW b \in Nat, NEW q \in 1 .. a + b
  PROVE  (q > a => q - a \in 1 .. b) /\ (q <= a => q \in 1 .. a)
OBVIOUS

LEMMA DistinctJoin ==
  ASSUME NEW s \in Seq(Item), NEW t \in Seq(Item), Distinct(s), Distinct(t),
         \A i \in ItemsOf(t) : i \in Numbered => i \notin ItemsOf(s),
         \A i \in ItemsOf(s) : i \in Numbered => i \notin ItemsOf(t)
  PROVE  Distinct(s \o t)
<1>1. PICK a \in Nat, b \in Nat : a = Len(s) /\ b = Len(t)
  OBVIOUS
<1>2. PICK u : u = s \o t
  OBVIOUS
<1>3. /\ DOMAIN s = 1 .. a /\ DOMAIN t = 1 .. b /\ DOMAIN u = 1 .. a + b
      /\ \A k \in 1 .. a : u[k] = s[k]
      /\ \A k \in 1 .. a + b : k > a => u[k] = t[k - a]
  BY <1>1, <1>2, ItemsJoin
<1>4. /\ \A k \in 1 .. a : s[k] \in Item /\ s[k] \in ItemsOf(s)
      /\ \A k \in 1 .. b : t[k] \in Item /\ t[k] \in ItemsOf(t)
  BY <1>1, <1>3 DEF ItemsOf
<1> SUFFICES ASSUME NEW j \in 1 .. a + b, NEW k \in 1 .. a + b, j # k, "no" \in DOMAIN u[j],
                    u[j] = u[k]
             PROVE  FALSE
  BY <1>2, <1>3 DEF Distinct
<1>5. CASE j <= a /\ k <= a
  <2>1. j \in DOMAIN s /\ k \in DOMAIN s /\ u[j] = s[j] /\ u[k] = s[k]
    BY <1>1, <1>3, <1>5
  <2> QED
    BY <2>1, Zenon DEF Distinct
<1>6. CASE j > a /\ k > a
  <2>1. PICK m \in 1 .. b, n0 \in 1 .. b : m = j - a /\ n0 = k - a
    <3>1. j - a \in 1 .. b /\ k - a \in 1 .. b
      BY <1>6, PlaceIn
    <3> QED
      BY <3>1, Zenon
  <2>2. m # n0
    BY <1>1, <1>6, <2>1
  <2>3. u[j] = t[m] /\ u[k] = t[n0] /\ m \in DOMAIN t /\ n0 \in DOMAIN t
    BY <1>3, <1>6, <2>1
  <2> QED
    BY <2>2, <2>3, Zenon DEF Distinct
<1>7. CASE j <= a /\ k > a
  <2>1. PICK n0 \in 1 .. b : n0 = k - a
    <3>1. k - a \in 1 .. b
      BY <1>7, PlaceIn
    <3> QED
      BY <3>1, Zenon
  <2>2. j \in 1 .. a
    BY <1>1, <1>7
  <2>4. u[j] = s[j] /\ u[k] = t[n0]
    BY <1>3, <1>7, <2>1, <2>2
  <2>3. s[j] \in Numbered
    BY <1>4, <2>2, <2>4, ItemIs
  <2> QED
    BY <1>4, <2>1, <2>2, <2>3, <2>4
<1>8. CASE j > a /\ k <= a
  <2>1. PICK n0 \in 1 .. b : n0 = j - a
    <3>1. j - a \in 1 .. b
      BY <1>8, PlaceIn
    <3> QED
      BY <3>1, Zenon
  <2>2. k \in 1 .. a
    BY <1>1, <1>8
  <2>4. u[k] = s[k] /\ u[j] = t[n0]
    BY <1>3, <1>8, <2>1, <2>2
  <2>3. t[n0] \in Numbered
    BY <1>4, <2>1, <2>4, ItemIs
  <2> QED
    BY <1>4, <2>1, <2>2, <2>3, <2>4
<1> QED
  BY <1>1, <1>5, <1>6, <1>7, <1>8

(* p becomes r, and more is shown at place. *)
StepOf(p, r, place, more) ==
  /\ procs' = [procs EXCEPT ![p] = r]
  /\ shown' = [shown EXCEPT ![place] = @ \o more]
  /\ redirects' = redirects /\ out' = out
  /\ pieces' \in Nat /\ pieces' >= pieces

(* The pieces in more and in r's buffer are new or were in the parent's. *)
OnceMore(p, r, place, more) ==
  /\ \A i \in ItemsOf(more) : i \in Numbered => place = out
  /\ Distinct(more)
  /\ p = "parent" =>
       /\ Distinct(r.buffer)
       /\ \A i \in ItemsOf(r.buffer) : i \notin ItemsOf(more)
       /\ \A i \in ItemsOf(more) \union ItemsOf(r.buffer) : i \in Numbered =>
            i \in ItemsOf(procs.parent.buffer) \/ i.no > pieces
  /\ p = "child" => \A i \in ItemsOf(more) : i \in Numbered => i.no > pieces

LEMMA ProcMore ==
  ASSUME NEW r, NEW a, NEW b, a \subseteq b, ProcInv(r, a)
  PROVE  ProcInv(r, b)
BY DEF ProcInv

LEMMA Running ==
  ASSUME StreamInv, NEW p \in Procs, procs[p].at \in Live
  PROVE  /\ procs.parent.at \notin Before /\ out \in Places
         /\ redirects => out = "file"
<1>1. procs.parent.at \notin Before
  BY DEF StreamInv, OutInv, Procs, Live, Before
<1> QED
  BY <1>1 DEF StreamInv, OutInv, StreamKinds, Places

(* Numbers of things that have been. *)
LEMMA UptoItems ==
  ASSUME NEW s, NEW z, Upto(s, z), NEW i \in ItemsOf(s), i \in Numbered
  PROVE  i.no <= z
BY DEF Upto, ItemsOf

LEMMA UptoJoin ==
  ASSUME NEW s \in Seq(Item), NEW t \in Seq(Item), NEW y \in Nat, NEW z \in Nat, y <= z,
         Upto(s, y), Upto(t, z)
  PROVE  Upto(s, z) /\ Upto(s \o t, z)
<1>1. \A i \in Numbered : i.no \in Nat
  BY DEF Numbered
<1>2. \A i \in ItemsOf(s) : i \in Numbered => i.no <= z
  <2> SUFFICES ASSUME NEW i \in ItemsOf(s), i \in Numbered
               PROVE  i.no <= z
    OBVIOUS
  <2>1. i.no <= y /\ i.no \in Nat
    BY <1>1, UptoItems
  <2> QED
    BY <2>1
<1>3. \A i \in ItemsOf(t) : i \in Numbered => i.no <= z
  BY UptoItems
<1>4. ItemsOf(s \o t) = ItemsOf(s) \union ItemsOf(t)
  BY ItemsJoin
<1>5. \A k \in DOMAIN (s \o t) : (s \o t)[k] \in ItemsOf(s \o t)
  BY DEF ItemsOf
<1>6. \A k \in DOMAIN s : s[k] \in ItemsOf(s)
  BY DEF ItemsOf
<1> QED
  BY <1>2, <1>3, <1>4, <1>5, <1>6, Zenon DEF Upto

LEMMA OnceKept ==
  ASSUME StreamInv, NEW p \in Procs, procs[p].at \in Live, NEW r \in Process,
         NEW place \in Places, NEW more \in Seq(Item), StepOf(p, r, place, more),
         p = "child" => (r.quiet /\ r.at # "exit" => procs.child.quiet),
         Quiet' => OnceMore(p, r, place, more)
  PROVE  OnceInv'
<1> SUFFICES ASSUME Quiet'
             PROVE  /\ \A q \in Places : Distinct(shown'[q])
                    /\ Distinct(procs.parent.buffer)'
                    /\ \A i \in ItemsOf(procs.parent.buffer)' : i \notin ItemsOf(shown[out])'
  BY DEF OnceInv
<1>1. /\ procs \in [Procs -> Process] /\ shown \in [Places -> Seq(Item)] /\ pieces \in Nat
      /\ \A q \in Places : Upto(shown[q], pieces)
      /\ Upto(procs.parent.buffer, pieces)
  BY DEF StreamInv, StreamKinds, Procs
<1>2. /\ procs'[p] = r /\ \A q \in Procs : q # p => procs'[q] = procs[q]
      /\ shown'[place] = shown[place] \o more
      /\ \A q \in Places : q # place => shown'[q] = shown[q]
      /\ out' = out
  BY <1>1 DEF StepOf
<1>3. OnceMore(p, r, place, more)
  OBVIOUS
<1>4. procs.parent.at \notin Before /\ out \in Places
  BY Running
<1>5. Quiet
  <2>1. CASE p = "child"
    BY <1>2, <2>1 DEF Quiet, Live
  <2>2. CASE p = "parent"
    BY <1>2, <2>2 DEF Quiet, Procs
  <2> QED
    BY <2>1, <2>2 DEF Procs
<1>6. /\ \A q \in Places : Distinct(shown[q])
      /\ Distinct(procs.parent.buffer)
      /\ \A i \in ItemsOf(procs.parent.buffer) : i \notin ItemsOf(shown[out])
  BY <1>4, <1>5 DEF StreamInv, OnceInv
<1>7. PICK s \in Seq(Item) : s = shown[place]
  BY <1>1
<1>8. PICK b \in Seq(Numbered) : b = procs.parent.buffer
  BY <1>1 DEF Process, Procs
<1>9. /\ \A i \in ItemsOf(b) : i \in Numbered
      /\ \A i \in ItemsOf(s) : i \in Item
      /\ \A i \in ItemsOf(more) : i \in Item
  BY DEF ItemsOf
<1>10. \A i \in Numbered : i.no \in Nat
  BY DEF Numbered
<1>11. \A q \in Places : \A i \in ItemsOf(shown[q]) : i \in Numbered => ~(i.no > pieces)
  <2> SUFFICES ASSUME NEW q \in Places, NEW i \in ItemsOf(shown[q]), i \in Numbered
               PROVE  ~(i.no > pieces)
    OBVIOUS
  <2>1. i.no <= pieces
    BY <1>1, UptoItems
  <2> QED
    BY <1>1, <1>10, <2>1
<1>12. \A i \in ItemsOf(b) : ~(i.no > pieces)
  <2> SUFFICES ASSUME NEW i \in ItemsOf(b)
               PROVE  ~(i.no > pieces)
    OBVIOUS
  <2>1. i.no <= pieces
    BY <1>1, <1>8, <1>9, UptoItems
  <2> QED
    BY <1>1, <1>9, <1>10, <2>1
<1>13. \A i \in ItemsOf(more) : i \in Numbered => i \notin ItemsOf(s)
  <2> SUFFICES ASSUME NEW i \in ItemsOf(more), i \in Numbered, i \in ItemsOf(s)
               PROVE  FALSE
    OBVIOUS
  <2>1. place = out
    BY <1>3 DEF OnceMore
  <2>2. i \in ItemsOf(b) \/ i.no > pieces
    BY <1>3, <1>8 DEF OnceMore, Procs
  <2> QED
    BY <1>6, <1>7, <1>8, <1>11, <2>1, <2>2
<1>14. Distinct(s \o more)
  <2>1. Distinct(s) /\ Distinct(more)
    BY <1>3, <1>6, <1>7 DEF OnceMore
  <2>2. \A i \in ItemsOf(s) : i \in Numbered => i \notin ItemsOf(more)
    BY <1>13
  <2> QED
    BY <1>13, <2>1, <2>2, DistinctJoin
<1>15. \A q \in Places : Distinct(shown'[q])
  BY <1>2, <1>6, <1>7, <1>14
<1>16. ItemsOf(s \o more) = ItemsOf(s) \union ItemsOf(more)
  BY ItemsJoin
<1>17. \A i : i \in ItemsOf(shown[out])' =>
          i \in ItemsOf(shown[out]) \/ (i \in ItemsOf(more) /\ place = out)
  BY <1>2, <1>4, <1>7, <1>16
<1>18. CASE p = "parent"
  <2>1. procs.parent.buffer' = r.buffer /\ r.buffer \in Seq(Numbered)
    BY <1>2, <1>18 DEF Process
  <2>2. \A i \in ItemsOf(r.buffer) : i \in Numbered
    BY <2>1 DEF ItemsOf
  <2>3. /\ Distinct(r.buffer)
        /\ \A i \in ItemsOf(r.buffer) : i \notin ItemsOf(more)
        /\ \A i \in ItemsOf(r.buffer) : i \in ItemsOf(b) \/ i.no > pieces
    BY <1>3, <1>8, <1>18, <2>2 DEF OnceMore
  <2>4. \A i \in ItemsOf(r.buffer) : i \notin ItemsOf(shown[out])
    BY <1>4, <1>6, <1>8, <1>11, <2>2, <2>3
  <2>5. \A i \in ItemsOf(r.buffer) : i \notin ItemsOf(shown[out])'
    BY <1>17, <2>3, <2>4, Zenon
  <2> QED
    BY <1>15, <2>1, <2>3, <2>5
<1>19. CASE p = "child"
  <2>1. procs.parent.buffer' = b
    BY <1>2, <1>8, <1>19 DEF Procs
  <2>2. \A i \in ItemsOf(more) : i \in Numbered => i.no > pieces
    BY <1>3, <1>19 DEF OnceMore
  <2>3. \A i \in ItemsOf(b) : i \notin ItemsOf(more)
    BY <1>9, <1>12, <2>2
  <2>4. \A i \in ItemsOf(b) : i \notin ItemsOf(shown[out])'
    BY <1>6, <1>8, <1>17, <2>3, Zenon
  <2> QED
    BY <1>6, <1>8, <1>15, <2>1, <2>4
<1> QED
  BY <1>18, <1>19 DEF Procs

(* A message, told when what has been heard is on, comes after what it     *)
(* follows; Heard is that at the k-th of the things at sh.tty.             *)
SaidAfter(i, on) == i \in Message /\ i.fn # "err_exit" => i.sofar \subseteq on
Heard(sh, o, k)  == IF o = "tty" THEN {sh.tty[j] : j \in 1 .. k} ELSE ItemsOf(sh[o])
FirstIn(sh, o)   == \A k \in 1 .. Len(sh.tty) : SaidAfter(sh.tty[k], Heard(sh, o, k))

AllAfter(more, on) == \A i \in ItemsOf(more) : SaidAfter(i, on)

ShownKind(sh) == sh \in [Places -> Seq(Item)]

(* What is shown, and more of it at place. *)
MoreAt(sh, place, more) == [sh EXCEPT ![place] = @ \o more]
AtLeast(sh, tu)         == \A q \in Places : ItemsOf(sh[q]) \subseteq ItemsOf(tu[q])

LEMMA FrontItems ==
  ASSUME NEW s \in Seq(Item), NEW k \in 1 .. Len(s)
  PROVE  ItemsOf(SubSeq(s, 1, k)) = {s[j] : j \in 1 .. k}
<1>1. PICK u : u = SubSeq(s, 1, k)
  OBVIOUS
<1>2. DOMAIN u = 1 .. k /\ \A j \in 1 .. k : u[j] = s[j]
  BY <1>1, SubSeqProperties
<1> QED
  BY <1>1, <1>2 DEF ItemsOf

LEMMA FirstIs ==
  ASSUME NEW sh \in [Places -> Seq(Item)], NEW o \in Places
  PROVE  FirstIn(sh, o) <=>
           \A k \in DOMAIN sh.tty :
             LET i == sh.tty[k]
             IN  ("sofar" \in DOMAIN i /\ i.fn # "err_exit" /\ o # "none") =>
                   i.sofar \subseteq
                     ItemsOf(IF o = "tty" THEN SubSeq(sh.tty, 1, k) ELSE sh[o])
<1>1. PICK s \in Seq(Item) : s = sh.tty
  BY DEF Places
<1>2. DOMAIN s = 1 .. Len(s) /\ o # "none"
  BY DEF Places
<1>3. \A k \in 1 .. Len(s) : ("sofar" \in DOMAIN s[k]) <=> (s[k] \in Message)
  BY ItemIs
<1>4. \A k \in 1 .. Len(s) :
        ItemsOf(IF o = "tty" THEN SubSeq(s, 1, k) ELSE sh[o]) = Heard(sh, o, k)
  <2> SUFFICES ASSUME NEW k \in 1 .. Len(s)
               PROVE  ItemsOf(IF o = "tty" THEN SubSeq(s, 1, k) ELSE sh[o]) = Heard(sh, o, k)
    OBVIOUS
  <2>1. CASE o = "tty"
    BY <1>1, <2>1, FrontItems DEF Heard
  <2>2. CASE o # "tty"
    BY <2>2 DEF Heard
  <2> QED
    BY <2>1, <2>2
<1>5. \A k \in 1 .. Len(s) :
        SaidAfter(s[k], Heard(sh, o, k)) <=>
          ((("sofar" \in DOMAIN s[k]) /\ s[k].fn # "err_exit" /\ o # "none") =>
             s[k].sofar \subseteq ItemsOf(IF o = "tty" THEN SubSeq(s, 1, k) ELSE sh[o]))
  BY <1>2, <1>3, <1>4, Zenon DEF SaidAfter
<1> QED
  BY <1>1, <1>2, <1>5, Zenon DEF FirstIn

LEMMA FirstStep ==
  ASSUME NEW sh, ShownKind(sh), NEW o \in Places, NEW place \in Places,
         NEW more \in Seq(Item), FirstIn(sh, o), AllAfter(more, ItemsOf(sh[o]))
  PROVE  /\ ShownKind(MoreAt(sh, place, more))
         /\ FirstIn(MoreAt(sh, place, more), o)
         /\ AtLeast(sh, MoreAt(sh, place, more))
         /\ ItemsOf(MoreAt(sh, place, more)[place]) = ItemsOf(sh[place]) \union ItemsOf(more)
<1>0. PICK tu : tu = MoreAt(sh, place, more)
  OBVIOUS
<1>1. PICK s \in Seq(Item) : s = sh[place]
  BY DEF ShownKind
<1>2. PICK u : u = s \o more
  OBVIOUS
<1>3. /\ tu[place] = u /\ \A q \in Places : q # place => tu[q] = sh[q]
      /\ DOMAIN tu = Places
  BY <1>0, <1>1, <1>2 DEF MoreAt, ShownKind
<1>4. PICK a \in Nat, b \in Nat : a = Len(s) /\ b = Len(more)
  OBVIOUS
<1>5. /\ u \in Seq(Item) /\ Len(u) = a + b /\ ItemsOf(u) = ItemsOf(s) \union ItemsOf(more)
      /\ \A k \in 1 .. a : u[k] = s[k]
      /\ \A k \in 1 .. a + b : k > a => u[k] = more[k - a]
  BY <1>2, <1>4, ItemsJoin
<1>6. ShownKind(tu)
  <2>1. tu = [q \in Places |-> tu[q]]
    BY <1>0 DEF MoreAt, ShownKind
  <2>2. \A q \in Places : tu[q] \in Seq(Item)
    BY <1>3, <1>5 DEF ShownKind
  <2> QED
    BY <2>1, <2>2 DEF ShownKind
<1>7. \A q \in Places : ItemsOf(sh[q]) \subseteq ItemsOf(tu[q])
  BY <1>1, <1>3, <1>5
<1>10. AtLeast(sh, tu)
  BY <1>7 DEF AtLeast
<1>8. CASE place = "tty"
  <2>1. tu.tty = u /\ sh.tty = s
    BY <1>1, <1>3, <1>8
  <2>2. \A k \in 1 .. a : Heard(tu, o, k) = Heard(sh, o, k)
    <3>1. CASE o = "tty"
      <4> SUFFICES ASSUME NEW k \in 1 .. a
                   PROVE  Heard(tu, o, k) = Heard(sh, o, k)
        OBVIOUS
      <4>1. \A j \in 1 .. k : u[j] = s[j]
        BY <1>5
      <4> QED
        BY <2>1, <3>1, <4>1 DEF Heard
    <3>2. CASE o # "tty"
      BY <1>3, <1>8, <3>2 DEF Heard
    <3> QED
      BY <3>1, <3>2
  <2>3. \A k \in 1 .. a : SaidAfter(u[k], Heard(tu, o, k))
    BY <1>4, <1>5, <2>1, <2>2 DEF FirstIn
  <2>4. \A k \in 1 .. a + b : k > a => SaidAfter(u[k], Heard(tu, o, k))
    <3> SUFFICES ASSUME NEW k \in 1 .. a + b, k > a
                 PROVE  SaidAfter(u[k], Heard(tu, o, k))
      OBVIOUS
    <3>1. u[k] \in ItemsOf(more)
      <4>1. k - a \in 1 .. b
        BY <1>4, PlaceIn
      <4>2. u[k] = more[k - a] /\ DOMAIN more = 1 .. b
        BY <1>4, <1>5
      <4> QED
        BY <4>1, <4>2, Zenon DEF ItemsOf
    <3>2. ItemsOf(sh[o]) \subseteq Heard(tu, o, k)
      <4>1. CASE o = "tty"
        <5>1. \A j \in 1 .. a : j \in 1 .. k /\ u[j] = s[j]
          BY <1>5
        <5>2. DOMAIN s = 1 .. a /\ sh[o] = s
          BY <1>1, <1>4, <1>8, <4>1
        <5> QED
          BY <2>1, <4>1, <5>1, <5>2 DEF Heard, ItemsOf
      <4>2. CASE o # "tty"
        BY <1>3, <1>8, <4>2 DEF Heard
      <4> QED
        BY <4>1, <4>2
    <3>3. SaidAfter(u[k], ItemsOf(sh[o]))
      BY <3>1, Zenon DEF AllAfter
    <3> QED
      BY <3>2, <3>3, Zenon DEF SaidAfter
  <2>5. \A k \in 1 .. a + b : k \in 1 .. a \/ k > a
    OBVIOUS
  <2> QED
    BY <1>0, <1>1, <1>3, <1>5, <1>6, <1>10, <2>1, <2>3, <2>4, <2>5, Zenon DEF FirstIn
<1>9. CASE place # "tty"
  <2>1. tu.tty = sh.tty
    BY <1>3, <1>9 DEF Places
  <2>2. \A k : Heard(sh, o, k) \subseteq Heard(tu, o, k)
    BY <1>7, <2>1, Zenon DEF Heard
  <2>3. FirstIn(tu, o)
    BY <2>1, <2>2, Zenon DEF FirstIn, SaidAfter
  <2> QED
    BY <1>0, <1>1, <1>3, <1>5, <1>6, <1>10, <2>3, Zenon
<1> QED
  BY <1>8, <1>9

LEMMA NumberedSeq ==
  ASSUME NEW s \in Seq(Numbered)
  PROVE  s \in Seq(Item)
<1>1. s \in [1 .. Len(s) -> Item]
  BY DEF Item
<1> QED
  BY <1>1

(* What is shown to those who wait for what p prints, after a step. *)
OnMore(place, more) == ItemsOf(shown[out]) \union (IF place = out THEN ItemsOf(more) ELSE {})

LEMMA Grows ==
  ASSUME StreamInv, NEW p \in Procs, procs[p].at \in Live, NEW r \in Process,
         r.at \notin Before, NEW place \in Places, NEW more \in Seq(Item),
         StepOf(p, r, place, more),
         p = "child" => (r.quiet /\ r.at # "exit" => procs.child.quiet),
         Quiet' => OnceMore(p, r, place, more),
         ProcInv(r, OnMore(place, more)),
         Upto(more, pieces'), Upto(r.buffer, pieces'),
         AllAfter(more, ItemsOf(shown[out]))
  PROVE  StreamInv'
<1>1. /\ procs \in [Procs -> Process] /\ shown \in [Places -> Seq(Item)] /\ pieces \in Nat
      /\ out \in {"tty", "file", "none"} /\ redirects \in BOOLEAN
  BY DEF StreamInv, StreamKinds
<1>2. procs.parent.at \notin Before /\ out \in Places
  BY Running
<1>3. /\ procs'[p] = r /\ procs' \in [Procs -> Process]
      /\ \A q \in Procs : q # p => procs'[q] = procs[q]
  BY <1>1 DEF StepOf
<1>4. /\ pieces' \in Nat /\ pieces <= pieces' /\ redirects' = redirects /\ out' = out
      /\ shown' = [shown EXCEPT ![place] = @ \o more]
  BY <1>1 DEF StepOf
<1>5. FirstIn(shown, out)
  BY <1>1, <1>2, FirstIs DEF StreamInv, PrintedFirst
<1>6. /\ shown' \in [Places -> Seq(Item)] /\ FirstIn(shown', out)
      /\ \A q \in Places : ItemsOf(shown[q]) \subseteq ItemsOf(shown'[q])
      /\ ItemsOf(shown'[place]) = ItemsOf(shown[place]) \union ItemsOf(more)
  <2>1. shown' = MoreAt(shown, place, more)
    BY <1>4 DEF MoreAt
  <2>2. ShownKind(shown) /\ out \in Places
    BY <1>1, <1>2 DEF ShownKind
  <2>3. AllAfter(more, ItemsOf(shown[out]))
    OBVIOUS
  <2>4. /\ ShownKind(MoreAt(shown, place, more))
        /\ FirstIn(MoreAt(shown, place, more), out)
        /\ AtLeast(shown, MoreAt(shown, place, more))
        /\ ItemsOf(MoreAt(shown, place, more)[place]) = ItemsOf(shown[place]) \union ItemsOf(more)
    BY <1>5, <2>2, <2>3, FirstStep
  <2> QED
    BY <2>1, <2>4, Zenon DEF AtLeast, ShownKind
<1>7. StreamKinds'
  BY <1>1, <1>3, <1>4, <1>6 DEF StreamKinds
<1>8. procs'["parent"].at \notin Before /\ procs'["child"].at \notin {"open", "failed"}
  BY <1>2, <1>3 DEF StreamInv, OutInv, Procs, Before
<1>9. OutInv'
  BY <1>2, <1>4, <1>8 DEF StreamInv, OutInv, Before
<1>10. OnMore(place, more) \subseteq ItemsOf(shown'[out])
  BY <1>2, <1>6 DEF OnMore
<1>11. ProcInv(r, ItemsOf(shown'[out]))
  BY <1>10, ProcMore
<1>12. \A q \in Procs : procs'[q].at \notin Before => ProcInv(procs'[q], ItemsOf(shown'[out]))
  <2> SUFFICES ASSUME NEW q \in Procs, procs'[q].at \notin Before, q # p
               PROVE  ProcInv(procs'[q], ItemsOf(shown'[out]))
    BY <1>3, <1>11
  <2>1. procs'[q] = procs[q]
    BY <1>3
  <2>2. ProcInv(procs[q], ItemsOf(shown[out]))
    BY <2>1 DEF StreamInv
  <2>3. ItemsOf(shown[out]) \subseteq ItemsOf(shown'[out])
    BY <1>2, <1>6
  <2> QED
    BY <2>1, <2>2, <2>3, ProcMore
<1>13. \A q \in Procs : procs'[q].at \in Before => ProcInv(procs'[q], {})
  BY <1>3, Zenon DEF StreamInv
<1>14. \A q \in Places : Upto(shown'[q], pieces')
  <2> SUFFICES ASSUME NEW q \in Places
               PROVE  Upto(shown'[q], pieces')
    OBVIOUS
  <2>1. PICK s \in Seq(Item) : s = shown[q]
    BY <1>1
  <2>2. Upto(s, pieces)
    BY <2>1 DEF StreamInv
  <2>3. Upto(s, pieces') /\ Upto(s \o more, pieces')
    BY <1>1, <1>4, <2>2, UptoJoin
  <2>4. shown'[q] = s \/ shown'[q] = s \o more
    BY <1>1, <1>4, <2>1
  <2> QED
    BY <2>3, <2>4
<1>15. \A q \in Procs : Upto(procs'[q].buffer, pieces')
  <2> SUFFICES ASSUME NEW q \in Procs, q # p
               PROVE  Upto(procs'[q].buffer, pieces')
    BY <1>3
  <2>1. PICK s \in Seq(Item) : s = procs[q].buffer
    <3>1. procs[q].buffer \in Seq(Numbered)
      BY <1>1 DEF Process
    <3> QED
      BY <3>1, NumberedSeq, Zenon
  <2>2. Upto(s, pieces)
    BY <2>1 DEF StreamInv
  <2>3. Upto(s, pieces')
    BY <1>1, <1>4, <2>2, UptoJoin
  <2> QED
    BY <1>3, <2>1, <2>3
<1>16. OnceInv'
  BY OnceKept
<1>17. PrintedFirst'
  BY <1>2, <1>4, <1>6, FirstIs DEF PrintedFirst
<1> QED
  BY <1>4, <1>7, <1>9, <1>12, <1>13, <1>14, <1>15, <1>16, <1>17, Zenon DEF StreamInv

LEMMA NothingMore ==
  ASSUME StreamKinds, NEW place \in Places
  PROVE  [shown EXCEPT ![place] = @ \o <<>>] = shown
<1>1. shown[place] \in Seq(Item) /\ shown = [q \in Places |-> shown[q]]
  BY DEF StreamKinds
<1>2. shown[place] \o <<>> = shown[place]
  BY <1>1
<1> QED
  BY <1>1, <1>2

LEMMA NoItems ==
  /\ <<>> \in Seq(Item) /\ <<>> \in Seq(Numbered) /\ ItemsOf(<<>>) = {} /\ Distinct(<<>>)
  /\ \A z : Upto(<<>>, z)
  /\ \A on : AllAfter(<<>>, on)
BY DEF ItemsOf, Distinct, Upto, AllAfter

LEMMA OneItem ==
  ASSUME NEW i \in Item
  PROVE  <<i>> \in Seq(Item) /\ ItemsOf(<<i>>) = {i} /\ Distinct(<<i>>)
<1>1. DOMAIN <<i>> = {1} /\ <<i>>[1] = i
  OBVIOUS
<1> QED
  BY <1>1 DEF ItemsOf, Distinct

(* What of a buffer arrives, and what does not. *)
LEMMA PartIs ==
  ASSUME NEW store \in Seq(Numbered), NEW m \in 0 .. Len(store)
  PROVE  /\ SubSeq(store, 1, m) \in Seq(Numbered) /\ Rest(store, m) \in Seq(Numbered)
         /\ ItemsOf(store) = ItemsOf(SubSeq(store, 1, m)) \union ItemsOf(Rest(store, m))
         /\ Distinct(store) =>
              /\ Distinct(SubSeq(store, 1, m)) /\ Distinct(Rest(store, m))
              /\ \A i \in ItemsOf(Rest(store, m)) : i \notin ItemsOf(SubSeq(store, 1, m))
         /\ \A z : Upto(store, z) => Upto(SubSeq(store, 1, m), z) /\ Upto(Rest(store, m), z)
<1>1. PICK front : front = SubSeq(store, 1, m)
  OBVIOUS
<1>2. PICK rest : rest = Rest(store, m)
  OBVIOUS
<1>3. PICK a \in Nat : a = Len(store) /\ m \in 0 .. a /\ DOMAIN store = 1 .. a
  OBVIOUS
<1>4. /\ front \in Seq(Numbered) /\ DOMAIN front = 1 .. m
      /\ \A k \in 1 .. m : k \in 1 .. a /\ front[k] = store[k]
  BY <1>1, <1>3
<1>5. /\ rest \in Seq(Numbered) /\ DOMAIN rest = 1 .. a - m
      /\ \A k \in 1 .. a - m : k + m \in 1 .. a /\ k + m > m /\ rest[k] = store[k + m]
  BY <1>2, <1>3 DEF Rest
<1>6. \A k \in 1 .. a : k \in 1 .. m \/ (k - m \in 1 .. a - m /\ store[k] = rest[k - m])
  BY <1>3, <1>5
<1>7. \A k \in 1 .. a : "no" \in DOMAIN store[k]
  <2>1. \A k \in 1 .. a : store[k] \in Numbered
    BY <1>3
  <2> QED
    BY <2>1, ItemIs DEF Item
<1>8. ItemsOf(store) = ItemsOf(front) \union ItemsOf(rest)
  <2>1. ItemsOf(front) \subseteq ItemsOf(store) /\ ItemsOf(rest) \subseteq ItemsOf(store)
    BY <1>3, <1>4, <1>5 DEF ItemsOf
  <2>2. ASSUME NEW k \in 1 .. a
        PROVE  store[k] \in ItemsOf(front) \union ItemsOf(rest)
    <3>1. CASE k \in 1 .. m
      BY <1>4, <3>1 DEF ItemsOf
    <3>2. CASE k - m \in 1 .. a - m /\ store[k] = rest[k - m]
      BY <1>5, <3>2, Zenon DEF ItemsOf
    <3> QED
      BY <1>6, <3>1, <3>2
  <2>3. ItemsOf(store) \subseteq ItemsOf(front) \union ItemsOf(rest)
    BY <1>3, <2>2 DEF ItemsOf
  <2> QED
    BY <2>1, <2>3
<1>9. ASSUME Distinct(store)
      PROVE  /\ Distinct(front) /\ Distinct(rest)
             /\ \A i \in ItemsOf(rest) : i \notin ItemsOf(front)
  <2>1. \A j, k \in 1 .. a : j # k => store[j] # store[k]
    BY <1>3, <1>7, <1>9, Zenon DEF Distinct
  <2>2. Distinct(front)
    BY <1>4, <2>1, Zenon DEF Distinct
  <2>3. \A j, k \in 1 .. a - m : j # k => j + m # k + m
    BY <1>3
  <2>4. Distinct(rest)
    BY <1>5, <2>1, <2>3, Zenon DEF Distinct
  <2>5. \A j \in 1 .. a - m, k \in 1 .. m : j + m # k
    BY <1>3
  <2>6. \A j \in 1 .. a - m, k \in 1 .. m : rest[j] # front[k]
    BY <1>4, <1>5, <2>1, <2>5, Zenon
  <2>7. \A i \in ItemsOf(rest) : i \notin ItemsOf(front)
    BY <1>4, <1>5, <2>6 DEF ItemsOf
  <2> QED
    BY <2>2, <2>4, <2>7
<1>10. ASSUME NEW z, Upto(store, z)
       PROVE  Upto(front, z) /\ Upto(rest, z)
  BY <1>3, <1>4, <1>5, <1>10, Zenon DEF Upto
<1> QED
  BY <1>1, <1>2, <1>4, <1>5, <1>8, <1>9, <1>10

(* r with left in its buffer, and without what is gone. *)
Leaves(r, left, gone) == [r EXCEPT !.buffer = left, !.printed = @ \ gone]

LEMMA WrittenOf ==
  ASSUME NEW r, NEW store, NEW m, NEW w \in Written(r, store, m)
  PROVE  \E left : /\ left = <<>> \/ left = Rest(store, m)
                   /\ w = Leaves(r, left, ItemsOf(Rest(store, m)))
<1>1. Written(r, store, m) =
        {Leaves(r, left, ItemsOf(Rest(store, m))) : left \in {<<>>, Rest(store, m)}}
  BY DEF Written, Leaves
<1>2. PICK left \in {<<>>, Rest(store, m)} : w = Leaves(r, left, ItemsOf(Rest(store, m)))
  BY <1>1
<1> QED
  BY <1>2, Zenon

LEMMA RestOfAll ==
  ASSUME NEW s \in Seq(Numbered)
  PROVE  SubSeq(s, 1, 0) = <<>> /\ Rest(s, 0) = s
<1>1. SubSeq(s, 1, Len(s)) = s
  BY SubSeqFull
<1> QED
  BY <1>1, SubSeqEmpty DEF Rest

LEMMA NextPieceIs ==
  ASSUME StreamInv, NEW s \in Seq(Numbered), Upto(s, pieces)
  PROVE  /\ Piece \in Numbered /\ Piece.no > pieces /\ pieces + 1 \in Nat /\ pieces + 1 >= pieces
         /\ Piece \notin ItemsOf(s)
         /\ Append(s, Piece) \in Seq(Numbered)
         /\ ItemsOf(Append(s, Piece)) = ItemsOf(s) \union {Piece}
         /\ Upto(Append(s, Piece), pieces + 1)
         /\ Distinct(s) => Distinct(Append(s, Piece))
<1>1. pieces \in Nat /\ Piece.no = pieces + 1
  BY DEF StreamInv, StreamKinds, Piece
<1>2. Piece \in Numbered
  BY <1>1 DEF Piece, Numbered
<1>3. PICK i \in Numbered : i = Piece
  BY <1>2
<1>4. i \in Item /\ s \in Seq(Item)
  BY NumberedSeq DEF Item
<1>5. <<i>> \in Seq(Item) /\ ItemsOf(<<i>>) = {i} /\ Distinct(<<i>>)
  BY <1>4, OneItem
<1>6. Append(s, i) = s \o <<i>>
  OBVIOUS
<1>7. ItemsOf(s \o <<i>>) = ItemsOf(s) \union {i}
  <2>1. PICK u \in Seq(Item) : u = <<i>>
    BY <1>5
  <2>2. ItemsOf(s \o u) = ItemsOf(s) \union ItemsOf(u)
    BY <1>4, ItemsJoin
  <2> QED
    BY <1>5, <2>1, <2>2
<1>8. i \notin ItemsOf(s)
  <2> SUFFICES ASSUME i \in ItemsOf(s)
               PROVE  FALSE
    OBVIOUS
  <2>1. i.no <= pieces
    BY UptoItems
  <2> QED
    BY <1>1, <1>3, <2>1
<1>9. Upto(s \o <<i>>, pieces + 1)
  <2>1. PICK y \in Nat, z \in Nat : y = pieces /\ z = pieces + 1
    BY <1>1
  <2>2. Upto(s, y) /\ y <= z
    BY <2>1
  <2>3. Upto(<<i>>, z)
    BY <1>1, <1>3, <2>1 DEF Upto
  <2>4. Upto(s \o <<i>>, z)
    BY <1>4, <1>5, <2>2, <2>3, UptoJoin
  <2> QED
    BY <2>1, <2>4
<1>10. Distinct(s) => Distinct(s \o <<i>>)
  BY <1>4, <1>5, <1>8, DistinctJoin
<1>11. Append(s, i) \in Seq(Numbered)
  OBVIOUS
<1> QED
  BY <1>1, <1>3, <1>6, <1>7, <1>8, <1>9, <1>10, <1>11

LEMMA ProcOf ==
  ASSUME StreamInv, NEW p \in Procs, procs[p].at \in Live
  PROVE  /\ procs[p] \in Process /\ ProcInv(procs[p], ItemsOf(shown[out]))
         /\ procs[p].buffer \in Seq(Numbered) /\ procs[p].buffer \in Seq(Item)
         /\ Upto(procs[p].buffer, pieces)
         /\ \A i \in ItemsOf(procs[p].buffer) : i \in Numbered
         /\ StreamKinds /\ pieces \in Nat
<1>1. procs[p] \in Process /\ StreamKinds /\ pieces \in Nat
  BY DEF StreamInv, StreamKinds
<1>2. ProcInv(procs[p], ItemsOf(shown[out])) /\ Upto(procs[p].buffer, pieces)
  BY DEF StreamInv, Live, Before
<1>3. PICK s \in Seq(Numbered) : s = procs[p].buffer
  BY <1>1 DEF Process
<1>4. s \in Seq(Item)
  BY NumberedSeq
<1>5. \A i \in ItemsOf(s) : i \in Numbered
  BY DEF ItemsOf
<1> QED
  BY <1>1, <1>2, <1>3, <1>4, <1>5

LEMMA BufferOnce ==
  ASSUME StreamInv, Quiet, procs.parent.at \notin Before
  PROVE  Distinct(procs.parent.buffer)
BY DEF StreamInv, OnceInv

(* A step that shows nothing, and keeps what the buffer holds or drops it. *)
LEMMA SilentKeeps ==
  ASSUME StreamInv, NEW p \in Procs, procs[p].at \in Live, NEW r \in Process,
         r.at \notin Before, procs' = [procs EXCEPT ![p] = r],
         UNCHANGED <<redirects, out, shown, pieces>>,
         r.buffer = procs[p].buffer \/ r.buffer = <<>>,
         r.quiet => procs[p].quiet, ProcInv(r, ItemsOf(shown[out]))
  PROVE  StreamInv'
<1>1. /\ procs[p] \in Process /\ StreamKinds /\ pieces \in Nat
      /\ Upto(procs[p].buffer, pieces)
      /\ \A i \in ItemsOf(procs[p].buffer) : i \in Numbered
  BY ProcOf
<1>2. PICK more : more = <<>>
  OBVIOUS
<1>3. /\ more \in Seq(Item) /\ ItemsOf(more) = {} /\ Distinct(more)
      /\ Upto(more, pieces') /\ AllAfter(more, ItemsOf(shown[out]))
  BY <1>2, NoItems
<1>4. StepOf(p, r, "tty", more)
  <2>1. [shown EXCEPT !["tty"] = @ \o <<>>] = shown
    BY <1>1, NothingMore DEF Places
  <2> QED
    BY <1>1, <1>2, <2>1 DEF StepOf
<1>5. Upto(r.buffer, pieces')
  BY <1>1, NoItems
<1>6. ProcInv(r, OnMore("tty", more))
  <2>1. OnMore("tty", more) = ItemsOf(shown[out])
    BY <1>3 DEF OnMore
  <2> QED
    BY <2>1
<1>7. p = "child" => (r.quiet /\ r.at # "exit" => procs.child.quiet)
  OBVIOUS
<1>8. ASSUME Quiet'
      PROVE  OnceMore(p, r, "tty", more)
  <2>1. CASE p = "child"
    BY <1>3, <2>1 DEF OnceMore
  <2>2. CASE p = "parent"
    <3>1. procs'.child = procs.child
      BY <1>1, <2>2 DEF StreamKinds, Procs
    <3>2. Quiet
      BY <1>8, <3>1 DEF Quiet
    <3>3. Distinct(procs.parent.buffer)
      BY <2>2, <3>2, BufferOnce DEF Live, Before
    <3>4. Distinct(r.buffer)
      BY <2>2, <3>3, NoItems
    <3>5. ItemsOf(r.buffer) \subseteq ItemsOf(procs.parent.buffer)
      BY <2>2, NoItems
    <3> QED
      BY <1>3, <2>2, <3>4, <3>5, Zenon DEF OnceMore
  <2> QED
    BY <2>1, <2>2 DEF Procs
<1>9. "tty" \in Places
  BY DEF Places
<1> QED
  BY <1>3, <1>4, <1>5, <1>6, <1>7, <1>8, <1>9, Grows

(* A step that writes store, with which the buffer has become new or not, to *)
(* descriptor 1; the first m of it arrive.                                 *)
LEMMA WrittenKeeps ==
  ASSUME StreamInv, NEW p \in Procs, procs[p].at \in Live, NEW r \in Process,
         r.at \notin Before, procs' = [procs EXCEPT ![p] = r],
         UNCHANGED <<redirects, out>>, pieces' \in Nat, pieces' >= pieces,
         NEW store \in Seq(Numbered), NEW m \in 0 .. Len(store), Arrives(store, m),
         r.buffer = <<>> \/ r.buffer = Rest(store, m), Upto(store, pieces'),
         Distinct(procs[p].buffer) => Distinct(store),
         \A i \in ItemsOf(store) : i \in ItemsOf(procs[p].buffer) \/ i.no > pieces,
         r.quiet => procs[p].quiet, p = "child" => ~Quiet',
         ProcInv(r, ItemsOf(shown[out]) \union ItemsOf(SubSeq(store, 1, m)))
  PROVE  StreamInv'
<1>1. /\ procs[p] \in Process /\ StreamKinds
  BY ProcOf
<1>2. PICK more \in Seq(Numbered), left \in Seq(Numbered) :
        more = SubSeq(store, 1, m) /\ left = Rest(store, m)
  BY PartIs
<1>3. /\ ItemsOf(store) = ItemsOf(more) \union ItemsOf(left)
      /\ Distinct(store) =>
           /\ Distinct(more) /\ Distinct(left)
           /\ \A i \in ItemsOf(left) : i \notin ItemsOf(more)
      /\ Upto(more, pieces') /\ Upto(left, pieces')
  BY <1>2, PartIs
<1>4. more \in Seq(Item) /\ \A i \in ItemsOf(more) : i \in Numbered
  <2>1. more \in Seq(Item)
    BY NumberedSeq
  <2> QED
    BY <2>1 DEF ItemsOf
<1>5. out \in Places
  BY Running
<1>6. StepOf(p, r, out, more)
  BY <1>1, <1>2, <1>5 DEF StepOf, Arrives, Places
<1>7. Upto(r.buffer, pieces')
  BY <1>2, <1>3, NoItems
<1>8. ProcInv(r, OnMore(out, more))
  BY <1>2 DEF OnMore
<1>9. AllAfter(more, ItemsOf(shown[out]))
  BY <1>4, ItemIs DEF AllAfter, SaidAfter
<1>10. ASSUME Quiet'
       PROVE  OnceMore(p, r, out, more)
  <2>1. p = "parent"
    BY <1>10 DEF Procs
  <2>2. procs'.child = procs.child
    BY <1>1, <2>1 DEF StreamKinds, Procs
  <2>3. Quiet
    BY <1>10, <2>2 DEF Quiet
  <2>4. Distinct(store)
    BY <2>1, <2>3, BufferOnce DEF Live, Before
  <2>5. /\ Distinct(r.buffer) /\ ItemsOf(r.buffer) \subseteq ItemsOf(left)
    BY <1>2, <1>3, <2>4, NoItems
  <2>6. \A i \in ItemsOf(more) \union ItemsOf(r.buffer) :
           i \in ItemsOf(procs.parent.buffer) \/ i.no > pieces
    BY <1>3, <2>1, <2>5, Zenon
  <2> QED
    BY <1>3, <2>1, <2>4, <2>5, <2>6, Zenon DEF OnceMore
<1>11. p = "child" => (r.quiet /\ r.at # "exit" => procs.child.quiet)
  OBVIOUS
<1> QED
  BY <1>3, <1>4, <1>5, <1>6, <1>7, <1>8, <1>9, <1>10, <1>11, Grows

LEMMA ReportKeeps ==
  ASSUME StreamInv, NEW p \in Procs, NEW c \in Reports, Report(p, c)
  PROVE  StreamInv'
<1>1. procs[p].at = "run" /\ procs[p].at \in Live
  BY DEF Report, Live
<1>2. procs[p] \in Process /\ ProcInv(procs[p], ItemsOf(shown[out])) /\ StreamKinds
  BY <1>1, ProcOf
<1>3. PICK q \in Process : q = procs[p]
  BY <1>2
<1>4. PICK r : r = [q EXCEPT !.at = "flush", !.fn = c, !.errno = AnyErr, !.saved = AnyErr,
                             !.quiet = @ /\ c = "err_exit"]
  OBVIOUS
<1>5. /\ r.at = "flush" /\ r.fn = c /\ r.buffer = q.buffer /\ r.printed = q.printed
      /\ r.quiet <=> q.quiet /\ c = "err_exit"
  BY <1>4 DEF Process
<1>6. r \in Process
  BY <1>4 DEF Process, Live, Calls
<1>7. procs' = [procs EXCEPT ![p] = r]
  BY <1>2, <1>3, <1>4 DEF Report, StreamKinds
<1>8. ProcInv(r, ItemsOf(shown[out]))
  BY <1>1, <1>2, <1>3, <1>5 DEF ProcInv, Live
<1> QED
  BY <1>1, <1>3, <1>5, <1>6, <1>7, <1>8, SilentKeeps DEF Report, Before

LEMMA ReturnKeeps ==
  ASSUME StreamInv, NEW p \in Procs, Return(p)
  PROVE  StreamInv'
<1>1. procs[p].at = "end" /\ procs[p].at \in Live
  BY DEF Return, Live
<1>2. procs[p] \in Process /\ ProcInv(procs[p], ItemsOf(shown[out])) /\ StreamKinds
  BY <1>1, ProcOf
<1>3. PICK q \in Process : q = procs[p]
  BY <1>2
<1>4. PICK r : r = [q EXCEPT !.at = "run", !.errno = q.saved]
  OBVIOUS
<1>5. /\ r.at = "run" /\ r.buffer = q.buffer /\ r.printed = q.printed /\ r.quiet = q.quiet
      /\ r.errno = r.saved
  BY <1>4 DEF Process
<1>6. r \in Process
  BY <1>4 DEF Process, Live
<1>7. procs' = [procs EXCEPT ![p] = r]
  BY <1>2, <1>3, <1>4 DEF Return, StreamKinds, Restored
<1>8. ProcInv(r, ItemsOf(shown[out]))
  BY <1>1, <1>2, <1>3, <1>5 DEF ProcInv, Live
<1> QED
  BY <1>1, <1>3, <1>5, <1>6, <1>7, <1>8, SilentKeeps DEF Return, Before

LEMMA FlushKeeps ==
  ASSUME StreamInv, NEW p \in Procs, Flush(p)
  PROVE  StreamInv'
<1>1. procs[p].at = "flush" /\ procs[p].at \in Live
  BY DEF Flush, Live
<1>2. procs[p] \in Process /\ ProcInv(procs[p], ItemsOf(shown[out])) /\ StreamKinds
  BY <1>1, ProcOf
<1>3. PICK q \in Process : q = procs[p]
  BY <1>2
<1>4. CASE Flushes(q.fn)
  <2>1. PICK store \in Seq(Numbered) : store = q.buffer /\ Upto(store, pieces)
    BY <1>1, <1>3, ProcOf
  <2>2. PICK err \in Errors, m \in 0 .. Len(store) :
          /\ \E w \in Written(q, store, m) :
               procs' = [procs EXCEPT ![p] = [w EXCEPT !.at = "say", !.errno = err]]
          /\ Arrives(store, m)
    BY <1>3, <1>4, <2>1 DEF Flush
  <2>3. PICK left, r :
          /\ left = <<>> \/ left = Rest(store, m)
          /\ r = [Leaves(q, left, ItemsOf(Rest(store, m))) EXCEPT !.at = "say", !.errno = err]
          /\ procs' = [procs EXCEPT ![p] = r]
    <3>1. PICK w \in Written(q, store, m) :
            procs' = [procs EXCEPT ![p] = [w EXCEPT !.at = "say", !.errno = err]]
      BY <2>2, Zenon
    <3>2. PICK left : /\ left = <<>> \/ left = Rest(store, m)
                      /\ w = Leaves(q, left, ItemsOf(Rest(store, m)))
      BY WrittenOf
    <3> QED
      BY <3>1, <3>2, Zenon
  <2>4. /\ Rest(store, m) \in Seq(Numbered) /\ <<>> \in Seq(Numbered)
        /\ ItemsOf(store) = ItemsOf(SubSeq(store, 1, m)) \union ItemsOf(Rest(store, m))
    BY PartIs, NoItems
  <2>5. left \in Seq(Numbered)
    BY <2>3, <2>4
  <2>6. /\ r.at = "say" /\ r.buffer = left /\ r.quiet = q.quiet /\ r.fn = q.fn
        /\ r.printed = q.printed \ ItemsOf(Rest(store, m))
        /\ r \in Process
    BY <2>3, <2>5 DEF Process, Live, Leaves
  <2>7. ~q.quiet
    BY <1>1, <1>2, <1>3, <1>4 DEF ProcInv, Live, Flushes
  <2>8. ProcInv(r, ItemsOf(shown[out]) \union ItemsOf(SubSeq(store, 1, m)))
    <3>1. q.printed \subseteq ItemsOf(shown[out]) \union ItemsOf(store)
      BY <1>1, <1>2, <1>3, <2>1 DEF ProcInv, Live
    <3>2. r.printed \subseteq ItemsOf(shown[out]) \union ItemsOf(SubSeq(store, 1, m))
      BY <2>4, <2>6, <3>1
    <3> QED
      BY <2>6, <2>7, <3>2 DEF ProcInv, Live
  <2>9. p = "child" => ~Quiet'
    BY <1>2, <2>3, <2>6, <2>7 DEF Quiet, StreamKinds
  <2>10. /\ UNCHANGED <<redirects, out, pieces>> /\ pieces' \in Nat /\ pieces' >= pieces
    <3>1. UNCHANGED <<redirects, out, pieces>>
      BY DEF Flush
    <3>2. pieces \in Nat
      BY <1>2 DEF StreamKinds
    <3> QED
      BY <3>1, <3>2
  <2>11. r.buffer = <<>> \/ r.buffer = Rest(store, m)
    BY <2>3, <2>6
  <2>12. r.at \notin Before /\ (r.quiet => procs[p].quiet) /\ Upto(store, pieces')
    BY <1>3, <2>1, <2>6, <2>10 DEF Before
  <2> QED
    BY <1>1, <1>3, <2>1, <2>2, <2>3, <2>6, <2>8, <2>9, <2>10, <2>11, <2>12, WrittenKeeps
<1>5. CASE ~Flushes(q.fn)
  <2>1. PICK r : r = [q EXCEPT !.at = "say"]
    OBVIOUS
  <2>2. /\ r.at = "say" /\ r.buffer = q.buffer /\ r.printed = q.printed /\ r.quiet = q.quiet
        /\ r.fn = q.fn
    BY <2>1 DEF Process
  <2>3. r \in Process
    BY <2>1 DEF Process, Live
  <2>4. procs' = [procs EXCEPT ![p] = r] /\ shown' = shown
    BY <1>2, <1>3, <1>5, <2>1 DEF Flush, StreamKinds
  <2>5. ProcInv(r, ItemsOf(shown[out]))
    BY <1>1, <1>2, <1>3, <1>5, <2>2 DEF ProcInv, Live, Flushes
  <2> QED
    BY <1>1, <1>3, <2>2, <2>3, <2>4, <2>5, SilentKeeps DEF Flush, Before
<1> QED
  BY <1>4, <1>5

LEMMA TerminateKeeps ==
  ASSUME StreamInv, NEW p \in Procs, terminate(p)
  PROVE  StreamInv'
<1>1. procs[p].at \in Live
  BY DEF terminate, Live
<1>2. procs[p] \in Process /\ ProcInv(procs[p], ItemsOf(shown[out])) /\ StreamKinds
  BY <1>1, ProcOf
<1>3. PICK q \in Process : q = procs[p]
  BY <1>2
<1>4. UNCHANGED <<redirects, out, pieces>>
  BY DEF terminate
<1>5. ASSUME Exits(p)
      PROVE  StreamInv'
  <2>1. PICK store \in Seq(Numbered) : store = q.buffer /\ Upto(store, pieces)
    BY <1>1, <1>3, ProcOf
  <2>2. PICK m \in 0 .. Len(store) :
          /\ procs' = [procs EXCEPT ![p].at = "exit", ![p].fn = "none", ![p].buffer = <<>>,
                         ![p].printed = @ \ ItemsOf(Rest(store, m))]
          /\ Arrives(store, m)
    BY <1>3, <1>5, <2>1 DEF Exits
  <2>3. PICK r : r = [q EXCEPT !.at = "exit", !.fn = "none", !.buffer = <<>>,
                               !.printed = @ \ ItemsOf(Rest(store, m))]
    OBVIOUS
  <2>4. ItemsOf(store) = ItemsOf(SubSeq(store, 1, m)) \union ItemsOf(Rest(store, m))
    BY PartIs
  <2>5. /\ r.at = "exit" /\ r.buffer = <<>> /\ r.quiet = q.quiet
        /\ r.printed = q.printed \ ItemsOf(Rest(store, m))
        /\ r \in Process
    BY <2>3, NoItems DEF Process, Calls
  <2>6. procs' = [procs EXCEPT ![p] = r]
    BY <1>2, <1>3, <2>2, <2>3 DEF StreamKinds
  <2>7. ProcInv(r, ItemsOf(shown[out]) \union ItemsOf(SubSeq(store, 1, m)))
    <3>1. q.printed \subseteq ItemsOf(shown[out]) \union ItemsOf(store)
      BY <1>1, <1>2, <1>3, <2>1 DEF ProcInv
    <3>2. r.printed \subseteq ItemsOf(shown[out]) \union ItemsOf(SubSeq(store, 1, m))
      BY <2>4, <2>5, <3>1
    <3> QED
      BY <2>5, <3>2 DEF ProcInv, Live
  <2>8. p = "child" => ~Quiet'
    BY <1>2, <2>5, <2>6 DEF Quiet, StreamKinds
  <2>9. r.at \notin Before /\ (r.quiet => procs[p].quiet) /\ Upto(store, pieces')
        /\ pieces' \in Nat /\ pieces' >= pieces
    BY <1>2, <1>3, <1>4, <2>1, <2>5 DEF Before, StreamKinds
  <2> QED
    BY <1>1, <1>3, <1>4, <2>1, <2>2, <2>5, <2>6, <2>7, <2>8, <2>9, WrittenKeeps
<1>6. ASSUME NEW at \in {"_exit", "abort"}, Stops(p, at)
      PROVE  StreamInv'
  <2>1. PICK r : r = [q EXCEPT !.at = at, !.buffer = <<>>]
    OBVIOUS
  <2>2. /\ r.at = at /\ r.buffer = <<>> /\ r.printed = q.printed /\ r.quiet = q.quiet
    BY <2>1 DEF Process
  <2>3. r \in Process
    BY <2>1, NoItems DEF Process
  <2>4. procs' = [procs EXCEPT ![p] = r] /\ shown' = shown
    BY <1>2, <1>3, <1>6, <2>1 DEF Stops, StreamKinds
  <2>5. ProcInv(r, ItemsOf(shown[out]))
    BY <2>2 DEF ProcInv, Live
  <2> QED
    BY <1>1, <1>3, <1>4, <2>2, <2>3, <2>4, <2>5, SilentKeeps DEF Before
<1> QED
  BY <1>5, <1>6 DEF terminate

LEMMA SayKeeps ==
  ASSUME StreamInv, NEW p \in Procs, Say(p)
  PROVE  StreamInv'
<1>1. procs[p].at \in {"say", "text"} /\ procs[p].at \in Live
  BY DEF Say, Live
<1>2. procs[p] \in Process /\ ProcInv(procs[p], ItemsOf(shown[out])) /\ StreamKinds
  BY <1>1, ProcOf
<1>3. PICK q \in Process : q = procs[p]
  BY <1>2
<1>4. PICK i \in Message : i = [by |-> p, fn |-> q.fn, sofar |-> q.printed]
  BY DEF Message, Process
<1>5. PICK more :
        \/ more = <<i>> /\ shown' = [shown EXCEPT !.tty = Append(@, i)]
        \/ more = <<>> /\ UNCHANGED shown
  <2>1. \/ shown' = [shown EXCEPT !.tty = Append(@, i)]
        \/ UNCHANGED shown
    BY <1>3, <1>4 DEF Say
  <2> QED
    BY <2>1, Zenon
<1>6. /\ more \in Seq(Item) /\ ItemsOf(more) \subseteq {i} /\ Distinct(more)
      /\ i \notin Numbered
  BY <1>5, ItemIs, OneItem, NoItems DEF Item
<1>7. PICK r : /\ r.at \in {"text", "end"} /\ r = [q EXCEPT !.at = r.at]
               /\ procs' = [procs EXCEPT ![p] = r]
  <2>1. PICK at : /\ at \in {"text", "end"} /\ procs' = [procs EXCEPT ![p].at = at]
    BY DEF Say
  <2>2. PICK r : r = [q EXCEPT !.at = at]
    OBVIOUS
  <2>3. r.at = at
    BY <2>2 DEF Process
  <2> QED
    BY <1>2, <1>3, <2>1, <2>2, <2>3 DEF StreamKinds
<1>8. /\ r.buffer = q.buffer /\ r.printed = q.printed /\ r.quiet = q.quiet /\ r.fn = q.fn
      /\ r \in Process
  BY <1>7 DEF Process, Live
<1>9. StepOf(p, r, "tty", more)
  <2>1. shown' = [shown EXCEPT !["tty"] = @ \o more]
    <3>1. PICK s \in Seq(Item) : s = shown["tty"]
      BY <1>2 DEF StreamKinds, Places
    <3>2. i \in Item /\ Append(s, i) = s \o <<i>>
      BY DEF Item
    <3>3. [shown EXCEPT !["tty"] = @ \o <<>>] = shown
      BY <1>2, NothingMore DEF Places
    <3> QED
      BY <1>5, <3>1, <3>2, <3>3
  <2>2. UNCHANGED <<redirects, out, pieces>>
    BY DEF Say
  <2>3. pieces' \in Nat /\ pieces' >= pieces
    BY <1>2, <2>2 DEF StreamKinds
  <2> QED
    BY <1>7, <2>1, <2>2, <2>3, Zenon DEF StepOf
<1>10. ProcInv(r, OnMore("tty", more))
  <2>1. ProcInv(r, ItemsOf(shown[out]))
    BY <1>1, <1>2, <1>3, <1>7, <1>8 DEF ProcInv, Live
  <2> QED
    BY <2>1, ProcMore DEF OnMore
<1>11. AllAfter(more, ItemsOf(shown[out]))
  <2>1. q.fn # "err_exit" => q.printed \subseteq ItemsOf(shown[out])
    BY <1>1, <1>2, <1>3 DEF ProcInv
  <2> QED
    BY <1>4, <1>6, <2>1 DEF AllAfter, SaidAfter
<1>12. Upto(more, pieces') /\ Upto(r.buffer, pieces')
  <2>1. Upto(more, pieces')
    BY <1>5, <1>6, NoItems DEF Upto
  <2> QED
    BY <1>1, <1>3, <1>8, <2>1, ProcOf DEF Say
<1>13. ASSUME Quiet'
       PROVE  OnceMore(p, r, "tty", more)
  <2>1. CASE p = "child"
    BY <1>6, <2>1 DEF OnceMore
  <2>2. CASE p = "parent"
    <3>1. procs'.child = procs.child
      BY <1>2, <1>7, <2>2 DEF StreamKinds, Procs
    <3>2. Quiet
      BY <1>13, <3>1 DEF Quiet
    <3>3. Distinct(r.buffer)
      BY <1>1, <1>3, <1>8, <2>2, <3>2, BufferOnce DEF Live, Before
    <3>4. \A j \in ItemsOf(r.buffer) : j \in Numbered
      BY <1>1, <1>3, <1>8, ProcOf
    <3> QED
      BY <1>3, <1>6, <1>8, <2>2, <3>3, <3>4, Zenon DEF OnceMore
  <2> QED
    BY <2>1, <2>2 DEF Procs
<1>14. /\ p = "child" => (r.quiet /\ r.at # "exit" => procs.child.quiet)
       /\ r.at \notin Before /\ "tty" \in Places
  BY <1>3, <1>7, <1>8 DEF Before, Places
<1> QED
  BY <1>1, <1>6, <1>8, <1>9, <1>10, <1>11, <1>12, <1>13, <1>14, Grows

LEMMA WriteKeeps ==
  ASSUME StreamInv, NEW p \in Procs, Write(p)
  PROVE  StreamInv'
<1>1. procs[p].at = "run" /\ procs[p].at \in Live
  BY DEF Write, Live
<1>2. /\ procs[p] \in Process /\ ProcInv(procs[p], ItemsOf(shown[out]))
      /\ Upto(procs[p].buffer, pieces) /\ procs[p].buffer \in Seq(Numbered)
      /\ StreamKinds /\ pieces \in Nat
  BY <1>1, ProcOf
<1>3. PICK q \in Process : q = procs[p]
  BY <1>2
<1>4. PICK b \in Seq(Numbered) : b = q.buffer /\ Upto(b, pieces)
  BY <1>2, <1>3
<1>5. PICK i \in Numbered : i = Piece
  BY <1>4, NextPieceIs
<1>6. i.no > pieces /\ i.no = pieces + 1 /\ pieces' = pieces + 1 /\ pieces' \in Nat
  BY <1>2, <1>5 DEF Write, NextPiece, Piece
<1>7. i \notin ItemsOf(b) /\ \A j \in ItemsOf(b) : j \in Numbered
  <2>1. i \notin ItemsOf(b)
    BY <1>4, <1>5, NextPieceIs
  <2> QED
    BY <2>1 DEF ItemsOf
<1>8. PICK m, more :
         /\ m \in {0, 1} /\ more = SubSeq(<<i>>, 1, m)
         /\ Arrives(<<i>>, m)
  BY <1>5 DEF Write
<1>9. /\ more \in Seq(Item) /\ ItemsOf(more) \subseteq {i} /\ Distinct(more)
      /\ Upto(more, pieces')
  <2>1. /\ <<i>> \in Seq(Numbered) /\ Len(<<i>>) = 1 /\ Upto(<<i>>, pieces')
    BY <1>6 DEF Upto
  <2>2. ItemsOf(<<i>>) = {i} /\ Distinct(<<i>>)
    BY OneItem DEF Item
  <2>3. PICK one \in Seq(Numbered) : one = <<i>> /\ m \in 0 .. Len(one)
    <3>1. m \in 0 .. 1
      BY <1>8
    <3>2. PICK one : one = <<i>>
      OBVIOUS
    <3>3. one \in Seq(Numbered) /\ m \in 0 .. Len(one)
      BY <2>1, <3>1, <3>2
    <3> QED
      BY <3>2, <3>3
  <2>4. /\ SubSeq(one, 1, m) \in Seq(Numbered)
        /\ ItemsOf(SubSeq(one, 1, m)) \subseteq ItemsOf(one)
        /\ Distinct(one) => Distinct(SubSeq(one, 1, m))
        /\ Upto(one, pieces') => Upto(SubSeq(one, 1, m), pieces')
    <3>1. PICK w \in 0 .. Len(one) : w = m
      BY <2>3
    <3>2. ItemsOf(one) = ItemsOf(SubSeq(one, 1, w)) \union ItemsOf(Rest(one, w))
      BY PartIs
    <3>3. /\ SubSeq(one, 1, w) \in Seq(Numbered)
          /\ Distinct(one) => Distinct(SubSeq(one, 1, w))
          /\ Upto(one, pieces') => Upto(SubSeq(one, 1, w), pieces')
      BY PartIs
    <3> QED
      BY <3>1, <3>2, <3>3
  <2> QED
    BY <1>8, <2>1, <2>2, <2>3, <2>4, NumberedSeq
<1>10. PICK r : r = [q EXCEPT !.fn = "none"]
  OBVIOUS
<1>11. /\ r.at = "run" /\ r.buffer = b /\ r.printed = q.printed /\ r.quiet = q.quiet
       /\ r.fn = "none" /\ r \in Process
  BY <1>1, <1>3, <1>4, <1>10 DEF Process, Calls
<1>12. out \in Places
  BY <1>1, Running
<1>13. StepOf(p, r, out, more)
  <2>1. procs' = [procs EXCEPT ![p] = r]
    BY <1>2, <1>3, <1>10 DEF Write, StreamKinds
  <2>2. shown' = [shown EXCEPT ![out] = @ \o more]
    BY <1>8, <1>12 DEF Arrives, Places
  <2>3. redirects' = redirects /\ out' = out
    BY DEF Write
  <2>4. pieces' >= pieces
    BY <1>2, <1>6
  <2> QED
    BY <1>6, <2>1, <2>2, <2>3, <2>4, Zenon DEF StepOf
<1>14. ProcInv(r, OnMore(out, more))
  <2>1. ProcInv(r, ItemsOf(shown[out]))
    BY <1>1, <1>2, <1>3, <1>4, <1>11 DEF ProcInv, Live
  <2> QED
    BY <2>1, ProcMore DEF OnMore
<1>15. Upto(more, pieces') /\ Upto(r.buffer, pieces')
  <2>1. Upto(more, pieces')
    BY <1>9
  <2>2. Upto(b, pieces')
    <3>1. PICK y \in Nat, z \in Nat : y = pieces /\ z = pieces' /\ y <= z
      BY <1>2, <1>6
    <3>2. Upto(b, y) /\ b \in Seq(Item)
      BY <1>4, <3>1, NumberedSeq
    <3>3. Upto(b, z)
      <4>1. Upto(<<>>, z) /\ <<>> \in Seq(Item)
        BY NoItems
      <4> QED
        BY <3>1, <3>2, <4>1, UptoJoin
    <3> QED
      BY <3>1, <3>3
  <2> QED
    BY <1>11, <2>1, <2>2
<1>16. AllAfter(more, ItemsOf(shown[out]))
  BY <1>9, ItemIs DEF AllAfter, SaidAfter
<1>17. ASSUME Quiet'
       PROVE  OnceMore(p, r, out, more)
  <2>1. CASE p = "child"
    BY <1>6, <1>9, <2>1 DEF OnceMore
  <2>2. CASE p = "parent"
    <3>1. procs'.child = procs.child
      BY <1>2, <2>2 DEF Write, StreamKinds, Procs
    <3>2. Quiet
      BY <1>17, <3>1 DEF Quiet
    <3>3. Distinct(b) /\ procs.parent.buffer = b
      BY <1>1, <1>3, <1>4, <2>2, <3>2, BufferOnce DEF Live, Before
    <3> QED
      BY <1>6, <1>7, <1>9, <1>11, <2>2, <3>3, Zenon DEF OnceMore
  <2> QED
    BY <2>1, <2>2 DEF Procs
<1>18. /\ p = "child" => (r.quiet /\ r.at # "exit" => procs.child.quiet)
       /\ r.at \notin Before
  BY <1>3, <1>11 DEF Before
<1> QED
  BY <1>1, <1>9, <1>11, <1>12, <1>13, <1>14, <1>15, <1>16, <1>17, <1>18, Grows

LEMMA PutsKeeps ==
  ASSUME StreamInv, NEW p \in Procs, Puts(p)
  PROVE  StreamInv'
<1>1. procs[p].at = "run" /\ procs[p].at \in Live
  BY DEF Puts, Live
<1>2. /\ procs[p] \in Process /\ ProcInv(procs[p], ItemsOf(shown[out]))
      /\ Upto(procs[p].buffer, pieces) /\ procs[p].buffer \in Seq(Numbered)
      /\ StreamKinds /\ pieces \in Nat
  BY <1>1, ProcOf
<1>3. PICK q \in Process : q = procs[p]
  BY <1>2
<1>4. PICK b \in Seq(Numbered) : b = q.buffer /\ Upto(b, pieces)
  BY <1>2, <1>3
<1>5. PICK i \in Numbered : i = Piece
  BY <1>4, NextPieceIs
<1>6. i.no > pieces /\ pieces' = pieces + 1 /\ pieces' \in Nat /\ pieces' >= pieces
  BY <1>2, <1>5 DEF Puts, NextPiece, Piece
<1>7. PICK full \in Seq(Numbered) :
        /\ full = Append(b, i) /\ ItemsOf(full) = ItemsOf(b) \union {i}
        /\ Upto(full, pieces')
        /\ Distinct(b) => Distinct(full)
  BY <1>4, <1>5, <1>6, NextPieceIs
<1>8. full \in Seq(Item) /\ \A j \in ItemsOf(full) : j \in Numbered
  <2>1. full \in Seq(Item)
    BY NumberedSeq
  <2> QED
    BY <2>1 DEF ItemsOf
<1>9. PICK q0 \in Process : /\ q0.at = "run" /\ q0.buffer = full /\ q0.fn = "none"
                            /\ q0.printed = q.printed \union {i} /\ ~q0.quiet
                            /\ q0 = [q EXCEPT !.buffer = full, !.printed = @ \union {i},
                                              !.quiet = FALSE, !.fn = "none"]
  <2>1. PICK q0 : q0 = [q EXCEPT !.buffer = full, !.printed = @ \union {i},
                                 !.quiet = FALSE, !.fn = "none"]
    OBVIOUS
  <2>2. q0 \in Process
    BY <2>1 DEF Process, Calls
  <2>3. /\ q0.at = "run" /\ q0.buffer = full /\ q0.fn = "none"
        /\ q0.printed = q.printed \union {i} /\ ~q0.quiet
    BY <1>1, <1>3, <2>1 DEF Process
  <2> QED
    BY <2>1, <2>2, <2>3
<1>10. \/ procs' = [procs EXCEPT ![p] = q0] /\ UNCHANGED shown
       \/ \E m \in 0 .. Len(full) :
            /\ \E w \in Written(q0, full, m) : procs' = [procs EXCEPT ![p] = w]
            /\ Arrives(full, m)
  BY <1>3, <1>4, <1>5, <1>7, <1>9 DEF Puts
<1>11. PICK m, left, r :
         /\ m \in 0 .. Len(full) /\ left \in Seq(Numbered)
         /\ left = <<>> \/ left = Rest(full, m)
         /\ \/ r = q0 /\ m = 0 /\ left = full
            \/ r = Leaves(q0, left, ItemsOf(Rest(full, m)))
         /\ procs' = [procs EXCEPT ![p] = r] /\ Arrives(full, m)
  <2>1. CASE procs' = [procs EXCEPT ![p] = q0] /\ UNCHANGED shown
    <3>1. SubSeq(full, 1, 0) = <<>> /\ Rest(full, 0) = full /\ 0 \in 0 .. Len(full)
      BY RestOfAll
    <3>2. out \in Places /\ [shown EXCEPT ![out] = @ \o <<>>] = shown
      BY <1>1, <1>2, Running, NothingMore
    <3>3. Arrives(full, 0)
      BY <2>1, <3>1, <3>2 DEF Arrives, Places
    <3> QED
      BY <2>1, <3>1, <3>3, Zenon
  <2>2. ASSUME NEW m \in 0 .. Len(full), NEW w \in Written(q0, full, m),
               procs' = [procs EXCEPT ![p] = w], Arrives(full, m)
        PROVE  \E left :
                 /\ left = <<>> \/ left = Rest(full, m)
                 /\ left \in Seq(Numbered)
                 /\ w = Leaves(q0, left, ItemsOf(Rest(full, m)))
    <3>1. Rest(full, m) \in Seq(Numbered) /\ <<>> \in Seq(Numbered)
      BY PartIs, NoItems
    <3>2. PICK left : /\ left = <<>> \/ left = Rest(full, m)
                      /\ w = Leaves(q0, left, ItemsOf(Rest(full, m)))
      BY WrittenOf
    <3> QED
      BY <3>1, <3>2
  <2> QED
    BY <1>10, <2>1, <2>2, Zenon
<1>12. ItemsOf(full) = ItemsOf(SubSeq(full, 1, m)) \union ItemsOf(Rest(full, m))
  BY <1>11, PartIs
<1>13. /\ r.at = "run" /\ r.buffer = left /\ ~r.quiet /\ r.fn = "none" /\ r \in Process
       /\ \/ r.printed = q0.printed /\ left = Rest(full, m)
          \/ r.printed = q0.printed \ ItemsOf(Rest(full, m))
  <2>1. CASE r = q0 /\ m = 0 /\ left = full
    <3>1. Rest(full, 0) = full
      BY RestOfAll
    <3> QED
      BY <1>9, <2>1, <3>1
  <2>2. CASE r = Leaves(q0, left, ItemsOf(Rest(full, m)))
    BY <1>9, <1>11, <2>2 DEF Process, Leaves
  <2> QED
    BY <1>11, <2>1, <2>2
<1>14. ProcInv(r, ItemsOf(shown[out]) \union ItemsOf(SubSeq(full, 1, m)))
  <2>1. q.printed \subseteq ItemsOf(shown[out]) \union ItemsOf(b)
    BY <1>1, <1>2, <1>3, <1>4 DEF ProcInv, Live
  <2>2. r.printed \subseteq
          (ItemsOf(shown[out]) \union ItemsOf(SubSeq(full, 1, m))) \union ItemsOf(left)
    BY <1>7, <1>9, <1>12, <1>13, <2>1
  <2> QED
    BY <1>13, <2>2 DEF ProcInv, Live
<1>15. p = "child" => ~Quiet'
  BY <1>2, <1>11, <1>13 DEF Quiet, StreamKinds
<1>16. /\ r.at \notin Before /\ (r.quiet => procs[p].quiet)
       /\ Distinct(procs[p].buffer) => Distinct(full)
       /\ r.buffer = <<>> \/ r.buffer = Rest(full, m)
       /\ UNCHANGED <<redirects, out>>
  BY <1>3, <1>4, <1>7, <1>11, <1>13 DEF Before, Puts
<1>17. \A j \in ItemsOf(full) : j \in ItemsOf(procs[p].buffer) \/ j.no > pieces
  BY <1>3, <1>4, <1>6, <1>7
<1> QED
  BY <1>1, <1>6, <1>7, <1>11, <1>13, <1>14, <1>15, <1>16, <1>17, WrittenKeeps

LEMMA RedirectKeeps ==
  ASSUME StreamInv, Redirect
  PROVE  StreamInv'
<1>1. /\ procs \in [Procs -> Process] /\ procs.parent.at = "open" /\ StreamKinds
      /\ procs.child.at = "none" /\ shown = [place \in Places |-> <<>>] /\ redirects
      /\ out # "file"
  BY DEF StreamInv, StreamKinds, OutInv, Redirect, Before
<1>2. PICK q \in Process : q = procs.parent
  BY <1>1 DEF Procs
<1>3. PICK r : /\ r.at \in {"run", "failed"} /\ r = [q EXCEPT !.at = r.at]
               /\ procs' = [procs EXCEPT !["parent"] = r]
               /\ r.at = "run" => out' = IF redirects' THEN "file" ELSE "tty"
               /\ r.at = "failed" => out' = out
               /\ redirects' \in BOOLEAN /\ out' \in {"tty", "file", "none"}
  <2>1. out = "tty" \/ out = "none"
    BY <1>1 DEF StreamKinds
  <2>2. PICK at : /\ at \in {"run", "failed"} /\ procs' = [procs EXCEPT !.parent.at = at]
                  /\ \/ at = "run" /\ out' = "file" /\ redirects' = redirects
                     \/ at = "run" /\ out # "none" /\ redirects' = FALSE /\ out' = out
                     \/ at = "failed" /\ redirects' = redirects /\ out' = out
    BY Zenon DEF Redirect, Redirected
  <2>3. PICK r : r = [q EXCEPT !.at = at]
    OBVIOUS
  <2>4. r.at = at /\ procs' = [procs EXCEPT !["parent"] = r]
    BY <1>1, <1>2, <2>2, <2>3 DEF Process
  <2>5. /\ at = "run" => out' = IF redirects' THEN "file" ELSE "tty"
        /\ at = "failed" => out' = out
        /\ redirects' \in BOOLEAN /\ out' \in {"tty", "file", "none"}
    BY <1>1, <2>1, <2>2
  <2> QED
    BY <2>2, <2>3, <2>4, <2>5, Zenon
<1>4. UNCHANGED <<shown, pieces>>
  BY DEF Redirect
<1>5. /\ r.buffer = q.buffer /\ r.printed = q.printed /\ r.quiet = q.quiet /\ r.fn = q.fn
      /\ r.errno = q.errno /\ r.saved = q.saved /\ r \in Process
  BY <1>3 DEF Process, Live
<1>6. q.printed = {} /\ q.buffer = <<>> /\ q.quiet /\ q.errno = q.saved
  BY <1>1, <1>2 DEF StreamInv, ProcInv, Procs, Before
<1>7. /\ procs' \in [Procs -> Process] /\ procs'["parent"] = r
      /\ procs'["child"] = procs["child"]
  BY <1>1, <1>3, <1>5 DEF Procs
<1>9. StreamKinds'
  BY <1>1, <1>3, <1>4, <1>7 DEF StreamKinds
<1>10. OutInv'
  BY <1>1, <1>3, <1>4, <1>7 DEF OutInv, Before
<1>11. \A on : ProcInv(r, on)
  <2> SUFFICES ASSUME NEW on
               PROVE  ProcInv(r, on)
    OBVIOUS
  <2>1. r.printed \subseteq on /\ r.quiet /\ r.errno = r.saved
    BY <1>5, <1>6
  <2> QED
    BY <1>3, <2>1 DEF ProcInv, Live
<1>12. \A p \in Procs :
         /\ procs'[p].at \notin Before => ProcInv(procs'[p], ItemsOf(shown'[out']))
         /\ procs'[p].at \in Before => ProcInv(procs'[p], {})
  <2>1. procs.child.at \in Before => ProcInv(procs.child, {})
    BY DEF StreamInv, Procs
  <2>2. procs'["child"].at \in Before /\ ProcInv(procs'["child"], {})
    BY <1>1, <1>7, <2>1 DEF Before
  <2> QED
    BY <1>7, <1>11, <2>2, Zenon DEF Procs
<1>13. \A place \in Places : shown'[place] = <<>> /\ Upto(shown'[place], pieces')
  BY <1>1, <1>4, NoItems
<1>14. \A p \in Procs : Upto(procs'[p].buffer, pieces')
  BY <1>2, <1>4, <1>5, <1>7 DEF StreamInv, Procs
<1>15. OnceInv'
  <2>1. out' \in Places => shown'[out'] = <<>>
    BY <1>13
  <2>2. procs'["parent"].buffer = <<>>
    BY <1>5, <1>6, <1>7
  <2> QED
    BY <1>13, <2>2, NoItems DEF OnceInv
<1>16. PrintedFirst'
  <2>1. shown'["tty"] = <<>>
    BY <1>13 DEF Places
  <2> QED
    BY <2>1 DEF PrintedFirst
<1> QED
  BY <1>9, <1>10, <1>12, <1>13, <1>14, <1>15, <1>16, Zenon DEF StreamInv

LEMMA ForkKeeps ==
  ASSUME StreamInv, Fork
  PROVE  StreamInv'
<1>1. /\ procs \in [Procs -> Process] /\ procs.parent.at = "run" /\ StreamKinds
      /\ procs.child.at = "none"
  BY DEF StreamInv, StreamKinds, Fork
<1>2. PICK q \in Process : q = procs.parent
  BY <1>1 DEF Procs
<1>3. PICK r : r = [q EXCEPT !.quiet = TRUE]
  OBVIOUS
<1>4. /\ r.buffer = q.buffer /\ r.printed = q.printed /\ r.fn = q.fn /\ r.at = "run"
      /\ r.errno = q.errno /\ r.saved = q.saved /\ r \in Process
  BY <1>1, <1>2, <1>3 DEF Process
<1>5. UNCHANGED <<redirects, out, shown, pieces>> /\ procs' = [procs EXCEPT !["child"] = r]
  BY <1>2, <1>3 DEF Fork
<1>6. /\ procs' \in [Procs -> Process] /\ procs'["parent"] = procs["parent"]
      /\ procs'["child"] = r
  BY <1>1, <1>4, <1>5 DEF Procs
<1>7. StreamKinds'
  BY <1>1, <1>5, <1>6 DEF StreamKinds
<1>8. OutInv'
  BY <1>1, <1>4, <1>5, <1>6 DEF StreamInv, OutInv, Before
<1>9. ProcInv(q, ItemsOf(shown[out])) /\ Upto(q.buffer, pieces)
  BY <1>1, <1>2 DEF StreamInv, Procs, Before
<1>10. ProcInv(r, ItemsOf(shown[out]))
  BY <1>1, <1>2, <1>4, <1>9 DEF ProcInv, Live
<1>11. \A p \in Procs :
         /\ procs'[p].at \notin Before => ProcInv(procs'[p], ItemsOf(shown'[out']))
         /\ procs'[p].at \in Before => ProcInv(procs'[p], {})
  <2>1. procs'["parent"].at \notin Before /\ procs'["child"].at \notin Before
    BY <1>1, <1>4, <1>6 DEF Before
  <2> QED
    BY <1>2, <1>5, <1>6, <1>9, <1>10, <2>1, Zenon DEF Procs
<1>12. \A place \in Places : Upto(shown'[place], pieces')
  BY <1>5 DEF StreamInv
<1>13. \A p \in Procs : Upto(procs'[p].buffer, pieces')
  BY <1>2, <1>4, <1>5, <1>6, <1>9 DEF Procs
<1>14. OnceInv'
  <2>1. ProcInv(procs.child, {})
    BY <1>1 DEF StreamInv, Procs, Before
  <2>2. Quiet
    BY <1>1, <2>1 DEF Quiet, ProcInv
  <2> QED
    BY <1>5, <1>6, <2>2 DEF StreamInv, OnceInv
<1>15. PrintedFirst'
  BY <1>5 DEF StreamInv, PrintedFirst
<1> QED
  BY <1>7, <1>8, <1>11, <1>12, <1>13, <1>14, <1>15, Zenon DEF StreamInv

LEMMA ProgramBegins ==
  ASSUME StreamInv, Idle, NEW redir \in BOOLEAN, NEW stdout \in {"tty", "none"},
         StartProgram(redir, stdout)
  PROVE  StreamInv'
<1>1. /\ procs \in [Procs -> Process] /\ StreamKinds /\ procs.parent.at = "none"
      /\ procs.child.at = "none" /\ shown = [place \in Places |-> <<>>]
  BY DEF StreamInv, StreamKinds, OutInv, Idle, Before
<1>2. PICK r : r = NewProcess(IF redir THEN "open" ELSE "run")
  OBVIOUS
<1>3. /\ r.at = IF redir THEN "open" ELSE "run"
      /\ r.buffer = <<>> /\ r.printed = {} /\ r.fn = "none" /\ r.quiet /\ r.errno = r.saved
      /\ r \in Process
  BY <1>2, NoItems DEF NewProcess, Process, Calls, Live
<1>4. /\ procs' = [procs EXCEPT !["parent"] = r] /\ UNCHANGED <<shown, pieces>>
      /\ redirects' = redir /\ out' = stdout /\ (stdout = "none" => redir)
  BY <1>2 DEF StartProgram
<1>5. /\ procs' \in [Procs -> Process] /\ procs'["parent"] = r
      /\ procs'["child"] = procs["child"]
  BY <1>1, <1>3, <1>4 DEF Procs
<1>6. StreamKinds'
  BY <1>1, <1>4, <1>5 DEF StreamKinds
<1>7. OutInv'
  BY <1>1, <1>3, <1>4, <1>5 DEF OutInv, Before
<1>8. \A on : ProcInv(r, on)
  <2> SUFFICES ASSUME NEW on
               PROVE  ProcInv(r, on)
    OBVIOUS
  <2>1. r.at \in {"open", "run"} /\ r.printed \subseteq on
    BY <1>3
  <2> QED
    BY <1>3, <2>1 DEF ProcInv, Live
<1>9. \A p \in Procs :
        /\ procs'[p].at \notin Before => ProcInv(procs'[p], ItemsOf(shown'[out']))
        /\ procs'[p].at \in Before => ProcInv(procs'[p], {})
  <2>1. procs.child.at \in Before => ProcInv(procs.child, {})
    BY DEF StreamInv, Procs
  <2>2. procs'["child"].at \in Before /\ ProcInv(procs'["child"], {})
    BY <1>1, <1>5, <2>1 DEF Before
  <2> QED
    BY <1>5, <1>8, <2>2, Zenon DEF Procs
<1>10. \A place \in Places : shown'[place] = <<>> /\ Upto(shown'[place], pieces')
  BY <1>1, <1>4, NoItems
<1>11. \A p \in Procs : Upto(procs'[p].buffer, pieces')
  BY <1>3, <1>4, <1>5, NoItems DEF StreamInv, Procs
<1>12. OnceInv'
  BY <1>3, <1>5, <1>10, NoItems DEF OnceInv
<1>13. PrintedFirst'
  <2>1. shown'["tty"] = <<>>
    BY <1>10 DEF Places
  <2> QED
    BY <2>1 DEF PrintedFirst
<1> QED
  BY <1>6, <1>7, <1>9, <1>10, <1>11, <1>12, <1>13, Zenon DEF StreamInv

LEMMA StreamInit ==
  Init => StreamInv
<1> SUFFICES ASSUME StreamsIdle
             PROVE  StreamInv
  BY DEF Init
<1>1. /\ redirects = FALSE /\ out = "tty" /\ pieces = 0
      /\ shown = [place \in Places |-> <<>>]
      /\ \A p \in Procs : procs[p] = NewProcess("none")
      /\ procs = [p \in Procs |-> procs[p]]
  BY DEF StreamsIdle, Places, Procs
<1>2. PICK r : r = NewProcess("none")
  OBVIOUS
<1>3. /\ r.at = "none" /\ r.buffer = <<>> /\ r.printed = {} /\ r.fn = "none" /\ r.quiet
      /\ r.errno = r.saved /\ r \in Process
  BY <1>2, NoItems DEF NewProcess, Process, Calls
<1>4. StreamKinds
  BY <1>1, <1>2, <1>3, NoItems DEF StreamKinds
<1>5. procs.parent = r /\ procs.child = r
  BY <1>1, <1>2 DEF Procs
<1>6. OutInv
  BY <1>1, <1>3, <1>5 DEF OutInv, Before
<1>7. \A p \in Procs :
        procs[p].at \in Before /\ ProcInv(procs[p], {}) /\ Upto(procs[p].buffer, pieces)
  BY <1>1, <1>2, <1>3, NoItems DEF ProcInv, Before, Live
<1>8. \A place \in Places : shown[place] = <<>> /\ Upto(shown[place], pieces)
  BY <1>1, NoItems
<1>9. OnceInv
  BY <1>3, <1>5, <1>8, NoItems DEF OnceInv, Before
<1>10. PrintedFirst
  <2>1. shown.tty = <<>>
    BY <1>8 DEF Places
  <2> QED
    BY <2>1 DEF PrintedFirst
<1> QED
  BY <1>4, <1>6, <1>7, <1>8, <1>9, <1>10, Zenon DEF StreamInv

LEMMA StreamStepKinds ==
  ASSUME [Next]_vars
  PROVE  \/ Idle /\ \E redir \in BOOLEAN, stdout \in {"tty", "none"} :
                      StartProgram(redir, stdout)
         \/ StreamStep
         \/ UNCHANGED streamVars
<1>1. CASE Start
  BY <1>1, Zenon DEF Start
<1>2. CASE Step
  BY <1>2, Zenon DEF Step
<1>3. CASE UNCHANGED vars
  BY <1>3 DEF vars
<1> QED
  BY <1>1, <1>2, <1>3 DEF Next

LEMMA StreamSame ==
  ASSUME StreamInv, UNCHANGED streamVars
  PROVE  StreamInv'
<1>1. /\ redirects' = redirects /\ out' = out /\ shown' = shown
      /\ pieces' = pieces /\ procs' = procs
  BY DEF streamVars
<1>2. StreamKinds' /\ OutInv'
  BY <1>1 DEF StreamInv, StreamKinds, OutInv
<1>3. OnceInv' /\ PrintedFirst'
  BY <1>1 DEF StreamInv, OnceInv, Quiet, PrintedFirst
<1> QED
  BY <1>1, <1>2, <1>3 DEF StreamInv

LEMMA StreamAlways ==
  Spec => []StreamInv
<1>1. StreamInv /\ [Next]_vars => StreamInv'
  <2> SUFFICES ASSUME StreamInv, [Next]_vars
               PROVE  StreamInv'
    OBVIOUS
  <2>1. CASE StreamStep
    <3>1. CASE Redirect \/ Fork
      BY <3>1, RedirectKeeps, ForkKeeps
    <3>2. ASSUME NEW p \in Procs,
                 Puts(p) \/ Write(p) \/ Flush(p) \/ Say(p) \/ Return(p) \/ terminate(p)
          PROVE  StreamInv'
      BY <3>2, PutsKeeps, WriteKeeps, FlushKeeps, SayKeeps, ReturnKeeps, TerminateKeeps
    <3>3. ASSUME NEW p \in Procs, NEW c \in Reports, Report(p, c)
          PROVE  StreamInv'
      BY <3>3, ReportKeeps
    <3> QED
      BY <2>1, <3>1, <3>2, <3>3, Zenon DEF StreamStep, Procs
  <2> QED
    BY <2>1, ProgramBegins, StreamSame, StreamStepKinds
<1> QED
  BY <1>1, StreamInit, PTL DEF Spec

LEMMA StreamMeans ==
  ASSUME StreamInv
  PROVE  MessagesInOrder
<1>1. /\ StreamKinds /\ PrintedFirst /\ DOMAIN procs = Procs /\ DOMAIN shown = Places
  BY DEF StreamInv, StreamKinds
<1>2. ASSUME Quiet, NEW place \in Places, NEW j \in DOMAIN shown[place],
             NEW k \in DOMAIN shown[place], j # k, "no" \in DOMAIN shown[place][j]
      PROVE  shown[place][j] # shown[place][k]
  BY <1>2, Zenon DEF StreamInv, OnceInv, Distinct
<1>3. ASSUME NEW p \in Procs, procs[p].at = "exit"
      PROVE  /\ redirects => procs[p].printed \subseteq ItemsOf(shown.file)
             /\ out = "tty" => procs[p].printed \subseteq ItemsOf(shown.tty)
  <2>1. procs[p].at \notin Before
    BY <1>3 DEF Before
  <2>2. procs[p].printed \subseteq ItemsOf(shown[out])
    BY <1>3, <2>1 DEF StreamInv, ProcInv
  <2>3. procs.parent.at \notin Before
    BY <1>3, <2>1 DEF StreamInv, OutInv, Procs
  <2>4. redirects => out = "file"
    BY <2>3 DEF StreamInv, OutInv
  <2> QED
    BY <2>2, <2>4
<1>4. ASSUME NEW p \in Procs, procs[p].at = "run", procs[p].fn = "errMsg"
      PROVE  procs[p].errno = procs[p].saved
  BY <1>4 DEF StreamInv, ProcInv, Before
<1>5. ShownOnce
  BY <1>1, <1>2, Zenon DEF ShownOnce, Quiet
<1>6. NothingKeptBack
  BY <1>1, <1>3, Zenon DEF NothingKeptBack
<1> QED
  BY <1>1, <1>4, <1>5, <1>6, Zenon DEF MessagesInOrder

(* What a process has printed, but for what a failed write was to bring,   *)
(* comes before the messages of the functions that flush stdout first; a   *)
(* child that only fails with err_exit does not print again what its       *)
(* parent had in the buffer; exit brings what is left in the buffer, but   *)
(* for the same; and errMsg leaves errno as it was: whatever two processes *)
(* print, write and report, whether dup2 and the writes succeed or not.    *)
THEOREM MessagesOrdered == Spec => []MessagesInOrder
<1>1. StreamInv => MessagesInOrder
  BY StreamMeans
<1> QED
  BY <1>1, StreamAlways, PTL

-----------------------------------------------------------------------------
(* mydu.  The operators of DiskUsage, over any tree.                       *)

ClosedIn(t, S) == \A q \in DOMAIN t : t[q].up \in S => q \in S
BelowIn(t, p) ==
  {q \in DOMAIN t : \A S \in SUBSET DOMAIN t : p \in S /\ ClosedIn(t, S) => q \in S}
EntriesIn(t, d) == {p \in DOMAIN t \ {d} : t[p].up = d}
VisibleIn(t, d) == {p \in EntriesIn(t, d) : ~t[p].hidden}
BlocksIn(t, Q) == UNION {{q} \X (1 .. t[q].blocks) : q \in Q}
WeightIn(t, Q) == Cardinality(BlocksIn(t, Q))
BareIn(t, p)   == {q \in BelowIn(t, p) : t[q].dir /\ VisibleIn(t, q) = {}}

LEMMA BelowLeast ==
  ASSUME NEW t, NEW p, NEW S \in SUBSET DOMAIN t, p \in S, ClosedIn(t, S)
  PROVE  BelowIn(t, p) \subseteq S
BY Zenon DEF BelowIn

LEMMA BelowClosed ==
  ASSUME NEW t, NEW p \in DOMAIN t
  PROVE  /\ BelowIn(t, p) \in SUBSET DOMAIN t
         /\ p \in BelowIn(t, p)
         /\ ClosedIn(t, BelowIn(t, p))
<1>1. BelowIn(t, p) \in SUBSET DOMAIN t /\ p \in BelowIn(t, p)
  BY Zenon DEF BelowIn
<1>2. ASSUME NEW q \in DOMAIN t, t[q].up \in BelowIn(t, p)
      PROVE  q \in BelowIn(t, p)
  <2>1. ASSUME NEW S \in SUBSET DOMAIN t, p \in S, ClosedIn(t, S)
        PROVE  q \in S
    <3>1. t[q].up \in S
      BY <1>2, <2>1, Zenon DEF BelowIn
    <3> QED
      BY <2>1, <3>1, Zenon DEF ClosedIn
  <2> QED
    BY <2>1, Zenon DEF BelowIn
<1> QED
  BY <1>1, <1>2, Zenon DEF ClosedIn

(* What is below d is d and what is below its entries. *)
LEMMA BelowEntries ==
  ASSUME NEW t, NEW d \in DOMAIN t
  PROVE  /\ \A c \in EntriesIn(t, d) : BelowIn(t, c) \subseteq BelowIn(t, d)
         /\ BelowIn(t, d) \subseteq
              {d} \union UNION {BelowIn(t, c) : c \in EntriesIn(t, d)}
<1>1. ASSUME NEW c \in EntriesIn(t, d)
      PROVE  BelowIn(t, c) \subseteq BelowIn(t, d)
  <2>1. c \in DOMAIN t /\ t[c].up = d
    BY DEF EntriesIn
  <2>2. c \in BelowIn(t, d)
    BY <2>1, BelowClosed, Zenon DEF ClosedIn
  <2> QED
    BY <2>2, BelowClosed, BelowLeast, Zenon
<1> DEFINE S == {d} \union UNION {BelowIn(t, c) : c \in EntriesIn(t, d)}
<1>2. S \in SUBSET DOMAIN t
  BY DEF BelowIn
<1>3. ASSUME NEW q \in DOMAIN t, t[q].up \in S
      PROVE  q \in S
  <2>1. CASE t[q].up = d
    <3>1. q = d \/ q \in EntriesIn(t, d)
      BY <2>1 DEF EntriesIn
    <3>2. q \in BelowIn(t, q)
      BY BelowClosed, Zenon
    <3> QED
      BY <3>1, <3>2
  <2>2. CASE t[q].up # d
    <3>1. PICK c \in EntriesIn(t, d) : t[q].up \in BelowIn(t, c)
      BY <1>3, <2>2
    <3>2. c \in DOMAIN t
      BY DEF EntriesIn
    <3>3. q \in BelowIn(t, c)
      BY <3>1, <3>2, BelowClosed, Zenon DEF ClosedIn
    <3> QED
      BY <3>3
  <2> QED
    BY <2>1, <2>2
<1>4. ClosedIn(t, S) /\ d \in S
  <2> HIDE DEF S
  <2> QED
    BY <1>3 DEF ClosedIn, S
<1>5. BelowIn(t, d) \subseteq S
  BY <1>2, <1>4, BelowLeast, Zenon
<1> QED
  BY <1>1, <1>5

(* Going up from what is below p stays below p, up to p itself. *)
LEMMA UpToNode ==
  ASSUME NEW t, IsTree(t), NEW p \in DOMAIN t, NEW q \in BelowIn(t, p), q # p
  PROVE  t[q].up \in BelowIn(t, p)
<1> DEFINE S == {r \in BelowIn(t, p) : r = p \/ t[r].up \in BelowIn(t, p)}
<1>1. S \in SUBSET DOMAIN t /\ p \in S
  BY BelowClosed
<1>2. ASSUME NEW r \in DOMAIN t, t[r].up \in S
      PROVE  r \in S
  BY <1>2, BelowClosed, Zenon DEF ClosedIn
<1>3. ClosedIn(t, S)
  BY <1>2, Zenon DEF ClosedIn
<1> HIDE DEF S
<1>4. q \in S
  BY <1>1, <1>3, BelowLeast, Zenon
<1> QED
  BY <1>4 DEF S

(* A top is below nothing but itself. *)
LEMMA TopIsBelow ==
  ASSUME NEW t, NEW p \in DOMAIN t, NEW top \in BelowIn(t, p), t[top].up = top
  PROVE  p = top
<1> SUFFICES ASSUME p # top
             PROVE  FALSE
  OBVIOUS
<1> DEFINE S == DOMAIN t \ {top}
<1>1. S \in SUBSET DOMAIN t /\ p \in S
  OBVIOUS
<1>2. ClosedIn(t, S)
  BY DEF ClosedIn
<1> QED
  BY <1>1, <1>2, BelowLeast

(* No entry has its directory below it, and no two have anything in common. *)
LEMMA EntriesApart ==
  ASSUME NEW t, IsTree(t), NEW d \in DOMAIN t
  PROVE  /\ \A c \in EntriesIn(t, d) : d \notin BelowIn(t, c)
         /\ \A b, c \in EntriesIn(t, d) :
              b # c => BelowIn(t, b) \intersect BelowIn(t, c) = {}
<1>1. ASSUME NEW U \in SUBSET DOMAIN t, U # {}, \A q \in U : t[q].up \in U
      PROVE  \E q \in U : t[q].up = q
  BY <1>1, Zenon DEF IsTree
<1>2. ASSUME NEW c \in EntriesIn(t, d), d \in BelowIn(t, c)
      PROVE  FALSE
  <2>1. c \in DOMAIN t /\ t[c].up = d /\ c # d
    BY DEF EntriesIn
  <2> DEFINE U == {q \in BelowIn(t, c) : c \in BelowIn(t, q)}
  <2>2. U \in SUBSET DOMAIN t /\ c \in U
    BY <2>1, BelowClosed
  <2>3. ASSUME NEW q \in U
        PROVE  t[q].up \in U
    <3>1. q \in DOMAIN t /\ t[q].up \in DOMAIN t
      BY <2>2 DEF IsTree
    <3>2. t[q].up \in BelowIn(t, c)
      <4>1. CASE q = c
        BY <1>2, <2>1, <4>1
      <4>2. CASE q # c
        BY <2>1, <4>2, UpToNode
      <4> QED
        BY <4>1, <4>2
    <3>3. q \in BelowIn(t, t[q].up)
      BY <3>1, BelowClosed, Zenon DEF ClosedIn
    <3>4. BelowIn(t, q) \subseteq BelowIn(t, t[q].up)
      <4>1. PICK r \in DOMAIN t : r = t[q].up
        BY <3>1
      <4>2. BelowIn(t, r) \in SUBSET DOMAIN t /\ ClosedIn(t, BelowIn(t, r))
        BY BelowClosed, Zenon
      <4>3. q \in BelowIn(t, r)
        BY <3>3, <4>1
      <4> HIDE DEF U
      <4>4. BelowIn(t, q) \subseteq BelowIn(t, r)
        BY <4>2, <4>3, BelowLeast, Zenon
      <4> QED
        BY <4>1, <4>4
    <3> QED
      BY <3>2, <3>4
  <2>4. PICK q \in U : t[q].up = q
    <3> HIDE DEF U
    <3> QED
      BY <1>1, <2>2, <2>3, Zenon
  <2>5. c = q
    BY <2>1, <2>4, TopIsBelow
  <2> QED
    BY <2>1, <2>4, <2>5
<1>3. ASSUME NEW b \in EntriesIn(t, d), NEW c \in EntriesIn(t, d), b # c,
             BelowIn(t, b) \intersect BelowIn(t, c) # {}
      PROVE  FALSE
  <2> DEFINE U == BelowIn(t, b) \intersect BelowIn(t, c)
  <2>1. /\ b \in DOMAIN t /\ t[b].up = d
        /\ c \in DOMAIN t /\ t[c].up = d
    BY DEF EntriesIn
  <2>2. d \notin BelowIn(t, b) /\ d \notin BelowIn(t, c)
    BY <1>2
  <2>3. b \notin U /\ c \notin U
    BY <1>3, <2>1, <2>2, UpToNode
  <2>4. ASSUME NEW q \in U
        PROVE  t[q].up \in U
    BY <2>1, <2>3, UpToNode
  <2>5. U \in SUBSET DOMAIN t
    BY DEF BelowIn
  <2>6. PICK q \in U : t[q].up = q
    <3> HIDE DEF U
    <3>1. U # {}
      BY <1>3 DEF U
    <3> QED
      BY <1>1, <2>4, <2>5, <3>1, Zenon
  <2> QED
    BY <2>1, <2>3, <2>6, TopIsBelow
<1> QED
  BY <1>2, <1>3, Zenon

(* Only itself is below a file. *)
LEMMA BelowFile ==
  ASSUME NEW t, IsTree(t), NEW p \in DOMAIN t, ~t[p].dir
  PROVE  BelowIn(t, p) = {p}
<1>1. ASSUME NEW q \in DOMAIN t, t[q].up \in {p}
      PROVE  q \in {p}
  BY <1>1 DEF IsTree
<1>2. ClosedIn(t, {p}) /\ {p} \in SUBSET DOMAIN t
  BY <1>1 DEF ClosedIn
<1> QED
  BY <1>2, BelowLeast, BelowClosed

(* Blocks are counted by sets: those of each path are finitely many, and   *)
(* those of two paths are different ones.                                  *)
LEMMA BlocksOfOne ==
  ASSUME NEW t, IsTree(t), NEW p \in DOMAIN t
  PROVE  /\ t[p].blocks \in Nat
         /\ BlocksIn(t, {p}) = {p} \X (1 .. t[p].blocks)
         /\ IsFiniteSet({p} \X (1 .. t[p].blocks))
         /\ WeightIn(t, {p}) = t[p].blocks
<1>1. t[p].blocks \in Nat
  BY DEF IsTree
<1>2. BlocksIn(t, {p}) = {p} \X (1 .. t[p].blocks)
  BY DEF BlocksIn
<1>3. PICK z \in Nat : z = t[p].blocks
  BY <1>1
<1>4. IsFiniteSet(1 .. z) /\ Cardinality(1 .. z) = z
  BY FS_Interval
<1>5. IsFiniteSet({p}) /\ Cardinality({p}) = 1
  BY FS_Singleton
<1>6. IsFiniteSet({p} \X (1 .. z)) /\ Cardinality({p} \X (1 .. z)) = 1 * z
  BY <1>4, <1>5, FS_Product, Zenon
<1>7. WeightIn(t, {p}) = Cardinality({p} \X (1 .. z))
  BY <1>2, <1>3 DEF WeightIn
<1>8. 1 * z = z
  OBVIOUS
<1> QED
  BY <1>1, <1>2, <1>3, <1>6, <1>7, <1>8, Zenon

LEMMA BlocksFinite ==
  ASSUME NEW t, IsTree(t), NEW Q \in SUBSET DOMAIN t
  PROVE  IsFiniteSet(BlocksIn(t, Q)) /\ WeightIn(t, Q) \in Nat
<1> DEFINE F == [q \in Q |-> {q} \X (1 .. t[q].blocks)]
           T == {{q} \X (1 .. t[q].blocks) : q \in Q}
<1>1. F \in Surjection(Q, T)
  BY DEF Surjection
<1>2. IsFiniteSet(Q)
  BY FS_Subset DEF IsTree
<1>3. IsFiniteSet(T)
  BY <1>1, <1>2, FS_Surjection
<1>4. \A B \in T : IsFiniteSet(B)
  BY BlocksOfOne
<1>5. IsFiniteSet(UNION T)
  BY <1>3, <1>4, FS_UNION
<1> QED
  BY <1>5, FS_CardinalityType DEF BlocksIn, WeightIn

LEMMA WeightNone ==
  ASSUME NEW t
  PROVE  WeightIn(t, {}) = 0
<1>1. BlocksIn(t, {}) = {}
  BY DEF BlocksIn
<1> QED
  BY <1>1, FS_EmptySet DEF WeightIn

LEMMA WeightJoin ==
  ASSUME NEW t, IsTree(t), NEW Q \in SUBSET DOMAIN t, NEW R \in SUBSET DOMAIN t,
         Q \intersect R = {}
  PROVE  WeightIn(t, Q \union R) = WeightIn(t, Q) + WeightIn(t, R)
<1>1. IsFiniteSet(BlocksIn(t, Q)) /\ IsFiniteSet(BlocksIn(t, R))
  BY BlocksFinite
<1>2. BlocksIn(t, Q \union R) = BlocksIn(t, Q) \union BlocksIn(t, R)
  BY DEF BlocksIn
<1>3. BlocksIn(t, Q) \intersect BlocksIn(t, R) = {}
  BY DEF BlocksIn
<1>4. WeightIn(t, Q) \in Nat /\ WeightIn(t, R) \in Nat
  BY BlocksFinite
<1>5. Cardinality({}) = 0
  BY FS_EmptySet
<1>6. PICK B, C : B = BlocksIn(t, Q) /\ C = BlocksIn(t, R)
  OBVIOUS
<1>7. Cardinality(B \union C) = Cardinality(B) + Cardinality(C) - Cardinality(B \intersect C)
  BY <1>1, <1>6, FS_Union, Zenon
<1>8. Cardinality(B \intersect C) = 0
  BY <1>3, <1>5, <1>6
<1>9. /\ WeightIn(t, Q \union R) = Cardinality(B \union C)
      /\ WeightIn(t, Q) = Cardinality(B) /\ WeightIn(t, R) = Cardinality(C)
  BY <1>2, <1>6, Zenon DEF WeightIn
<1> QED
  BY <1>4, <1>7, <1>8, <1>9

(* A finite set as a sequence: each of its members once. *)
LEMMA SeqOfSet ==
  ASSUME NEW S, IsFiniteSet(S)
  PROVE  /\ SetToSeq(S) \in Seq(S)
         /\ \A j, k \in DOMAIN SetToSeq(S) :
              SetToSeq(S)[j] = SetToSeq(S)[k] => j = k
         /\ \A x \in S : \E k \in DOMAIN SetToSeq(S) : SetToSeq(S)[k] = x
<1>1. PICK z \in Nat : z = Cardinality(S)
  BY FS_CardinalityType
<1>2. ExistsBijection(1 .. z, S)
  BY <1>1, FS_CardinalityType
<1>3. PICK g : g \in Bijection(1 .. z, S)
  BY <1>2, Zenon DEF ExistsBijection
<1>4. g \in [1 .. z -> S] /\ IsInjective(g)
  BY <1>3, Zenon DEF Bijection, Injection
<1>5. PICK s : s = SetToSeq(S)
  OBVIOUS
<1>6. s = CHOOSE h \in [1 .. z -> S] : IsInjective(h)
  BY <1>1, <1>5 DEF SetToSeq
<1>7. s \in [1 .. z -> S] /\ IsInjective(s)
  BY <1>4, <1>6, Zenon
<1>8. s \in Injection(1 .. z, S)
  BY <1>7 DEF Injection
<1>9. Cardinality(1 .. z) = z
  BY FS_Interval
<1>10. s \in Surjection(1 .. z, S)
  BY <1>1, <1>8, <1>9, FS_Injection
<1>11. \A x \in S : \E k \in DOMAIN s : s[k] = x
  BY <1>7, <1>10, Zenon DEF Surjection
<1>12. s \in Seq(S)
  BY <1>7, SeqDef
<1> QED
  BY <1>5, <1>7, <1>11, <1>12, Zenon DEF IsInjective

(* The calls of mydu in progress.  A call has visited all entries but those *)
(* in its list and the one it has called itself for.                       *)
Kinds == {"name", ".", ".."}
FramesOf(t)  == [dir : DOMAIN t, todo : Seq((DOMAIN t) \X Kinds), sum : Nat]
NamedAt(s)   == {k \in DOMAIN s : path_check(s[k])}
NamesIn(s)   == {s[k][1] : k \in NamedAt(s)}
NamedOnce(s) == \A j, k \in NamedAt(s) : s[j][1] = s[k][1] => j = k

Visited(t, f, inside) == EntriesIn(t, f.dir) \ (NamesIn(f.todo) \union inside)
BelowAll(t, Q) == UNION {BelowIn(t, c) : c \in Q}

FrameOK(t, f, inside) ==
  /\ f \in FramesOf(t)
  /\ VisibleIn(t, f.dir) # {}
  /\ NamedOnce(f.todo)
  /\ inside \subseteq EntriesIn(t, f.dir)
  /\ NamesIn(f.todo) \subseteq EntriesIn(t, f.dir) \ inside
  /\ f.sum = WeightIn(t, BelowAll(t, Visited(t, f, inside)))
  /\ \A c \in Visited(t, f, inside) : BareIn(t, c) = {}

StackOK(t, fs, inside) ==
  \A k \in DOMAIN fs : FrameOK(t, fs[k], IF k = 1 THEN inside ELSE {fs[k - 1].dir})

(* The calls began with one for r. *)
BeganAt(t, fs, r) ==
  /\ fs # <<>> => fs[Len(fs)].dir = r
  /\ \A k \in DOMAIN fs : fs[k].dir \in BelowIn(t, r)

Asked == argv[Len(printed) + 1]

DuKinds ==
  /\ IsTree(tree)
  /\ argv \in Seq(DOMAIN tree)
  /\ printed \in Seq(Int)
  /\ frames \in Seq(FramesOf(tree))
  /\ dpc \in {"idle", "arg", "call", "loop", "exit"}
  /\ dpc \in {"call", "loop"} => Len(printed) < Len(argv)
  /\ dpc = "idle" => printed = <<>>

DuStack ==
  /\ dpc \in {"idle", "arg"} => frames = <<>>
  /\ dpc \in {"call", "loop"} => BeganAt(tree, frames, Asked)
  /\ dpc = "call" => /\ path \in DOMAIN tree
                     /\ frames = <<>> => path = Asked
                     /\ StackOK(tree, frames, {path})
  /\ dpc = "loop" => frames # <<>> /\ StackOK(tree, frames, {})

IsFigure(t, x, p) == x = WeightIn(t, BelowIn(t, p)) \div 2 /\ BareIn(t, p) = {}
DuFigures ==
  /\ Len(printed) <= Len(argv)
  /\ \A k \in DOMAIN printed : IsFigure(tree, printed[k], argv[k])

DuGivesUp ==
  dpc = "exit" /\ ~denied /\ Len(printed) < Len(argv) => BareIn(tree, Asked) # {}

DuInv == DuKinds /\ DuStack /\ DuFigures /\ DuGivesUp

LEMMA NamesOfTail ==
  ASSUME NEW A, NEW s \in Seq(A), s # <<>>, NamedOnce(s)
  PROVE  /\ NamedOnce(Tail(s))
         /\ path_check(Head(s)) =>
              /\ Head(s)[1] \in NamesIn(s)
              /\ NamesIn(Tail(s)) = NamesIn(s) \ {Head(s)[1]}
         /\ ~path_check(Head(s)) => NamesIn(Tail(s)) = NamesIn(s)
<1> DEFINE r == Tail(s)
<1>1. /\ Len(s) \in Nat /\ Len(s) >= 1 /\ DOMAIN s = 1 .. Len(s)
      /\ DOMAIN r = 1 .. Len(s) - 1
      /\ \A k \in DOMAIN r : k + 1 \in DOMAIN s /\ r[k] = s[k + 1]
      /\ Head(s) = s[1]
  OBVIOUS
<1> HIDE DEF r
<1>2. \A k \in DOMAIN s : k = 1 \/ (k - 1 \in DOMAIN r /\ s[k] = r[k - 1])
  BY <1>1
<1>3. \A k \in NamedAt(r) : k + 1 \in NamedAt(s) /\ r[k] = s[k + 1]
  BY <1>1 DEF NamedAt
<1>4. \A k \in NamedAt(s) : k = 1 \/ (k - 1 \in NamedAt(r) /\ s[k] = r[k - 1])
  BY <1>2 DEF NamedAt
<1>5. NamedAt(s) \subseteq Nat /\ NamedAt(r) \subseteq Nat \ {0}
  BY <1>1 DEF NamedAt
<1>6. NamedOnce(r)
  <2> SUFFICES ASSUME NEW j \in NamedAt(r), NEW k \in NamedAt(r), r[j][1] = r[k][1]
               PROVE  j = k
    BY DEF NamedOnce
  <2>1. /\ j + 1 \in NamedAt(s) /\ k + 1 \in NamedAt(s)
        /\ s[j + 1][1] = s[k + 1][1]
    BY <1>3
  <2>2. j + 1 = k + 1
    BY <2>1, Zenon DEF NamedOnce
  <2> QED
    BY <1>5, <2>2
<1>7. ASSUME path_check(Head(s))
      PROVE  /\ Head(s)[1] \in NamesIn(s)
             /\ NamesIn(r) = NamesIn(s) \ {Head(s)[1]}
  <2>1. 1 \in NamedAt(s)
    BY <1>1, <1>7 DEF NamedAt
  <2>2. \A k \in NamedAt(s) : s[k][1] = s[1][1] => k = 1
    BY <2>1, Zenon DEF NamedOnce
  <2>3. ASSUME NEW x \in NamesIn(r)
        PROVE  x \in NamesIn(s) /\ x # s[1][1]
    <3>1. PICK k \in NamedAt(r) : x = r[k][1]
      BY DEF NamesIn
    <3>2. k + 1 \in NamedAt(s) /\ x = s[k + 1][1]
      BY <1>3, <3>1
    <3>3. k + 1 # 1
      BY <1>5
    <3> QED
      BY <2>2, <3>2, <3>3, Zenon DEF NamesIn
  <2>4. ASSUME NEW x \in NamesIn(s), x # s[1][1]
        PROVE  x \in NamesIn(r)
    <3>1. PICK k \in NamedAt(s) : x = s[k][1]
      BY DEF NamesIn
    <3>2. k - 1 \in NamedAt(r) /\ x = r[k - 1][1]
      BY <1>4, <2>4, <3>1
    <3> QED
      BY <3>2, Zenon DEF NamesIn
  <2>5. s[1][1] \in NamesIn(s)
    BY <2>1, Zenon DEF NamesIn
  <2> QED
    BY <1>1, <2>3, <2>4, <2>5
<1>8. ASSUME ~path_check(Head(s))
      PROVE  NamesIn(r) = NamesIn(s)
  <2>1. 1 \notin NamedAt(s)
    BY <1>1, <1>8 DEF NamedAt
  <2>2. ASSUME NEW x \in NamesIn(r)
        PROVE  x \in NamesIn(s)
    <3>1. PICK k \in NamedAt(r) : x = r[k][1]
      BY DEF NamesIn
    <3> QED
      BY <1>3, <3>1, Zenon DEF NamesIn
  <2>3. ASSUME NEW x \in NamesIn(s)
        PROVE  x \in NamesIn(r)
    <3>1. PICK k \in NamedAt(s) : x = s[k][1]
      BY DEF NamesIn
    <3> QED
      BY <1>4, <2>1, <3>1, Zenon DEF NamesIn
  <2> QED
    BY <2>2, <2>3
<1> QED
  BY <1>6, <1>7, <1>8 DEF r

IsJoined(A, w, s, r, a, b) ==
  /\ w \in Seq(A) /\ Len(w) = a + b /\ DOMAIN w = 1 .. a + b
  /\ \A k \in 1 .. a : w[k] = s[k]
  /\ \A k \in 1 .. b : w[k + a] = r[k]

LEMMA JoinedIs ==
  ASSUME NEW A, NEW s \in Seq(A), NEW r \in Seq(A), NEW a \in Nat, NEW b \in Nat,
         a = Len(s), b = Len(r)
  PROVE  IsJoined(A, s \o r, s, r, a, b)
<1>1. /\ s \o r \in Seq(A) /\ Len(s \o r) = a + b
      /\ DOMAIN s = 1 .. a /\ DOMAIN r = 1 .. b
  OBVIOUS
<1>2. DOMAIN (s \o r) = 1 .. a + b
  BY <1>1
<1>3. \A k \in 1 .. a : (s \o r)[k] = s[k]
  BY <1>1
<1>4. \A k \in 1 .. b : (s \o r)[k + a] = r[k]
  BY <1>1
<1> QED
  BY <1>1, <1>2, <1>3, <1>4 DEF IsJoined

(* The list of a call holds each entry of its directory once, beside "."   *)
(* and "..".                                                               *)
LEMMA EntriesListed ==
  ASSUME IsTree(tree), NEW d \in DOMAIN tree
  PROVE  /\ Entries(d) \in Seq((DOMAIN tree) \X Kinds)
         /\ NamedOnce(Entries(d))
         /\ NamesIn(Entries(d)) = EntriesIn(tree, d)
<1> DEFINE V == Visible(d)
           H == In(d) \ Visible(d)
<1>1. /\ V \subseteq DOMAIN tree /\ H \subseteq DOMAIN tree
      /\ V \union H = EntriesIn(tree, d) /\ V \intersect H = {}
  BY DEF In, Visible, EntriesIn
<1>2. tree[d].up \in DOMAIN tree
  BY DEF IsTree
<1> HIDE DEF V, H
<1>3. ASSUME NEW S \in SUBSET DOMAIN tree
      PROVE  /\ Found(S) \in Seq(S \X {"name"})
             /\ \A j, k \in DOMAIN Found(S) : Found(S)[j] = Found(S)[k] => j = k
             /\ \A x \in S : \E k \in DOMAIN Found(S) : Found(S)[k] = <<x, "name">>
  <2>1. IsFiniteSet(S)
    BY FS_Subset DEF IsTree
  <2>2. IsFiniteSet({"name"})
    BY FS_Singleton
  <2>3. IsFiniteSet(S \X {"name"})
    BY <2>1, <2>2, FS_Product
  <2> QED
    BY <2>3, SeqOfSet DEF Found
<1>4. PICK s1 : s1 = Found(V)
  OBVIOUS
<1>5. PICK s2 : s2 = Found(H)
  OBVIOUS
<1>6. /\ s1 \in Seq(V \X {"name"})
      /\ \A j, k \in DOMAIN s1 : s1[j] = s1[k] => j = k
      /\ \A x \in V : \E k \in DOMAIN s1 : s1[k] = <<x, "name">>
  BY <1>1, <1>3, <1>4
<1>7. /\ s2 \in Seq(H \X {"name"})
      /\ \A j, k \in DOMAIN s2 : s2[j] = s2[k] => j = k
      /\ \A x \in H : \E k \in DOMAIN s2 : s2[k] = <<x, "name">>
  BY <1>1, <1>3, <1>5
<1>8. PICK m : m = <<<<d, ".">>, <<tree[d].up, "..">>>>
  OBVIOUS
<1>9. PICK s : s = s1 \o m \o s2
  OBVIOUS
<1>10. s = Entries(d)
  BY <1>4, <1>5, <1>8, <1>9 DEF Entries, V, H
<1>11. /\ Len(s1) \in Nat /\ DOMAIN s1 = 1 .. Len(s1)
       /\ Len(s2) \in Nat /\ DOMAIN s2 = 1 .. Len(s2)
       /\ s1 \in Seq((DOMAIN tree) \X Kinds) /\ s2 \in Seq((DOMAIN tree) \X Kinds)
       /\ \A k \in DOMAIN s1 : s1[k][1] \in V /\ s1[k] = <<s1[k][1], "name">>
       /\ \A k \in DOMAIN s2 : s2[k][1] \in H /\ s2[k] = <<s2[k][1], "name">>
  <2>1. /\ V \X {"name"} \subseteq (DOMAIN tree) \X Kinds
        /\ H \X {"name"} \subseteq (DOMAIN tree) \X Kinds
    BY <1>1 DEF Kinds
  <2> QED
    BY <1>6, <1>7, <2>1
<1>12. /\ m \in Seq((DOMAIN tree) \X Kinds) /\ Len(m) = 2
       /\ ~path_check(m[1]) /\ ~path_check(m[2])
  BY <1>2, <1>8 DEF Kinds, path_check
<1>13. PICK u : u = s1 \o m
  OBVIOUS
<1>14. PICK a \in Nat, b \in Nat : a = Len(s1) /\ b = Len(s2)
  BY <1>11
<1>15. /\ u \in Seq((DOMAIN tree) \X Kinds) /\ Len(u) = a + 2
       /\ \A k \in 1 .. a : u[k] = s1[k]
       /\ \A k \in 1 .. 2 : u[k + a] = m[k]
  <2>1. PICK A : A = (DOMAIN tree) \X Kinds
    OBVIOUS
  <2>2. s1 \in Seq(A) /\ m \in Seq(A) /\ 2 = Len(m) /\ 2 \in Nat
    BY <1>11, <1>12, <2>1
  <2>3. IsJoined(A, s1 \o m, s1, m, a, 2)
    BY <1>14, <2>2, JoinedIs
  <2> QED
    BY <1>13, <2>1, <2>3 DEF IsJoined
<1>16. /\ s \in Seq((DOMAIN tree) \X Kinds)
       /\ DOMAIN s = 1 .. a + 2 + b
       /\ \A k \in 1 .. a + 2 : s[k] = u[k]
       /\ \A k \in 1 .. b : s[k + (a + 2)] = s2[k]
  <2>1. PICK c \in Nat : c = a + 2
    OBVIOUS
  <2>2. PICK A : A = (DOMAIN tree) \X Kinds
    OBVIOUS
  <2>3. u \in Seq(A) /\ s2 \in Seq(A) /\ c = Len(u)
    BY <1>11, <1>15, <2>1, <2>2
  <2>4. IsJoined(A, u \o s2, u, s2, c, b)
    BY <1>14, <2>3, JoinedIs
  <2>5. s = u \o s2
    BY <1>9, <1>13
  <2> QED
    BY <2>1, <2>2, <2>4, <2>5 DEF IsJoined
<1>17. ASSUME NEW k \in NamedAt(s)
       PROVE  \/ k \in DOMAIN s1 /\ s[k] = s1[k]
              \/ k - (a + 2) \in DOMAIN s2 /\ s[k] = s2[k - (a + 2)]
  <2>1. k \in 1 .. a + 2 + b /\ path_check(s[k])
    BY <1>16 DEF NamedAt
  <2>2. k # a + 1 /\ k # a + 2
    <3>1. s[1 + a] = m[1] /\ s[2 + a] = m[2]
      BY <1>15, <1>16
    <3>2. 1 + a = a + 1 /\ 2 + a = a + 2
      OBVIOUS
    <3> QED
      BY <1>12, <2>1, <3>1, <3>2
  <2>3. CASE k <= a
    BY <1>11, <1>14, <1>15, <1>16, <2>1, <2>3
  <2>4. CASE k > a + 2
    <3>1. PICK i : i = k - (a + 2)
      OBVIOUS
    <3>2. i \in 1 .. b /\ k = i + (a + 2)
      BY <2>1, <2>4, <3>1
    <3>3. s[k] = s2[i]
      BY <1>16, <3>2
    <3> QED
      BY <1>11, <1>14, <3>1, <3>2, <3>3
  <2> QED
    BY <2>1, <2>2, <2>3, <2>4
<1>18. \A x : path_check(<<x, "name">>)
  BY DEF path_check
<1>19. ASSUME NEW k \in DOMAIN s1
       PROVE  k \in NamedAt(s) /\ s[k] = s1[k]
  <2>1. k \in DOMAIN s /\ s[k] = s1[k]
    BY <1>11, <1>14, <1>15, <1>16
  <2> QED
    BY <1>11, <1>18, <2>1, Zenon DEF NamedAt
<1>20. ASSUME NEW k \in DOMAIN s2
       PROVE  k + (a + 2) \in NamedAt(s) /\ s[k + (a + 2)] = s2[k]
  <2>1. k + (a + 2) \in DOMAIN s /\ s[k + (a + 2)] = s2[k]
    BY <1>11, <1>14, <1>16
  <2> QED
    BY <1>11, <1>18, <2>1, Zenon DEF NamedAt
<1>21. NamedOnce(s)
  <2> SUFFICES ASSUME NEW j \in NamedAt(s), NEW k \in NamedAt(s), s[j][1] = s[k][1]
               PROVE  j = k
    BY DEF NamedOnce
  <2>1. CASE j \in DOMAIN s1 /\ s[j] = s1[j] /\ k \in DOMAIN s1 /\ s[k] = s1[k]
    BY <1>6, <1>11, <2>1
  <2>2. PICK i, h : i = j - (a + 2) /\ h = k - (a + 2)
    OBVIOUS
  <2>3. CASE i \in DOMAIN s2 /\ s[j] = s2[i] /\ h \in DOMAIN s2 /\ s[k] = s2[h]
    <3>1. i = h
      BY <1>7, <1>11, <2>3
    <3>2. j \in Int /\ k \in Int
      BY <1>16 DEF NamedAt
    <3> QED
      BY <2>2, <3>1, <3>2
  <2>4. CASE j \in DOMAIN s1 /\ s[j] = s1[j] /\ h \in DOMAIN s2 /\ s[k] = s2[h]
    BY <1>1, <1>11, <2>4
  <2>5. CASE i \in DOMAIN s2 /\ s[j] = s2[i] /\ k \in DOMAIN s1 /\ s[k] = s1[k]
    BY <1>1, <1>11, <2>5
  <2> QED
    BY <1>17, <2>1, <2>2, <2>3, <2>4, <2>5
<1>22. ASSUME NEW x \in NamesIn(s)
       PROVE  x \in EntriesIn(tree, d)
  <2>1. PICK k \in NamedAt(s) : x = s[k][1]
    BY DEF NamesIn
  <2>2. PICK i : i = k - (a + 2)
    OBVIOUS
  <2>3. CASE k \in DOMAIN s1 /\ s[k] = s1[k]
    BY <1>1, <1>11, <2>1, <2>3
  <2>4. CASE i \in DOMAIN s2 /\ s[k] = s2[i]
    BY <1>1, <1>11, <2>1, <2>4
  <2> QED
    BY <1>17, <2>2, <2>3, <2>4
<1>23. ASSUME NEW x \in EntriesIn(tree, d)
       PROVE  x \in NamesIn(s)
  <2>1. CASE x \in V
    <3>1. PICK k \in DOMAIN s1 : s1[k] = <<x, "name">>
      BY <1>6, <2>1
    <3>2. k \in NamedAt(s) /\ s[k][1] = x
      BY <1>19, <3>1
    <3> QED
      BY <3>2, Zenon DEF NamesIn
  <2>2. CASE x \in H
    <3>1. PICK k \in DOMAIN s2 : s2[k] = <<x, "name">>
      BY <1>7, <2>2
    <3>2. PICK i : i = k + (a + 2)
      OBVIOUS
    <3>3. i \in NamedAt(s) /\ s[i][1] = x
      BY <1>20, <3>1, <3>2
    <3> QED
      BY <3>3, Zenon DEF NamesIn
  <2> QED
    BY <1>1, <2>1, <2>2
<1> QED
  BY <1>10, <1>16, <1>21, <1>22, <1>23

LEMMA BelowAllIs ==
  ASSUME NEW t, IsTree(t), NEW d \in DOMAIN t, NEW Q \in SUBSET EntriesIn(t, d)
  PROVE  /\ Q \in SUBSET DOMAIN t
         /\ BelowAll(t, Q) \in SUBSET DOMAIN t
         /\ d \notin BelowAll(t, Q)
         /\ \A c \in EntriesIn(t, d) \ Q :
              /\ BelowAll(t, Q) \intersect BelowIn(t, c) = {}
              /\ BelowAll(t, Q \union {c}) = BelowAll(t, Q) \union BelowIn(t, c)
<1>1. Q \in SUBSET DOMAIN t
  BY DEF EntriesIn
<1>2. BelowAll(t, Q) \in SUBSET DOMAIN t
  BY DEF BelowAll, BelowIn
<1>3. d \notin BelowAll(t, Q)
  BY EntriesApart DEF BelowAll
<1>4. ASSUME NEW c \in EntriesIn(t, d) \ Q
      PROVE  BelowAll(t, Q) \intersect BelowIn(t, c) = {}
  <2>1. \A b \in Q : BelowIn(t, b) \intersect BelowIn(t, c) = {}
    BY EntriesApart
  <2> QED
    BY <2>1 DEF BelowAll
<1>5. ASSUME NEW c \in EntriesIn(t, d) \ Q
      PROVE  BelowAll(t, Q \union {c}) = BelowAll(t, Q) \union BelowIn(t, c)
  BY DEF BelowAll
<1> QED
  BY <1>1, <1>2, <1>3, <1>4, <1>5

(* A call begins: nothing is visited. *)
LEMMA FrameBegins ==
  ASSUME NEW t, IsTree(t), NEW d \in DOMAIN t, VisibleIn(t, d) # {},
         NEW s \in Seq((DOMAIN t) \X Kinds), NamedOnce(s), NamesIn(s) = EntriesIn(t, d),
         NEW g, g = [dir |-> d, todo |-> s, sum |-> 0]
  PROVE  FrameOK(t, g, {})
<1>1. g \in FramesOf(t) /\ g.dir = d /\ g.todo = s /\ g.sum = 0
  BY DEF FramesOf
<1>2. Visited(t, g, {}) = {}
  BY <1>1 DEF Visited
<1>3. BelowAll(t, {}) = {}
  BY DEF BelowAll
<1>4. WeightIn(t, BelowAll(t, Visited(t, g, {}))) = 0
  BY <1>2, <1>3, WeightNone, Zenon
<1> QED
  BY <1>1, <1>2, <1>4 DEF FrameOK

(* The next in the list: "." and ".." are passed over, an entry is called  *)
(* for.                                                                    *)
LEMMA FrameNext ==
  ASSUME NEW t, NEW h, FrameOK(t, h, {}), h.todo # <<>>,
         NEW g, g = [h EXCEPT !.todo = Tail(@)]
  PROVE  /\ path_check(Head(h.todo)) =>
              /\ Head(h.todo)[1] \in EntriesIn(t, h.dir)
              /\ FrameOK(t, g, {Head(h.todo)[1]})
         /\ ~path_check(Head(h.todo)) => FrameOK(t, g, {})
<1>1. h \in FramesOf(t) /\ h.todo \in Seq((DOMAIN t) \X Kinds)
  BY DEF FrameOK, FramesOf
<1>2. g \in FramesOf(t) /\ g.dir = h.dir /\ g.todo = Tail(h.todo) /\ g.sum = h.sum
  <2>1. Tail(h.todo) \in Seq((DOMAIN t) \X Kinds)
    BY <1>1
  <2> QED
    BY <1>1, <2>1 DEF FramesOf
<1>3. NamedOnce(h.todo) /\ NamesIn(h.todo) \subseteq EntriesIn(t, h.dir)
  BY DEF FrameOK
<1>4. /\ NamedOnce(Tail(h.todo))
      /\ path_check(Head(h.todo)) =>
           /\ Head(h.todo)[1] \in NamesIn(h.todo)
           /\ NamesIn(Tail(h.todo)) = NamesIn(h.todo) \ {Head(h.todo)[1]}
      /\ ~path_check(Head(h.todo)) => NamesIn(Tail(h.todo)) = NamesIn(h.todo)
  BY <1>1, <1>3, NamesOfTail
<1>5. ASSUME path_check(Head(h.todo))
      PROVE  /\ Head(h.todo)[1] \in EntriesIn(t, h.dir)
             /\ FrameOK(t, g, {Head(h.todo)[1]})
  <2>1. PICK x : x = Head(h.todo)[1]
    OBVIOUS
  <2>2. x \in NamesIn(h.todo) /\ NamesIn(g.todo) = NamesIn(h.todo) \ {x}
    BY <1>2, <1>4, <1>5, <2>1
  <2>3. Visited(t, g, {x}) = Visited(t, h, {})
    BY <1>2, <2>2 DEF Visited
  <2>4. x \in EntriesIn(t, h.dir)
    BY <1>3, <2>2
  <2>5. FrameOK(t, g, {x})
    BY <1>2, <1>3, <1>4, <2>2, <2>3, <2>4 DEF FrameOK
  <2> QED
    BY <2>1, <2>4, <2>5
<1>6. ASSUME ~path_check(Head(h.todo))
      PROVE  FrameOK(t, g, {})
  <2>1. NamesIn(g.todo) = NamesIn(h.todo)
    BY <1>2, <1>4, <1>6
  <2>2. Visited(t, g, {}) = Visited(t, h, {})
    BY <1>2, <2>1 DEF Visited
  <2> QED
    BY <1>2, <1>4, <2>1, <2>2 DEF FrameOK
<1> QED
  BY <1>5, <1>6

(* The call for c returns what is below c. *)
AddedTo(h, v, g) == g = [h EXCEPT !.sum = @ + v]

LEMMA FrameReturns ==
  ASSUME NEW t, IsTree(t), NEW h, NEW c, FrameOK(t, h, {c}), BareIn(t, c) = {},
         NEW v, v = WeightIn(t, BelowIn(t, c)),
         NEW g, AddedTo(h, v, g)
  PROVE  FrameOK(t, g, {}) /\ g.dir = h.dir
<1>1. /\ h \in FramesOf(t) /\ h.dir \in DOMAIN t /\ h.sum \in Nat
      /\ c \in EntriesIn(t, h.dir) /\ c \notin NamesIn(h.todo) /\ c \in DOMAIN t
  BY DEF FrameOK, FramesOf, EntriesIn
<1>2. BelowIn(t, c) \in SUBSET DOMAIN t
  BY DEF BelowIn
<1>3. v \in Nat
  BY <1>2, BlocksFinite
<1>4. /\ g \in FramesOf(t) /\ g.dir = h.dir /\ g.todo = h.todo /\ g.sum = h.sum + v
  BY <1>1, <1>3 DEF FramesOf, AddedTo
<1>5. PICK Q : Q = Visited(t, h, {c})
  OBVIOUS
<1>6. Q \in SUBSET EntriesIn(t, h.dir) /\ c \in EntriesIn(t, h.dir) \ Q
  BY <1>1, <1>5 DEF Visited
<1>7. Visited(t, g, {}) = Q \union {c}
  BY <1>1, <1>4, <1>5 DEF Visited
<1>8. /\ BelowAll(t, Q) \in SUBSET DOMAIN t
      /\ BelowAll(t, Q) \intersect BelowIn(t, c) = {}
      /\ BelowAll(t, Q \union {c}) = BelowAll(t, Q) \union BelowIn(t, c)
  BY <1>1, <1>6, BelowAllIs
<1>9. h.sum = WeightIn(t, BelowAll(t, Q)) /\ \A x \in Q : BareIn(t, x) = {}
  BY <1>5 DEF FrameOK
<1>10. g.sum = WeightIn(t, BelowAll(t, Visited(t, g, {})))
  <2>1. PICK X, Y : X = BelowAll(t, Q) /\ Y = BelowIn(t, c)
    OBVIOUS
  <2>2. WeightIn(t, X \union Y) = WeightIn(t, X) + WeightIn(t, Y)
    BY <1>2, <1>8, <2>1, WeightJoin
  <2>3. BelowAll(t, Visited(t, g, {})) = X \union Y
    BY <1>7, <1>8, <2>1, Zenon
  <2>4. WeightIn(t, X) = h.sum /\ WeightIn(t, Y) = v
    BY <1>9, <2>1
  <2> QED
    BY <1>4, <2>2, <2>3, <2>4, Zenon
<1>11. \A x \in Visited(t, g, {}) : BareIn(t, x) = {}
  BY <1>7, <1>9
<1> QED
  BY <1>4, <1>10, <1>11 DEF FrameOK

(* The list is at its end: all that is below the directory is counted. *)
LEMMA FrameEnds ==
  ASSUME NEW t, IsTree(t), NEW h, FrameOK(t, h, {}), h.todo = <<>>
  PROVE  /\ h.dir \in DOMAIN t
         /\ h.sum + t[h.dir].blocks = WeightIn(t, BelowIn(t, h.dir))
         /\ BareIn(t, h.dir) = {}
<1>1. PICK d : d = h.dir
  OBVIOUS
<1>2. d \in DOMAIN t /\ h.sum \in Nat /\ VisibleIn(t, d) # {}
  BY <1>1 DEF FrameOK, FramesOf
<1>3. NamesIn(<<>>) = {}
  BY DEF NamesIn, NamedAt
<1>4. Visited(t, h, {}) = EntriesIn(t, d)
  BY <1>1, <1>3 DEF Visited
<1>5. PICK B : B = BelowAll(t, EntriesIn(t, d))
  OBVIOUS
<1>6. /\ h.sum = WeightIn(t, B)
      /\ \A c \in EntriesIn(t, d) : BareIn(t, c) = {}
  BY <1>4, <1>5 DEF FrameOK
<1>7. B \in SUBSET DOMAIN t /\ d \notin B
  BY <1>2, <1>5, BelowAllIs
<1>8. BelowIn(t, d) = B \union {d}
  <2>1. BelowIn(t, d) \subseteq {d} \union B
    BY <1>2, <1>5, BelowEntries DEF BelowAll
  <2>2. B \subseteq BelowIn(t, d)
    BY <1>2, <1>5, BelowEntries DEF BelowAll
  <2>3. d \in BelowIn(t, d)
    BY <1>2, BelowClosed
  <2> QED
    BY <2>1, <2>2, <2>3
<1>9. WeightIn(t, {d}) = t[d].blocks
  BY <1>2, BlocksOfOne
<1>10. h.sum + t[d].blocks = WeightIn(t, BelowIn(t, d))
  BY <1>2, <1>6, <1>7, <1>8, <1>9, WeightJoin
<1>11. ASSUME NEW x \in BareIn(t, d)
       PROVE  FALSE
  <2>1. x \in BelowIn(t, d) /\ t[x].dir /\ VisibleIn(t, x) = {}
    BY DEF BareIn
  <2>2. x \in B
    BY <1>2, <1>8, <2>1
  <2>3. PICK c \in EntriesIn(t, d) : x \in BelowIn(t, c)
    BY <1>5, <2>2 DEF BelowAll
  <2> QED
    BY <1>6, <2>1, <2>3 DEF BareIn
<1> QED
  BY <1>1, <1>2, <1>10, <1>11

(* The stack of calls: its top changes, a call is added, one is over. *)
NewTop(fs, g, w) ==
  /\ DOMAIN w = DOMAIN fs /\ w[1] = g
  /\ \A k \in DOMAIN fs : k # 1 => w[k] = fs[k]

LEMMA StackTop ==
  ASSUME NEW t, NEW r, NEW a, NEW b,
         NEW fs \in Seq(FramesOf(t)), fs # <<>>, StackOK(t, fs, a), BeganAt(t, fs, r),
         NEW g, FrameOK(t, g, b), g.dir = Head(fs).dir,
         NEW w \in Seq(FramesOf(t)), NewTop(fs, g, w)
  PROVE  StackOK(t, w, b) /\ BeganAt(t, w, r)
<1>1. /\ Len(fs) \in Nat /\ DOMAIN fs = 1 .. Len(fs) /\ Len(w) = Len(fs)
      /\ 1 \in DOMAIN fs /\ Head(fs) = fs[1]
      /\ DOMAIN w = DOMAIN fs /\ w[1] = g
      /\ \A k \in DOMAIN fs : k # 1 => w[k] = fs[k]
  BY DEF NewTop
<1>2. \A k \in DOMAIN fs : w[k].dir = fs[k].dir
  BY <1>1
<1>3. ASSUME NEW k \in DOMAIN w
      PROVE  FrameOK(t, w[k], IF k = 1 THEN b ELSE {w[k - 1].dir})
  <2>1. CASE k = 1
    BY <1>1, <2>1
  <2>2. CASE k # 1
    <3>1. FrameOK(t, fs[k], {fs[k - 1].dir})
      BY <1>1, <2>2 DEF StackOK
    <3>2. w[k] = fs[k] /\ w[k - 1].dir = fs[k - 1].dir
      BY <1>1, <1>2, <2>2
    <3> QED
      BY <2>2, <3>1, <3>2
  <2> QED
    BY <2>1, <2>2
<1>4. StackOK(t, w, b)
  BY <1>3, Zenon DEF StackOK
<1>5. Len(fs) \in DOMAIN fs
  BY <1>1
<1>6. w[Len(w)].dir = r
  BY <1>1, <1>2, <1>5 DEF BeganAt
<1>7. \A k \in DOMAIN w : w[k].dir \in BelowIn(t, r)
  BY <1>1, <1>2 DEF BeganAt
<1> QED
  BY <1>4, <1>6, <1>7 DEF BeganAt

LEMMA StackPush ==
  ASSUME NEW t, IsTree(t), NEW r \in DOMAIN t, NEW d \in DOMAIN t,
         NEW fs \in Seq(FramesOf(t)), StackOK(t, fs, {d}), BeganAt(t, fs, r),
         fs = <<>> => d = r,
         NEW g, FrameOK(t, g, {}), g.dir = d,
         NEW w, w = <<g>> \o fs
  PROVE  w \in Seq(FramesOf(t)) /\ w # <<>> /\ StackOK(t, w, {}) /\ BeganAt(t, w, r)
<1>1. g \in FramesOf(t)
  BY DEF FrameOK
<1>2. PICK m \in Nat : m = Len(fs)
  OBVIOUS
<1>3. /\ w \in Seq(FramesOf(t)) /\ Len(w) = m + 1 /\ DOMAIN w = 1 .. m + 1
      /\ w[1] = g /\ \A k \in 1 .. m : w[k + 1] = fs[k]
      /\ DOMAIN fs = 1 .. m
  BY <1>1, <1>2
<1>4. w # <<>>
  BY <1>3
<1>5. ASSUME NEW k \in DOMAIN w
      PROVE  /\ FrameOK(t, w[k], IF k = 1 THEN {} ELSE {w[k - 1].dir})
             /\ w[k].dir \in BelowIn(t, r)
  <2>1. CASE k = 1
    <3>1. d \in BelowIn(t, r)
      <4>1. CASE fs = <<>>
        BY <4>1, BelowClosed
      <4>2. CASE fs # <<>>
        <5>1. 1 \in DOMAIN fs
          BY <1>2, <1>3, <4>2
        <5>2. fs[1].dir \in BelowIn(t, r) /\ FrameOK(t, fs[1], {d})
          BY <5>1 DEF BeganAt, StackOK
        <5>3. d \in EntriesIn(t, fs[1].dir)
          BY <5>2 DEF FrameOK
        <5>4. t[d].up \in BelowIn(t, r)
          BY <5>2, <5>3 DEF EntriesIn
        <5> QED
          BY <5>4, BelowClosed, Zenon DEF ClosedIn
      <4> QED
        BY <4>1, <4>2
    <3> QED
      BY <1>3, <2>1, <3>1
  <2>2. CASE k # 1
    <3>1. PICK j \in 1 .. m : k = j + 1
      <4>1. k - 1 \in 1 .. m /\ k = (k - 1) + 1
        BY <1>3, <2>2
      <4> QED
        BY <4>1
    <3>2. FrameOK(t, fs[j], IF j = 1 THEN {d} ELSE {fs[j - 1].dir})
      BY <1>3 DEF StackOK
    <3>3. w[k] = fs[j] /\ fs[j].dir \in BelowIn(t, r)
      BY <1>3, <3>1 DEF BeganAt
    <3>4. w[k - 1].dir = IF j = 1 THEN d ELSE fs[j - 1].dir
      <4>1. CASE j = 1
        BY <1>3, <3>1, <4>1
      <4>2. CASE j # 1
        <5>1. j - 1 \in 1 .. m /\ k - 1 = (j - 1) + 1
          BY <3>1, <4>2
        <5>2. w[k - 1] = fs[j - 1]
          BY <1>3, <5>1
        <5> QED
          BY <4>2, <5>2
      <4> QED
        BY <4>1, <4>2
    <3> QED
      BY <2>2, <3>2, <3>3, <3>4
  <2> QED
    BY <2>1, <2>2
<1>6. w[Len(w)].dir = r
  <2>1. CASE fs = <<>>
    BY <1>2, <1>3, <2>1
  <2>2. CASE fs # <<>>
    <3>1. m \in 1 .. m
      BY <1>2, <2>2
    <3>2. fs[m].dir = r
      BY <1>2, <2>2 DEF BeganAt
    <3> QED
      BY <1>3, <3>1, <3>2
  <2> QED
    BY <2>1, <2>2
<1> QED
  BY <1>3, <1>4, <1>5, <1>6, Zenon DEF StackOK, BeganAt

LEMMA StackPop ==
  ASSUME NEW t, NEW r, NEW fs \in Seq(FramesOf(t)), fs # <<>>,
         StackOK(t, fs, {}), BeganAt(t, fs, r),
         NEW w, w = Tail(fs)
  PROVE  /\ w \in Seq(FramesOf(t)) /\ FrameOK(t, Head(fs), {})
         /\ StackOK(t, w, {Head(fs).dir}) /\ BeganAt(t, w, r)
         /\ w = <<>> => Head(fs).dir = r
<1>1. PICK m \in Nat : m = Len(fs)
  OBVIOUS
<1>2. /\ m >= 1 /\ DOMAIN fs = 1 .. m /\ Head(fs) = fs[1]
      /\ w \in Seq(FramesOf(t)) /\ Len(w) = m - 1 /\ DOMAIN w = 1 .. m - 1
      /\ \A k \in 1 .. m - 1 : w[k] = fs[k + 1]
  BY <1>1
<1>3. FrameOK(t, Head(fs), {})
  <2>1. 1 \in DOMAIN fs
    BY <1>2
  <2>2. FrameOK(t, fs[1], {})
    BY <2>1 DEF StackOK
  <2> QED
    BY <1>2, <2>2, Zenon
<1>4. ASSUME NEW k \in DOMAIN w
      PROVE  FrameOK(t, w[k], IF k = 1 THEN {Head(fs).dir} ELSE {w[k - 1].dir})
  <2>1. k + 1 \in DOMAIN fs /\ k + 1 # 1 /\ (k + 1) - 1 = k
    BY <1>2
  <2>2. FrameOK(t, fs[k + 1], {fs[k].dir})
    BY <2>1 DEF StackOK
  <2>3. CASE k = 1
    BY <1>2, <2>2, <2>3
  <2>4. CASE k # 1
    <3>1. k - 1 \in 1 .. m - 1 /\ (k - 1) + 1 = k
      BY <1>2, <2>4
    <3>2. w[k - 1] = fs[k]
      BY <1>2, <3>1
    <3> QED
      BY <1>2, <2>2, <2>4, <3>2
  <2> QED
    BY <2>3, <2>4
<1>5. \A k \in DOMAIN w : w[k].dir \in BelowIn(t, r)
  BY <1>2 DEF BeganAt
<1>6. w # <<>> => w[Len(w)].dir = r
  <2> SUFFICES ASSUME w # <<>>
               PROVE  w[Len(w)].dir = r
    OBVIOUS
  <2>1. m - 1 \in 1 .. m - 1 /\ (m - 1) + 1 = m
    BY <1>2
  <2>2. fs[m].dir = r
    BY <1>1 DEF BeganAt
  <2> QED
    BY <1>2, <2>1, <2>2
<1>7. w = <<>> => Head(fs).dir = r
  <2> SUFFICES ASSUME w = <<>>
               PROVE  Head(fs).dir = r
    OBVIOUS
  <2>1. m = 1
    BY <1>2
  <2>2. fs[Len(fs)].dir = r
    BY DEF BeganAt
  <2> QED
    BY <1>1, <1>2, <2>1, <2>2
<1> QED
  BY <1>2, <1>3, <1>4, <1>5, <1>6, <1>7, Zenon DEF StackOK, BeganAt

(* A call returns, to main or to the call it came from. *)
LEMMA DuReturns ==
  ASSUME DuInv, dpc \in {"call", "loop"},
         NEW c \in DOMAIN tree, BareIn(tree, c) = {},
         NEW v, v = WeightIn(tree, BelowIn(tree, c)),
         NEW fs \in Seq(FramesOf(tree)), StackOK(tree, fs, {c}),
         BeganAt(tree, fs, Asked), fs = <<>> => c = Asked,
         Returns(v, fs), UNCHANGED <<tree, argv, path, denied>>
  PROVE  DuInv'
<1>1. /\ IsTree(tree) /\ argv \in Seq(DOMAIN tree) /\ printed \in Seq(Int)
      /\ Len(printed) < Len(argv)
  BY DEF DuInv, DuKinds
<1>2. v \in Nat
  <2>1. BelowIn(tree, c) \in SUBSET DOMAIN tree
    BY BelowClosed
  <2> QED
    BY <1>1, <2>1, BlocksFinite
<1>3. DuFigures
  BY DEF DuInv
<1>4. CASE fs = <<>>
  <2>1. /\ printed' = Append(printed, v \div 2) /\ dpc' = "arg" /\ frames' = <<>>
        /\ tree' = tree /\ argv' = argv
    BY <1>4 DEF Returns
  <2>2. PICK x \in Int : x = v \div 2
    BY <1>2
  <2>3. /\ printed' \in Seq(Int) /\ Len(printed') = Len(printed) + 1
        /\ DOMAIN printed' = 1 .. Len(printed) + 1
        /\ \A k \in DOMAIN printed : printed'[k] = printed[k]
        /\ printed'[Len(printed) + 1] = x
        /\ DOMAIN printed = 1 .. Len(printed)
    BY <1>1, <2>1, <2>2
  <2>4. IsFigure(tree, x, argv[Len(printed) + 1])
    BY <1>4, <2>2 DEF IsFigure, Asked
  <2>5. DuFigures'
    <3>1. Len(printed') <= Len(argv')
      BY <1>1, <2>1, <2>3
    <3>2. ASSUME NEW k \in DOMAIN printed'
          PROVE  IsFigure(tree', printed'[k], argv'[k])
      <4>1. CASE k \in DOMAIN printed
        <5>1. IsFigure(tree, printed[k], argv[k])
          BY <1>3, <4>1 DEF DuFigures
        <5> QED
          BY <2>1, <2>3, <4>1, <5>1
      <4>2. CASE k \notin DOMAIN printed
        <5>1. k = Len(printed) + 1
          BY <1>1, <2>3, <3>2, <4>2
        <5> QED
          BY <2>1, <2>3, <2>4, <5>1
      <4> QED
        BY <4>1, <4>2
    <3> QED
      BY <3>1, <3>2 DEF DuFigures
  <2>6. DuKinds'
    <3>1. <<>> \in Seq(FramesOf(tree))
      OBVIOUS
    <3> QED
      BY <1>1, <2>1, <2>3, <3>1 DEF DuKinds
  <2>7. DuStack' /\ DuGivesUp'
    BY <2>1 DEF DuStack, DuGivesUp
  <2> QED
    BY <2>5, <2>6, <2>7 DEF DuInv
<1>5. CASE fs # <<>>
  <2>1. PICK h, g : h = Head(fs) /\ g = [h EXCEPT !.sum = @ + v]
    OBVIOUS
  <2>2. PICK w : w = <<g>> \o Tail(fs)
    OBVIOUS
  <2>3. /\ frames' = w /\ dpc' = "loop" /\ printed' = printed
        /\ tree' = tree /\ argv' = argv
    BY <1>5, <2>1, <2>2 DEF Returns
  <2>4. FrameOK(tree, h, {c})
    <3>1. 1 \in DOMAIN fs /\ h = fs[1]
      BY <1>5, <2>1
    <3> QED
      BY <3>1 DEF StackOK
  <2>5. FrameOK(tree, g, {}) /\ g.dir = h.dir
    <3>1. AddedTo(h, v, g)
      BY <2>1, Zenon DEF AddedTo
    <3> QED
      BY <1>1, <2>4, <3>1, FrameReturns, Zenon
  <2>6. g \in FramesOf(tree)
    BY <2>5 DEF FrameOK
  <2>7. /\ w \in Seq(FramesOf(tree)) /\ DOMAIN w = DOMAIN fs /\ w[1] = g /\ w # <<>>
        /\ \A k \in DOMAIN fs : k # 1 => w[k] = fs[k]
    BY <1>5, <2>2, <2>6
  <2>8. PICK r : r = Asked
    OBVIOUS
  <2>9. StackOK(tree, w, {}) /\ BeganAt(tree, w, r)
    <3>1. BeganAt(tree, fs, r) /\ g.dir = Head(fs).dir
      BY <2>1, <2>5, <2>8
    <3>2. NewTop(fs, g, w)
      BY <2>7 DEF NewTop
    <3> QED
      BY <1>5, <2>5, <2>7, <3>1, <3>2, StackTop, Zenon
  <2>10. DuKinds'
    BY <1>1, <2>3, <2>7 DEF DuKinds
  <2>11. DuStack'
    <3>1. Asked' = r
      BY <2>3, <2>8 DEF Asked
    <3> QED
      BY <2>3, <2>7, <2>9, <3>1 DEF DuStack
  <2>12. DuFigures' /\ DuGivesUp'
    BY <1>3, <2>3 DEF DuFigures, DuGivesUp
  <2> QED
    BY <2>10, <2>11, <2>12 DEF DuInv
<1> QED
  BY <1>4, <1>5

LEMMA VisitFileKeeps ==
  ASSUME DuInv, VisitFile
  PROVE  DuInv'
<1>1. /\ dpc = "call" /\ ~tree[path].dir /\ Returns(tree[path].blocks, frames)
      /\ UNCHANGED <<tree, argv, path, denied>>
  BY DEF VisitFile
<1>2. IsTree(tree) /\ frames \in Seq(FramesOf(tree))
  BY DEF DuInv, DuKinds
<1>3. /\ path \in DOMAIN tree /\ StackOK(tree, frames, {path})
      /\ BeganAt(tree, frames, Asked) /\ (frames = <<>> => path = Asked)
  BY <1>1 DEF DuInv, DuStack
<1>4. PICK c \in DOMAIN tree : c = path
  BY <1>3
<1>5. PICK fs : fs = frames
  OBVIOUS
<1>6. PICK v : v = tree[path].blocks
  OBVIOUS
<1>7. BelowIn(tree, c) = {c}
  BY <1>1, <1>2, <1>4, BelowFile
<1>8. BareIn(tree, c) = {}
  BY <1>1, <1>4, <1>7 DEF BareIn
<1>9. v = WeightIn(tree, BelowIn(tree, c))
  BY <1>2, <1>4, <1>6, <1>7, BlocksOfOne
<1> QED
  BY <1>1, <1>2, <1>3, <1>4, <1>5, <1>6, <1>8, <1>9, DuReturns

LEMMA LastEntryKeeps ==
  ASSUME DuInv, LastEntry
  PROVE  DuInv'
<1>1. /\ dpc = "loop" /\ Head(frames).todo = <<>>
      /\ Returns(Head(frames).sum + tree[Head(frames).dir].blocks, Tail(frames))
      /\ UNCHANGED <<tree, argv, path, denied>>
  BY DEF LastEntry
<1>2. IsTree(tree) /\ frames \in Seq(FramesOf(tree))
  BY DEF DuInv, DuKinds
<1>3. frames # <<>> /\ StackOK(tree, frames, {}) /\ BeganAt(tree, frames, Asked)
  BY <1>1 DEF DuInv, DuStack
<1>4. PICK h : h = Head(frames)
  OBVIOUS
<1>5. PICK w : w = Tail(frames)
  OBVIOUS
<1>6. PICK r : r = Asked
  OBVIOUS
<1>7. /\ w \in Seq(FramesOf(tree)) /\ FrameOK(tree, h, {})
      /\ StackOK(tree, w, {h.dir}) /\ BeganAt(tree, w, r)
      /\ w = <<>> => h.dir = r
  BY <1>2, <1>3, <1>4, <1>5, <1>6, StackPop
<1>8. PICK v : v = h.sum + tree[h.dir].blocks
  OBVIOUS
<1>9. /\ h.dir \in DOMAIN tree /\ v = WeightIn(tree, BelowIn(tree, h.dir))
      /\ BareIn(tree, h.dir) = {}
  BY <1>1, <1>2, <1>4, <1>7, <1>8, FrameEnds
<1>10. PICK c \in DOMAIN tree : c = h.dir
  BY <1>9
<1>11. Returns(v, w)
  BY <1>1, <1>4, <1>5, <1>8
<1> QED
  BY <1>1, <1>6, <1>7, <1>9, <1>10, <1>11, DuReturns

LEMMA VisitDirectoryKeeps ==
  ASSUME DuInv, VisitDirectory
  PROVE  DuInv'
<1>1. /\ dpc = "call" /\ Visible(path) # {} /\ dpc' = "loop"
      /\ frames' = <<[dir |-> path, todo |-> Entries(path), sum |-> 0]>> \o frames
      /\ UNCHANGED <<tree, argv, path, printed, denied>>
  BY DEF VisitDirectory
<1>2. /\ IsTree(tree) /\ frames \in Seq(FramesOf(tree)) /\ argv \in Seq(DOMAIN tree)
      /\ printed \in Seq(Int) /\ Len(printed) < Len(argv)
  BY <1>1 DEF DuInv, DuKinds
<1>3. /\ path \in DOMAIN tree /\ StackOK(tree, frames, {path})
      /\ BeganAt(tree, frames, Asked) /\ (frames = <<>> => path = Asked)
  BY <1>1 DEF DuInv, DuStack
<1>4. PICK d \in DOMAIN tree : d = path
  BY <1>3
<1>5. PICK s : s = Entries(d)
  OBVIOUS
<1>6. /\ s \in Seq((DOMAIN tree) \X Kinds) /\ NamedOnce(s)
      /\ NamesIn(s) = EntriesIn(tree, d)
  BY <1>2, <1>5, EntriesListed
<1>7. VisibleIn(tree, d) # {}
  BY <1>1, <1>4 DEF Visible, In, VisibleIn, EntriesIn
<1>8. PICK g : g = [dir |-> d, todo |-> s, sum |-> 0]
  OBVIOUS
<1>9. FrameOK(tree, g, {}) /\ g.dir = d
  BY <1>2, <1>6, <1>7, <1>8, FrameBegins
<1>10. PICK fs, w, r : fs = frames /\ w = <<g>> \o fs /\ r = Asked
  OBVIOUS
<1>11. r \in DOMAIN tree
  BY <1>2, <1>10 DEF Asked
<1>12. /\ w \in Seq(FramesOf(tree)) /\ w # <<>>
       /\ StackOK(tree, w, {}) /\ BeganAt(tree, w, r)
  <2>1. /\ fs \in Seq(FramesOf(tree)) /\ StackOK(tree, fs, {d})
        /\ BeganAt(tree, fs, r) /\ (fs = <<>> => d = r)
    BY <1>2, <1>3, <1>4, <1>10
  <2>2. w = <<g>> \o fs
    BY <1>10
  <2> QED
    BY <1>2, <1>9, <1>11, <2>1, <2>2, StackPush
<1>13. frames' = w /\ Asked' = r
  BY <1>1, <1>4, <1>5, <1>8, <1>10 DEF Asked
<1>14. DuKinds'
  BY <1>1, <1>2, <1>12, <1>13 DEF DuKinds
<1>15. DuStack'
  BY <1>1, <1>12, <1>13 DEF DuStack
<1>16. DuFigures' /\ DuGivesUp'
  BY <1>1 DEF DuInv, DuFigures, DuGivesUp
<1> QED
  BY <1>14, <1>15, <1>16 DEF DuInv

(* Without a call that has failed, mydu gives up for a directory in which  *)
(* it has found nothing, and that directory is below the argument.         *)
LEMMA VisitFailsKeeps ==
  ASSUME DuInv, VisitFails
  PROVE  DuInv'
<1>1. /\ dpc = "call" /\ dpc' = "exit"
      /\ denied' = ~(tree[path].dir /\ Visible(path) = {})
      /\ UNCHANGED <<tree, argv, path, frames, printed>>
  BY DEF VisitFails
<1>2. /\ IsTree(tree) /\ frames \in Seq(FramesOf(tree)) /\ argv \in Seq(DOMAIN tree)
      /\ printed \in Seq(Int) /\ Len(printed) < Len(argv)
  BY <1>1 DEF DuInv, DuKinds
<1>3. /\ path \in DOMAIN tree /\ StackOK(tree, frames, {path})
      /\ BeganAt(tree, frames, Asked) /\ (frames = <<>> => path = Asked)
  BY <1>1 DEF DuInv, DuStack
<1>4. PICK r \in DOMAIN tree : r = Asked
  BY <1>2 DEF Asked
<1>5. path \in BelowIn(tree, r)
  <2>1. CASE frames = <<>>
    BY <1>3, <1>4, <2>1, BelowClosed
  <2>2. CASE frames # <<>>
    <3>1. 1 \in DOMAIN frames
      BY <1>2, <2>2
    <3>2. frames[1].dir \in BelowIn(tree, r) /\ FrameOK(tree, frames[1], {path})
      BY <1>3, <1>4, <3>1 DEF BeganAt, StackOK
    <3>3. path \in EntriesIn(tree, frames[1].dir)
      BY <3>2 DEF FrameOK
    <3>4. tree[path].up \in BelowIn(tree, r)
      BY <3>2, <3>3 DEF EntriesIn
    <3> QED
      BY <1>3, <3>4, BelowClosed, Zenon DEF ClosedIn
  <2> QED
    BY <2>1, <2>2
<1>6. Asked' = r
  BY <1>1, <1>4 DEF Asked
<1>7. DuGivesUp'
  <2> SUFFICES ASSUME ~denied'
               PROVE  BareIn(tree', Asked') # {}
    BY DEF DuGivesUp
  <2>1. tree[path].dir /\ Visible(path) = {}
    BY <1>1
  <2>2. VisibleIn(tree, path) = {}
    BY <2>1 DEF Visible, In, VisibleIn, EntriesIn
  <2>3. path \in BareIn(tree, r)
    BY <1>5, <2>1, <2>2 DEF BareIn
  <2> QED
    BY <1>1, <1>6, <2>3
<1>8. DuKinds' /\ DuStack' /\ DuFigures'
  BY <1>1 DEF DuInv, DuKinds, DuStack, DuFigures
<1> QED
  BY <1>7, <1>8 DEF DuInv

LEMMA NextEntryKeeps ==
  ASSUME DuInv, NextEntry
  PROVE  DuInv'
<1>1. /\ dpc = "loop" /\ Head(frames).todo # <<>>
      /\ frames' = [frames EXCEPT ![1].todo = Tail(@)]
      /\ UNCHANGED <<tree, argv, printed, denied>>
      /\ IF path_check(Head(Head(frames).todo))
         THEN dpc' = "call" /\ path' = Head(Head(frames).todo)[1]
         ELSE dpc' = dpc /\ path' = path
  BY DEF NextEntry, Call
<1>2. /\ IsTree(tree) /\ frames \in Seq(FramesOf(tree)) /\ argv \in Seq(DOMAIN tree)
      /\ printed \in Seq(Int) /\ Len(printed) < Len(argv)
  BY <1>1 DEF DuInv, DuKinds
<1>3. frames # <<>> /\ StackOK(tree, frames, {}) /\ BeganAt(tree, frames, Asked)
  BY <1>1 DEF DuInv, DuStack
<1>4. PICK fs : fs = frames
  OBVIOUS
<1>5. PICK h : h = Head(fs)
  OBVIOUS
<1>6. PICK g : g = [h EXCEPT !.todo = Tail(@)]
  OBVIOUS
<1>7. PICK w, r : w = frames' /\ r = Asked
  OBVIOUS
<1>8. /\ fs \in Seq(FramesOf(tree)) /\ fs # <<>> /\ BeganAt(tree, fs, r)
      /\ StackOK(tree, fs, {}) /\ 1 \in DOMAIN fs /\ h = fs[1]
  BY <1>2, <1>3, <1>4, <1>5, <1>7
<1>9. FrameOK(tree, h, {}) /\ h.todo # <<>>
  BY <1>1, <1>4, <1>5, <1>8 DEF StackOK
<1>10. h \in FramesOf(tree) /\ h.todo \in Seq((DOMAIN tree) \X Kinds)
  BY <1>9 DEF FrameOK, FramesOf
<1>11. g \in FramesOf(tree) /\ g.dir = h.dir
  <2>1. Tail(h.todo) \in Seq((DOMAIN tree) \X Kinds)
    BY <1>9, <1>10
  <2> QED
    BY <1>6, <1>10, <2>1 DEF FramesOf
<1>12. w = [fs EXCEPT ![1] = g]
  BY <1>1, <1>4, <1>6, <1>7, <1>8
<1>13. w \in Seq(FramesOf(tree)) /\ NewTop(fs, g, w) /\ w # <<>>
  BY <1>8, <1>11, <1>12 DEF NewTop
<1>14. /\ path_check(Head(h.todo)) =>
            /\ Head(h.todo)[1] \in EntriesIn(tree, h.dir)
            /\ FrameOK(tree, g, {Head(h.todo)[1]})
       /\ ~path_check(Head(h.todo)) => FrameOK(tree, g, {})
  BY <1>6, <1>9, FrameNext
<1>15. Asked' = r /\ frames' = w /\ tree' = tree
  BY <1>1, <1>7 DEF Asked
<1>16. g.dir = Head(fs).dir
  BY <1>5, <1>11
<1>17. DuKinds'
  BY <1>1, <1>2, <1>13, <1>15 DEF DuKinds
<1>18. DuFigures' /\ DuGivesUp'
  BY <1>1 DEF DuInv, DuFigures, DuGivesUp
<1>19. CASE path_check(Head(h.todo))
  <2>1. PICK x : x = Head(h.todo)[1]
    OBVIOUS
  <2>2. x \in DOMAIN tree /\ FrameOK(tree, g, {x})
    BY <1>14, <1>19, <2>1 DEF EntriesIn
  <2>3. StackOK(tree, w, {x}) /\ BeganAt(tree, w, r)
    BY <1>8, <1>13, <1>16, <2>2, StackTop, Zenon
  <2>4. dpc' = "call" /\ path' = x
    BY <1>1, <1>4, <1>5, <1>19, <2>1
  <2>5. DuStack'
    BY <1>13, <1>15, <2>2, <2>3, <2>4 DEF DuStack
  <2> QED
    BY <1>17, <1>18, <2>5 DEF DuInv
<1>20. CASE ~path_check(Head(h.todo))
  <2>1. StackOK(tree, w, {}) /\ BeganAt(tree, w, r)
    BY <1>8, <1>13, <1>14, <1>16, <1>20, StackTop, Zenon
  <2>2. dpc' = "loop"
    BY <1>1, <1>4, <1>5, <1>20
  <2>3. DuStack'
    BY <1>13, <1>15, <2>1, <2>2 DEF DuStack
  <2> QED
    BY <1>17, <1>18, <2>3 DEF DuInv
<1> QED
  BY <1>19, <1>20

LEMMA NextArgumentKeeps ==
  ASSUME DuInv, NextArgument
  PROVE  DuInv'
<1>1. /\ dpc = "arg"
      /\ UNCHANGED <<tree, argv, frames, printed, denied>>
      /\ IF Len(printed) < Len(argv)
         THEN dpc' = "call" /\ path' = argv[Len(printed) + 1]
         ELSE dpc' = "exit"
  BY DEF NextArgument, Call
<1>2. /\ IsTree(tree) /\ frames = <<>> /\ argv \in Seq(DOMAIN tree)
      /\ printed \in Seq(Int)
  BY <1>1 DEF DuInv, DuKinds, DuStack
<1>3. DuFigures'
  BY <1>1 DEF DuInv, DuFigures
<1>4. DuKinds' /\ DuGivesUp'
  BY <1>1 DEF DuInv, DuKinds, DuGivesUp
<1>5. DuStack'
  <2>1. Asked' = Asked /\ tree' = tree /\ frames' = <<>>
    BY <1>1, <1>2 DEF Asked
  <2>2. \A t, r : BeganAt(t, <<>>, r)
    BY DEF BeganAt
  <2>3. \A t, inside : StackOK(t, <<>>, inside)
    BY DEF StackOK
  <2>4. CASE Len(printed) < Len(argv)
    <3>1. dpc' = "call" /\ path' = Asked /\ Asked \in DOMAIN tree
      BY <1>1, <1>2, <2>4 DEF Asked
    <3> QED
      BY <2>1, <2>2, <2>3, <3>1 DEF DuStack
  <2>5. CASE ~(Len(printed) < Len(argv))
    BY <1>1, <2>5 DEF DuStack
  <2> QED
    BY <2>4, <2>5
<1> QED
  BY <1>3, <1>4, <1>5 DEF DuInv

LEMMA NoTreeIsTree ==
  IsTree(NoTree)
<1>1. /\ DOMAIN NoTree = {0}
      /\ NoTree = [q \in {0} |-> [up |-> 0, dir |-> FALSE, hidden |-> FALSE, blocks |-> 1]]
  BY DEF NoTree
<1>2. IsFiniteSet({0})
  BY FS_Singleton
<1>3. NoTree[0] = [up |-> 0, dir |-> FALSE, hidden |-> FALSE, blocks |-> 1]
  BY <1>1
<1>4. NoTree \in [{0} -> [up : {0}, dir : BOOLEAN, hidden : BOOLEAN, blocks : Nat]]
  BY <1>1
<1>5. NoTree[0].up = 0
  BY <1>3
<1>6. \A S \in SUBSET {0} : S # {} => 0 \in S
  OBVIOUS
<1> QED
  BY <1>1, <1>2, <1>4, <1>5, <1>6 DEF IsTree

LEMMA DuInit ==
  ASSUME Init
  PROVE  DuInv
<1>1. IsTree(tree)
  BY NoTreeIsTree, TreesAssumption DEF Init
<1>2. dpc = "idle" /\ argv = <<>> /\ frames = <<>> /\ printed = <<>>
  BY DEF Init, DiskIdle
<1>3. <<>> \in Seq(DOMAIN tree) /\ <<>> \in Seq(FramesOf(tree)) /\ <<>> \in Seq(Int)
  OBVIOUS
<1>4. DuKinds
  BY <1>1, <1>2, <1>3 DEF DuKinds
<1> QED
  BY <1>2, <1>4 DEF DuInv, DuStack, DuFigures, DuGivesUp

LEMMA DuBegins ==
  ASSUME DuInv, NEW args \in Arguments, StartDu(args)
  PROVE  DuInv'
<1>1. /\ dpc = "idle" /\ tree' = tree /\ frames' = frames /\ printed' = printed
      /\ \/ /\ \A k \in DOMAIN args : args[k] \in DOMAIN tree
            /\ argv' = args /\ dpc' = "arg"
         \/ (\E cwd \in DOMAIN tree : argv' = <<cwd>>) /\ dpc' = "arg"
         \/ argv' = argv /\ dpc' = "exit" /\ denied'
  BY DEF StartDu
<1>2. /\ IsTree(tree) /\ frames = <<>> /\ printed = <<>> /\ argv \in Seq(DOMAIN tree)
  BY <1>1 DEF DuInv, DuKinds, DuStack
<1>3. <<>> \in Seq(FramesOf(tree)) /\ <<>> \in Seq(Int)
  OBVIOUS
<1>4. argv' \in Seq(DOMAIN tree)
  <2>1. CASE argv' = args /\ \A k \in DOMAIN args : args[k] \in DOMAIN tree
    <3>1. args \in Seq(UNION {DOMAIN t : t \in Trees})
      BY TreesAssumption
    <3>2. Len(args) \in Nat /\ args = [k \in 1 .. Len(args) |-> args[k]]
      BY <3>1
    <3>3. DOMAIN args = 1 .. Len(args)
      BY <3>2
    <3> QED
      BY <2>1, <3>2, <3>3
  <2>2. CASE \E cwd \in DOMAIN tree : argv' = <<cwd>>
    BY <2>2
  <2> QED
    BY <1>1, <1>2, <2>1, <2>2
<1>5. dpc' \in {"arg", "exit"} /\ (dpc' = "exit" => denied')
  BY <1>1
<1>6. DuKinds'
  BY <1>1, <1>2, <1>3, <1>4, <1>5 DEF DuKinds
<1>7. DuFigures'
  <2>1. Len(argv') \in Nat
    BY <1>4
  <2>2. printed' = <<>>
    BY <1>1, <1>2
  <2>3. Len(<<>>) = 0 /\ DOMAIN <<>> = {}
    OBVIOUS
  <2> QED
    BY <2>1, <2>2, <2>3 DEF DuFigures
<1>8. DuStack' /\ DuGivesUp'
  BY <1>1, <1>2, <1>5 DEF DuStack, DuGivesUp
<1> QED
  BY <1>6, <1>7, <1>8 DEF DuInv

LEMMA DuSame ==
  ASSUME DuInv, UNCHANGED diskVars
  PROVE  DuInv'
<1>1. UNCHANGED <<tree, dpc, argv, path, frames, printed, denied>>
  BY DEF diskVars
<1>2. Asked' = Asked
  BY <1>1 DEF Asked
<1>3. DuKinds' /\ DuFigures'
  BY <1>1 DEF DuInv, DuKinds, DuFigures
<1>4. DuStack' /\ DuGivesUp'
  BY <1>1, <1>2 DEF DuInv, DuStack, DuGivesUp
<1> QED
  BY <1>3, <1>4 DEF DuInv

LEMMA DuStepKinds ==
  ASSUME [Next]_vars
  PROVE  \/ \E args \in Arguments : StartDu(args)
         \/ DiskStep
         \/ UNCHANGED diskVars
<1>1. CASE Start
  BY <1>1, Zenon DEF Start
<1>2. CASE Step
  BY <1>2, Zenon DEF Step
<1>3. CASE UNCHANGED vars
  BY <1>3 DEF vars
<1> QED
  BY <1>1, <1>2, <1>3 DEF Next

LEMMA DuAlways ==
  Spec => []DuInv
<1>1. DuInv /\ [Next]_vars => DuInv'
  <2> SUFFICES ASSUME DuInv, [Next]_vars
               PROVE  DuInv'
    OBVIOUS
  <2>1. CASE DiskStep
    BY <2>1, NextArgumentKeeps, VisitFileKeeps, VisitDirectoryKeeps, VisitFailsKeeps,
       NextEntryKeeps, LastEntryKeeps DEF DiskStep
  <2> QED
    BY <2>1, DuBegins, DuSame, DuStepKinds
<1> QED
  BY <1>1, DuInit, PTL DEF Spec

LEMMA DuMeans ==
  ASSUME DuInv
  PROVE  UsageOfTree
<1>1. \A S : Closed(S) <=> ClosedIn(tree, S)
  BY Zenon DEF Closed, ClosedIn
<1>2. \A p : Below(p) = BelowIn(tree, p)
  BY <1>1, Zenon DEF Below, BelowIn
<1>3. \A p : In(p) = EntriesIn(tree, p)
  BY Zenon DEF In, EntriesIn
<1>4. \A p : Visible(p) = VisibleIn(tree, p)
  BY <1>3, Zenon DEF Visible, VisibleIn
<1>5. \A p : Bare(p) = BareIn(tree, p)
  BY <1>2, <1>4, Zenon DEF Bare, BareIn
<1>6. \A Q : BlocksOf(Q) = BlocksIn(tree, Q)
  BY Zenon DEF BlocksOf, BlocksIn
<1>7. \A p : Total(p) = WeightIn(tree, BelowIn(tree, p))
  BY <1>2, <1>6, Zenon DEF Total, WeightIn
<1>8. ASSUME NEW k \in DOMAIN printed
      PROVE  printed[k] = Total(argv[k]) \div 2 /\ Bare(argv[k]) = {}
  <2>1. IsFigure(tree, printed[k], argv[k])
    BY DEF DuInv, DuFigures
  <2> QED
    BY <1>5, <1>7, <2>1 DEF IsFigure
<1>9. (dpc = "exit" /\ ~denied /\ Len(printed) < Len(argv)) =>
         Bare(argv[Len(printed) + 1]) # {}
  BY <1>5 DEF DuInv, DuGivesUp, Asked
<1> QED
  BY <1>8, <1>9, Zenon DEF UsageOfTree

(* Whatever the tree and the arguments, each figure mydu prints is half    *)
(* the blocks of all that is below its argument, each path once and "."    *)
(* and ".." never; and it gives up only for a call that failed or for a    *)
(* directory in which the shell's * would find nothing.                    *)
THEOREM UsageIsRight == Spec => []UsageOfTree
BY DuAlways, DuMeans, PTL
=============================================================================
