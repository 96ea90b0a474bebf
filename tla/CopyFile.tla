------------------------------ MODULE CopyFile ------------------------------
(***************************************************************************)
(* The copy tools: sysio/mycp_sysio.c, cp/cp_tlpi.c and cp/cp_holes.c on   *)
(* descriptors, stdio/mycp_fgetc.c, mycp_fgets.c and mycp_fread.c on       *)
(* streams.  All are a loop that reads a piece of the source and puts it   *)
(* into the target; they differ in the piece, and in what they make of a   *)
(* write that falls short.                                                 *)
(*                                                                         *)
(* What is put into a stream reaches the file at once, or not at all; the  *)
(* order is the same, and no tool looks at the target while it runs.       *)
(* Auxiliary: source, the source before; faulty, a call has failed or been *)
(* short; lost, the first place in the target where a byte of the source   *)
(* was to go and did not, or 0.                                            *)
(***************************************************************************)
EXTENDS Files

VARIABLES
  cpc,                 \* "idle", "read", "write", "exit"
  tool,
  cin, cout,           \* argv[1], argv[2]
  rpos, wpos,          \* offsets of the two descriptors
  buf,
  cursor,              \* how much of buf has been dealt with
  complained,          \* something was written to stderr
  source, faulty, lost

copyVars == <<cpc, tool, cin, cout, rpos, wpos, buf, cursor, complained,
              source, faulty, lost>>

Checked == {"tlpi", "holes"}           \* compare write's result
Plain   == {"sysio"} \union Checked    \* on descriptors
Streams == {"fgetc", "fgets", "fread"}
Tools   == Plain \union Streams

CopyIdle ==
  /\ cpc = "idle" /\ tool = "none" /\ cin = AnyName /\ cout = cin
  /\ rpos = 0 /\ wpos = 0 /\ buf = <<>> /\ cursor = 0
  /\ complained = FALSE /\ source = <<>>
  /\ faulty = FALSE /\ lost = 0

-----------------------------------------------------------------------------
(* Both opens; the second empties the target, or creates it.  (Mutated:    *)
(* without O_TRUNC.)                                                       *)
Open_Keep(old) == old
Open(old) == <<>>

StartCopy(t, a, b) ==
  /\ cpc = "idle"
  /\ tool' = t /\ cin' = a /\ cout' = b /\ source' = files[a]
  /\ \/ /\ cpc' = "read" /\ files' = [files EXCEPT ![b] = Open(files[b])]
        /\ UNCHANGED <<complained, faulty>>
     \/ /\ cpc' = "exit" /\ complained' = TRUE /\ faulty' = TRUE
        /\ UNCHANGED files
  /\ UNCHANGED <<rpos, wpos, buf, cursor, lost>>

-----------------------------------------------------------------------------
(* The pieces a tool can read next: what read returns, or a character, or  *)
(* what fits the buffer, or of a line what fits the buffer and a '\0'.     *)
Ahead(n) == SubSeq(files[cin], rpos + 1, Least(rpos + n, Len(files[cin])))
NextLine ==
  LET most == Ahead(BUFSIZE - 1)
      ends == {i \in 1 .. Len(most) : most[i] = NL}
  IN  IF ends = {} THEN most ELSE SubSeq(most, 1, Min(ends))
Pieces ==
  CASE tool \in Plain   -> Chunks(files[cin], rpos)
    [] tool = "fgetc"   -> {Ahead(1)}
    [] tool = "fgets"   -> {NextLine}
    [] tool = "fread"   -> {Ahead(BUFSIZE)}

Read ==
  /\ cpc = "read"
  /\ \E piece \in Pieces :
       /\ piece # <<>>
       /\ buf' = piece /\ rpos' = rpos + Len(piece)
  /\ cursor' = 0 /\ cpc' = "write"
  /\ UNCHANGED <<files, tool, cin, cout, wpos, complained, source, faulty, lost>>

(* End of file, then the closes, of which some tools ask whether they      *)
(* failed; or a failed read, which streams do not tell from end of file.   *)
CopyEnds ==
  /\ cpc = "read" /\ cpc' = "exit"
  /\ \/ <<>> \in Pieces /\ UNCHANGED <<complained, faulty>>
     \/ /\ <<>> \in Pieces /\ tool \in Checked
        /\ complained' = TRUE /\ faulty' = TRUE
     \/ complained' = (complained \/ tool \in Plain) /\ faulty' = TRUE
  /\ UNCHANGED <<files, tool, cin, cout, rpos, wpos, buf, cursor, source, lost>>

-----------------------------------------------------------------------------
(* n bytes of data reach the target, by a write that wanted them all and   *)
(* was to bring a piece of the source of all bytes.                        *)
Put(data, n, all) ==
  /\ files' = [files EXCEPT ![cout] = WriteAt(files[cout], wpos, SubSeq(data, 1, n))]
  /\ wpos' = wpos + n
  /\ faulty' = (faulty \/ n < Len(data))
  /\ lost' = IF lost = 0 /\ n < all THEN wpos + n + 1 ELSE lost

(* The tool has dealt with n more bytes of buf. *)
Dealt(n) ==
  /\ cursor' = cursor + n
  /\ cpc' = IF cursor + n = Len(buf) THEN "read" ELSE "write"

frame == <<tool, cin, cout, rpos, buf, source>>

(* fatal() unless all of data was written.  (Mutated: only an error is     *)
(* noticed.)                                                               *)
PutOrDie_Lenient(data, n) ==
  /\ Put(data, n, Len(data))
  /\ IF n = 0
     THEN cpc' = "exit" /\ complained' = TRUE /\ UNCHANGED cursor
     ELSE Dealt(Len(data)) /\ UNCHANGED complained
PutOrDie(data, n) ==
  /\ Put(data, n, Len(data))
  /\ IF n < Len(data)
     THEN cpc' = "exit" /\ complained' = TRUE /\ UNCHANGED cursor
     ELSE Dealt(Len(data)) /\ UNCHANGED complained

WriteWhole ==
  /\ cpc = "write" /\ tool = "tlpi"
  /\ \E n \in 0 .. Len(buf) : PutOrDie(buf, n)
  /\ UNCHANGED frame

(* fputc, fputs up to the first '\0', fwrite: the result is not looked at. *)
CString(s) ==
  LET ends == {i \in 1 .. Len(s) : s[i] = NUL}
  IN  IF ends = {} THEN s ELSE SubSeq(s, 1, Min(ends) - 1)
WriteStream ==
  /\ cpc = "write" /\ tool \in Streams
  /\ LET data == IF tool = "fgets" THEN CString(buf) ELSE buf
     IN  \E n \in 0 .. Len(data) : Put(data, n, Len(buf))
  /\ Dealt(Len(buf))
  /\ UNCHANGED <<frame, complained>>

(* mycp_sysio's inner loop: what is left of num bytes is written from the  *)
(* start of buf every time.  An error leaves the inner loop only.          *)
num == Len(buf) - cursor
WriteAgain ==
  /\ cpc = "write" /\ tool = "sysio"
  /\ \/ /\ \E k \in 1 .. num : Put(SubSeq(buf, 1, num), k, num) /\ Dealt(k)
        /\ UNCHANGED complained
     \/ /\ Put(buf, 0, num)
        /\ cpc' = "read" /\ complained' = TRUE /\ UNCHANGED cursor
  /\ UNCHANGED frame

(* cp_holes goes through buf run by run, zeros or others.                  *)
Run ==
  LET other == {i \in cursor + 1 .. Len(buf) :
                   (buf[i] = NUL) # (buf[cursor + 1] = NUL)}
  IN  SubSeq(buf, cursor + 1, IF other = {} THEN Len(buf) ELSE Min(other) - 1)

WriteRun ==
  /\ cpc = "write" /\ tool = "holes" /\ buf[cursor + 1] # NUL
  /\ \E n \in 0 .. Len(Run) : PutOrDie(Run, n)
  /\ UNCHANGED frame

(* lseek, which is fatal if it fails. *)
SkipZeros ==
  /\ cpc = "write" /\ tool = "holes" /\ buf[cursor + 1] = NUL
  /\ \/ /\ wpos' = wpos + Len(Run) /\ Dealt(Len(Run))
        /\ UNCHANGED <<complained, faulty>>
     \/ /\ cpc' = "exit" /\ complained' = TRUE /\ faulty' = TRUE
        /\ UNCHANGED <<wpos, cursor>>
  /\ UNCHANGED <<files, frame, lost>>

CopyStep ==
  Read \/ CopyEnds \/ WriteWhole \/ WriteStream \/ WriteAgain \/ WriteRun
  \/ SkipZeros

-----------------------------------------------------------------------------
(* Properties.                                                             *)

target == files[cout]

(* cp on one file twice empties it. *)
Copying == cpc # "idle" /\ cin # cout

(* At any time, whatever calls have failed or been short, the target is no *)
(* longer than the source, and up to the first place where a byte went     *)
(* missing it is the source as far as it goes: pieces are put in order, at *)
(* their offsets, and nothing of an older file is left between or behind.  *)
CopyInOrder ==
  (Copying /\ rpos > 0) =>
    /\ Len(target) <= Len(source)
    /\ \A k \in 1 .. Len(target) : lost = 0 \/ k < lost => target[k] = source[k]

(* A tool that compares write's result and ends without a complaint has    *)
(* not had a call that failed or was short.  Without a complaint, the      *)
(* target of mycp_sysio and cp_tlpi is as long as the source, that of      *)
(* cp_holes but for zeros at the source's end, and that of the tools on    *)
(* streams unless a call has failed or a '\0' has cut a line short.        *)
CopyOrComplain ==
  (Copying /\ cpc = "exit" /\ ~complained) =>
    /\ tool \in Checked => ~faulty
    /\ tool \in {"sysio", "tlpi"} => Len(target) = Len(source)
    /\ tool = "holes" => \A k \in Len(target) + 1 .. Len(source) : source[k] = NUL
    /\ tool \in Streams => faulty \/ lost > 0 \/ Len(target) = Len(source)

(* What cp promises of a tool t that has ended and said nothing; of one on *)
(* streams, which says nothing of failures, if no call has failed.         *)
Copies(t) ==
  (Copying /\ tool = t /\ cpc = "exit" /\ ~complained /\ (t \in Streams => ~faulty)) =>
    target = source

(* The loop around write is there "to force the program to read the whole  *)
(* content" although a call may be partial (mycp_sysio.c:45-48): a short   *)
(* write spoils no copy.  False of the code, as the next two.              *)
SysioCopies == Copies("sysio")

(* cp_holes adds "copying files with holes" to cp (README.md:11), also of  *)
(* one that ends in a hole.                                                *)
HolesCopies == Copies("holes")

(* mycp_fgets is one of the versions of cp (README.md:11), for any file.   *)
FgetsCopies == Copies("fgets")
=============================================================================
