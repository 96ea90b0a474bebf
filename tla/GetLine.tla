------------------------------ MODULE GetLine -------------------------------
(***************************************************************************)
(* stdio/my_getline.c: my_getline and the program that calls it for every  *)
(* line of a file.  The buffer starts at MALLOCSIZE bytes, is doubled when *)
(* a line does not fit, and is kept from call to call.                     *)
(*                                                                         *)
(* A region of memory is a handle and its bytes; realloc may or may not    *)
(* move it.  Auxiliary: lines, how many calls have returned a line, and    *)
(* failed, that fopen, a read or malloc has failed.                        *)
(***************************************************************************)
EXTENDS Files

CONSTANTS
  MALLOCSIZE,          \* 120
  Handles,             \* addresses malloc and realloc may return
  Garbage              \* a byte of fresh memory

ASSUME GetLineAssumption == MALLOCSIZE \in Nat \ {0, 1}

VARIABLES
  gpc,                 \* "idle", "call", "char", "exit"
  gname, offset,       \* the stream: its file and its position
  lineptr,             \* a handle, or 0
  n,
  region,              \* the bytes at lineptr, from 0 on
  cur_pos,             \* [at, off]: a handle and an offset in it
  count,
  lines, failed

lineVars == <<gpc, gname, offset, lineptr, n, region, cur_pos, count, lines,
              failed>>

text == files[gname]
Fresh(size) == [k \in 0 .. size - 1 |-> Garbage]

LineIdle ==
  /\ gpc = "idle" /\ gname = AnyName /\ offset = 0
  /\ lineptr = 0 /\ n = 0 /\ region = Fresh(0) /\ cur_pos = [at |-> 0, off |-> 0]
  /\ count = 0 /\ lines = 0 /\ failed = FALSE

(* main: fopen, which may fail *)
StartLines(name) ==
  /\ gpc = "idle"
  /\ \/ gpc' = "call" /\ UNCHANGED failed
     \/ gpc' = "exit" /\ failed' = TRUE
  /\ gname' = name
  /\ UNCHANGED <<files, offset, lineptr, n, region, cur_pos, count, lines>>

Fails == gpc' = "exit" /\ failed' = TRUE

(* my_getline up to its loop.  (Mutated: the second call does not start at *)
(* the front of the buffer.)                                               *)
Top_Kept == IF lineptr = 0 THEN [at |-> lineptr', off |-> 0] ELSE cur_pos
Top == [at |-> lineptr', off |-> 0]

CallGetline ==
  /\ gpc = "call"
  /\ IF lineptr # 0
     THEN UNCHANGED <<lineptr, n, region>>
     ELSE /\ lineptr' \in Handles \union {0} /\ n' = MALLOCSIZE
          /\ region' = IF lineptr' = 0 THEN region ELSE Fresh(MALLOCSIZE)
  /\ IF lineptr' = 0
     THEN Fails /\ UNCHANGED <<cur_pos, count>>
     ELSE /\ gpc' = "char" /\ cur_pos' = Top /\ count' = 0
          /\ UNCHANGED failed
  /\ UNCHANGED <<files, gname, offset, lines>>

(* EOF, also behind a partial line: my_getline returns -1, which ends      *)
(* main; so does a read error.  (Mutated: it returns count.)               *)
EndOfLines_Count ==
  /\ gpc = "char" /\ gpc' = "call"
  /\ UNCHANGED <<files, gname, offset, lineptr, n, region, cur_pos, count,
                 lines, failed>>
EndOfLines ==
  /\ gpc = "char"
  /\ \/ offset = Len(text) /\ gpc' = "exit" /\ UNCHANGED failed
     \/ offset < Len(text) /\ Fails
  /\ UNCHANGED <<files, gname, offset, lineptr, n, region, cur_pos, count, lines>>

(* One character arrives for a buffer that is full but for the '\0'.       *)
(* (Mutated: cur_pos is not derived again from the buffer that realloc     *)
(* returned.)                                                              *)
Full == count + 1 > n - 1
Moved_Stale == [at |-> cur_pos.at, off |-> count]
Moved == [at |-> lineptr', off |-> count]

Grown(size) ==
  [k \in 0 .. size - 1 |-> IF k \in DOMAIN region THEN region[k] ELSE Garbage]

(* The character is stored at c.off of r, and '\0' behind a line's end.    *)
Stored(r, c, ch) == [k \in DOMAIN r |-> IF k = c.off THEN ch ELSE r[k]]
Store(r, c) ==
  LET ch == text[offset + 1]
      r1 == Stored(r, c, ch)
      c1 == [c EXCEPT !.off = @ + 1]
  IN  /\ cur_pos' = c1 /\ offset' = offset + 1 /\ count' = count + 1
      /\ IF ch = NL
         THEN region' = Stored(r1, c1, NUL) /\ gpc' = "call" /\ lines' = lines + 1
         ELSE region' = r1 /\ UNCHANGED <<gpc, lines>>

Char ==
  /\ gpc = "char" /\ offset < Len(text)
  /\ IF Full
     THEN n' = 2 * n /\ lineptr' \in Handles /\ Store(Grown(2 * n), Moved)
     ELSE UNCHANGED <<n, lineptr>> /\ Store(region, cur_pos)
  /\ UNCHANGED <<files, gname, failed>>

(* realloc fails: n has been doubled, the character is lost.               *)
CharNoMemory ==
  /\ gpc = "char" /\ offset < Len(text) /\ Full
  /\ n' = 2 * n /\ offset' = offset + 1 /\ count' = count + 1
  /\ Fails
  /\ UNCHANGED <<files, gname, lineptr, region, cur_pos, lines>>

LineStep == CallGetline \/ Char \/ CharNoMemory \/ EndOfLines

-----------------------------------------------------------------------------
(* Properties.                                                             *)

(* my_getline writes through cur_pos: in the loop it points into the       *)
(* buffer the caller has, behind the characters of this line, with room    *)
(* for one more and the '\0'; and the size the caller is told is the       *)
(* buffer's, through every doubling and move and in the calls that follow. *)
CursorInBuffer ==
  gpc = "char" =>
    /\ cur_pos = [at |-> lineptr, off |-> count]
    /\ count < n /\ DOMAIN region = 0 .. n - 1

Ended(k) == Cardinality({j \in 1 .. k : text[j] = NL})

(* The last line of a file may lack its break.                             *)
Partial == text # <<>> /\ text[Len(text)] # NL

(* Every call that returns returns a line: the buffer has, from its front, *)
(* the last count bytes read from the stream, in a call the line so far,   *)
(* after it the whole line, which has no line break but at its end, ends   *)
(* there or with the file, and has a '\0' behind it.  Every line in front  *)
(* of the position that ends in a break has been returned, once, and       *)
(* nothing else but the partial line at the end of the file, if that; and  *)
(* when main ends, all of the file has been read (unless a call failed).   *)
LineInBuffer ==
  /\ CursorInBuffer
  /\ (gpc = "char" \/ (gpc = "call" /\ lines > 0)) =>
       /\ \A k \in 0 .. count - 1 :
            /\ region[k] = text[offset - count + k + 1]
            /\ region[k] = NL => gpc = "call" /\ k = count - 1
       /\ gpc = "call" => /\ count > 0 /\ region[count] = NUL
                          /\ region[count - 1] = NL \/ offset = Len(text)
       /\ offset = count \/ text[offset - count] = NL
  /\ ~failed => /\ \/ lines = Ended(offset)
                   \/ lines = Ended(offset) + 1 /\ offset = Len(text) /\ Partial
                /\ gpc = "exit" => offset = Len(text)

(* getline returns a line that lacks its break at the end of the file as   *)
(* well, and -1 only if there is nothing left (man_getline:22-23, 33-34,   *)
(* 37-41, which README.md:12 says my_getline follows).  False of the code. *)
LastLineReturned ==
  (gpc = "exit" /\ ~failed) => lines = Ended(Len(text)) + IF Partial THEN 1 ELSE 0
=============================================================================
