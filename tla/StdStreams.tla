----------------------------- MODULE StdStreams ------------------------------
(***************************************************************************)
(* lib/error_functions.c, and what a program may do around it: print to    *)
(* stdout, which is buffered, write to descriptor 1 behind its back        *)
(* (sysio/ab.c), redirect it (sysio/dup_redirect.c), and fork a child,     *)
(* which inherits what is in the buffer.  Messages go to the terminal; so  *)
(* does stdout, unless it is redirected or was closed by the user.         *)
(*                                                                         *)
(* Every write is a step, so two processes may mix, and may fail or be     *)
(* short.  What is printed is a number.  Auxiliary, of a process: printed, *)
(* what it has printed and no failed write was to bring; and quiet, that   *)
(* it has done nothing but fail with err_exit.                             *)
(***************************************************************************)
EXTENDS Integers, Sequences, FiniteSets

CONSTANTS
  Errors,                  \* values of errno
  MaxPrints, MaxReports    \* bounds: pieces of output and messages in all

VARIABLES
  redirects,               \* the program redirects descriptor 1
  out,                     \* where descriptor 1 goes: "tty", "file", "none"
  shown,                   \* what has arrived at each place
  pieces, reports,         \* how many there have been
  procs                    \* of each process: at, fn (the call it is in or
                           \* was in last), buffer, errno, saved, printed, quiet

streamVars == <<redirects, out, shown, pieces, reports, procs>>

(* errExitEN and fatal are errExit with another wording, and cmdLineErr is *)
(* usageErr.                                                               *)
Reports == {"errMsg", "errExit", "err_exit", "usageErr"}
AnyErr  == CHOOSE e \in Errors : TRUE
NewProcess(at) ==
  [at |-> at, fn |-> "none", buffer |-> <<>>, errno |-> AnyErr, saved |-> AnyErr,
   printed |-> {}, quiet |-> TRUE]

StreamsIdle ==
  /\ redirects = FALSE /\ out = "tty" /\ pieces = 0 /\ reports = 0
  /\ shown = [place \in {"tty", "file"} |-> <<>>]
  /\ procs = [p \in {"parent", "child"} |-> NewProcess("none")]

StartProgram(redir, stdout) ==
  /\ stdout = "none" => redir
  /\ redirects' = redir /\ out' = stdout
  /\ procs' = [procs EXCEPT !.parent = NewProcess(IF redir THEN "open" ELSE "run")]
  /\ UNCHANGED <<shown, pieces, reports>>

(* open, then dup2(fd, 1); fd itself is closed unless it is 1, which open  *)
(* returns if it is free.  (Mutated: it is closed.)  That dup2 of another  *)
(* fd has failed is not noticed, and nothing is redirected.                *)
Redirected_Close(fd) == IF fd = 1 THEN "none" ELSE "file"
Redirected(fd) == "file"
Redirect ==
  /\ procs.parent.at = "open"
  /\ \/ /\ procs' = [procs EXCEPT !.parent.at = "run"]
        /\ \/ /\ out' = Redirected(IF out = "none" THEN 1 ELSE 3)
              /\ UNCHANGED redirects
           \/ out # "none" /\ redirects' = FALSE /\ UNCHANGED out
     \/ procs' = [procs EXCEPT !.parent.at = "failed"] /\ UNCHANGED <<redirects, out>>
  /\ UNCHANGED <<shown, pieces, reports>>

ItemsOf(s) == {s[k] : k \in DOMAIN s}

(* A write to descriptor 1 that is to bring items, of which the first m    *)
(* arrive; if that is not all of them, it has failed.                      *)
Arrives(items, m) ==
  shown' = IF out = "none" THEN shown
           ELSE [shown EXCEPT ![out] = @ \o SubSeq(items, 1, m)]
Rest(items, m) == SubSeq(items, m + 1, Len(items))

(* What r may be when its buffer, buf, has been written that way: stdio    *)
(* keeps what a failed write has left, or drops it.                        *)
Written(r, buf, m) ==
  {[r EXCEPT !.buffer = left, !.printed = @ \ ItemsOf(Rest(buf, m))] :
     left \in {<<>>, Rest(buf, m)}}

Piece == [no |-> pieces + 1]
NextPiece == pieces < MaxPrints /\ pieces' = pieces + 1

(* fputc, fputs: a full buffer, or on a terminal a line break, flushes.    *)
Puts(p) ==
  /\ procs[p].at = "run" /\ NextPiece
  /\ LET buf == Append(procs[p].buffer, Piece)
         r   == [procs[p] EXCEPT !.buffer = buf, !.printed = @ \union {Piece},
                                 !.quiet = FALSE, !.fn = "none"]
     IN  \/ procs' = [procs EXCEPT ![p] = r] /\ UNCHANGED shown
         \/ \E m \in 0 .. Len(buf) :
              /\ \E w \in Written(r, buf, m) : procs' = [procs EXCEPT ![p] = w]
              /\ Arrives(buf, m)
  /\ UNCHANGED <<redirects, out, reports>>

Write(p) ==
  /\ procs[p].at = "run" /\ NextPiece
  /\ \E m \in {0, 1} : Arrives(<<Piece>>, m)
  /\ procs' = [procs EXCEPT ![p].fn = "none"]
  /\ UNCHANGED <<redirects, out, reports>>

Fork ==
  /\ procs.parent.at = "run" /\ procs.child.at = "none"
  /\ procs' = [procs EXCEPT !.child = [procs.parent EXCEPT !.quiet = TRUE]]
  /\ UNCHANGED <<redirects, out, shown, pieces, reports>>

(* A call of one of the functions, with errno as a failure has left it:    *)
(* which of the values that is does not matter.                            *)
Report(p, f) ==
  /\ procs[p].at = "run" /\ reports < MaxReports /\ reports' = reports + 1
  /\ procs' = [procs EXCEPT ![p].at = "flush", ![p].fn = f, ![p].errno = AnyErr,
                            ![p].saved = AnyErr, ![p].quiet = @ /\ f = "err_exit"]
  /\ UNCHANGED <<redirects, out, shown, pieces>>

(* All but err_exit flush stdout first.  (Mutated: so does err_exit; or it *)
(* is left to exit, which comes after the message.)                        *)
Flushes_Always(f) == TRUE
Flushes_AtExit(f) == f = "usageErr"
Flushes(f) == f # "err_exit"

(* fflush may change errno (which matters to errMsg only); the message has *)
(* been made before it.                                                    *)
Flush(p) ==
  /\ procs[p].at = "flush"
  /\ IF Flushes(procs[p].fn)
     THEN \E err \in Errors, m \in 0 .. Len(procs[p].buffer) :
            /\ procs[p].fn = "errMsg" \/ err = AnyErr
            /\ \E w \in Written(procs[p], procs[p].buffer, m) :
                 procs' = [procs EXCEPT ![p] = [w EXCEPT !.at = "say", !.errno = err]]
            /\ Arrives(procs[p].buffer, m)
     ELSE procs' = [procs EXCEPT ![p].at = "say"] /\ UNCHANGED shown
  /\ UNCHANGED <<redirects, out, pieces, reports>>

(* outputError puts a message together and writes it at once, the usage    *)
(* functions write a heading and then the text; either may fail.           *)
Say(p) ==
  /\ procs[p].at \in {"say", "text"}
  /\ \/ shown' = [shown EXCEPT !.tty = Append(@,
                   [by |-> p, fn |-> procs[p].fn, sofar |-> procs[p].printed])]
     \/ UNCHANGED shown
  /\ procs' = [procs EXCEPT ![p].at =
                 IF procs[p].at = "say" /\ procs[p].fn = "usageErr" THEN "text" ELSE "end"]
  /\ UNCHANGED <<redirects, out, pieces, reports>>

(* errMsg returns.  (Mutated: with errno as it is.)                        *)
Restored_Not(p) == procs[p].errno
Restored(p) == procs[p].saved
Return(p) ==
  /\ procs[p].at = "end" /\ procs[p].fn = "errMsg"
  /\ procs' = [procs EXCEPT ![p].at = "run", ![p].errno = Restored(p)]
  /\ UNCHANGED <<redirects, out, shown, pieces, reports>>

Exits(p) ==
  \E m \in 0 .. Len(procs[p].buffer) :
    /\ procs' = [procs EXCEPT ![p].at = "exit", ![p].fn = "none", ![p].buffer = <<>>,
                   ![p].printed = @ \ ItemsOf(Rest(procs[p].buffer, m))]
    /\ Arrives(procs[p].buffer, m)

(* abort and _exit do not flush. *)
Stops(p, at) ==
  procs' = [procs EXCEPT ![p].at = at, ![p].buffer = <<>>] /\ UNCHANGED shown

(* exit(0), after whatever the program has done last; and the end of all   *)
(* the functions but errMsg, which abort if EF_DUMPCORE is set.            *)
terminate(p) ==
  /\ \/ procs[p].at = "run" /\ Exits(p)
     \/ /\ procs[p].at = "end" /\ procs[p].fn # "errMsg"
        /\ \/ procs[p].fn # "err_exit" /\ Exits(p)
           \/ procs[p].fn = "err_exit" /\ Stops(p, "_exit")
           \/ procs[p].fn # "usageErr" /\ Stops(p, "abort")
  /\ UNCHANGED <<redirects, out, pieces, reports>>

StreamStep ==
  \/ Redirect \/ Fork
  \/ \E p \in {"parent", "child"} :
       \/ Puts(p) \/ Write(p) \/ Flush(p) \/ Say(p) \/ Return(p) \/ terminate(p)
       \/ \E f \in Reports : Report(p, f)

-----------------------------------------------------------------------------
(* Properties.                                                             *)

(* What a process had printed when it reported an error, but for what a    *)
(* failed write was to bring, has arrived before the message: in front of  *)
(* it on the terminal, or in the file; unless it used err_exit.            *)
PrintedFirst ==
  \A k \in DOMAIN shown.tty :
    LET m == shown.tty[k]
    IN  ("sofar" \in DOMAIN m /\ m.fn # "err_exit" /\ out # "none") =>
          m.sofar \subseteq
            ItemsOf(IF out = "tty" THEN SubSeq(shown.tty, 1, k) ELSE shown[out])

(* What the parent had not shown when it forked is shown by the parent     *)
(* alone if the child does no more than fail with err_exit.                *)
ShownOnce ==
  procs.child.quiet /\ procs.child.at # "exit" =>
    \A place \in DOMAIN shown : \A j, k \in DOMAIN shown[place] :
       (j # k /\ "no" \in DOMAIN shown[place][j]) => shown[place][j] # shown[place][k]

(* What a process had printed when it called exit, but for what a failed   *)
(* write was to bring, has arrived: in the file if descriptor 1 has been   *)
(* redirected.                                                             *)
NothingKeptBack ==
  \A p \in DOMAIN procs : procs[p].at = "exit" =>
    /\ redirects => procs[p].printed \subseteq ItemsOf(shown.file)
    /\ out = "tty" => procs[p].printed \subseteq ItemsOf(shown.tty)

(* A message comes after what was printed before it, whatever two          *)
(* processes do; a child that fails with err_exit repeats nothing of its   *)
(* parent's; exit brings what is left in the buffer; and a program that    *)
(* goes on after errMsg still has the errno it reported.  Of what is       *)
(* printed and what goes to the descriptor directly nothing is said:       *)
(* ab.c shows that these need not come in the order of the calls.          *)
MessagesInOrder ==
  /\ PrintedFirst /\ ShownOnce /\ NothingKeptBack
  /\ \A p \in DOMAIN procs :
       procs[p].at = "run" /\ procs[p].fn = "errMsg" => procs[p].errno = procs[p].saved
=============================================================================
