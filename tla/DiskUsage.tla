----------------------------- MODULE DiskUsage ------------------------------
(***************************************************************************)
(* fs/mydu.c: for each argument the blocks of everything below it, added   *)
(* up by a function that calls itself for every entry that two calls of    *)
(* glob find in a directory, "/*" and "/.*".                               *)
(*                                                                         *)
(* A path is a node of the tree; frames are the calls of mydu in progress. *)
(* Auxiliary: denied, a call of the kernel has failed.                     *)
(***************************************************************************)
EXTENDS Integers, FiniteSets, SequencesExt

CONSTANT Arguments    \* what argv may hold: sequences of nodes

VARIABLES
  tree,       \* node -> [up : node, dir, hidden : BOOLEAN, blocks : Nat]; the
              \* top of it is its own up
  dpc,        \* "idle", "arg", "call", "loop", "exit"
  argv,
  path,       \* the argument of the call that begins
  frames,     \* [dir : node, todo : entries still to visit, sum : Nat]
  printed,    \* the figures
  denied

(* Only directories have anything in them, and going up ends at a top.     *)
IsTree(t) ==
  /\ IsFiniteSet(DOMAIN t)
  /\ t \in [DOMAIN t -> [up : DOMAIN t, dir : BOOLEAN, hidden : BOOLEAN, blocks : Nat]]
  /\ \A q \in DOMAIN t : t[q].up = q \/ t[t[q].up].dir
  /\ \A S \in SUBSET DOMAIN t :
        S # {} /\ (\A q \in S : t[q].up \in S) => \E q \in S : t[q].up = q

diskVars == <<tree, dpc, argv, path, frames, printed, denied>>

DiskIdle ==
  /\ dpc = "idle" /\ argv = <<>> /\ path = 0 /\ frames = <<>> /\ printed = <<>>
  /\ denied = FALSE

(* main: without an argument, the directory getcwd returns. *)
StartDu(args) ==
  /\ dpc = "idle"
  /\ \/ /\ args # <<>> /\ \A k \in DOMAIN args : args[k] \in DOMAIN tree
        /\ argv' = args /\ dpc' = "arg" /\ UNCHANGED denied
     \/ /\ args = <<>>
        /\ \E cwd \in DOMAIN tree : tree[cwd].dir /\ argv' = <<cwd>>
        /\ dpc' = "arg" /\ UNCHANGED denied
     \/ /\ args = <<>>
        /\ dpc' = "exit" /\ denied' = TRUE /\ UNCHANGED argv
  /\ UNCHANGED <<tree, path, frames, printed>>

Call(p) == dpc' = "call" /\ path' = p

NextArgument ==
  /\ dpc = "arg"
  /\ IF Len(printed) < Len(argv)
     THEN Call(argv[Len(printed) + 1])
     ELSE dpc' = "exit" /\ UNCHANGED path
  /\ UNCHANGED <<tree, argv, frames, printed, denied>>

-----------------------------------------------------------------------------
(* mydu returns v to its caller, which has frames fs: main prints half of  *)
(* it, another mydu adds it to its sum.                                    *)
Returns(v, fs) ==
  IF fs = <<>>
  THEN printed' = Append(printed, v \div 2) /\ dpc' = "arg" /\ frames' = fs
  ELSE /\ frames' = <<[Head(fs) EXCEPT !.sum = @ + v]>> \o Tail(fs)
       /\ dpc' = "loop" /\ UNCHANGED printed

In(d)      == {p \in DOMAIN tree \ {d} : tree[p].up = d}
Visible(d) == {p \in In(d) : ~tree[p].hidden}

(* What glob finds with "/*" and appends with "/.*": entries with the last  *)
(* part of their path, "." being d and ".." what is above it.  (Mutated:    *)
(* GLOB_APPEND is missing.)                                                 *)
Found(S) == SetToSeq(S \X {"name"})
Entries_NoAppend(d) ==
  <<<<d, ".">>, <<tree[d].up, "..">>>> \o Found(In(d) \ Visible(d))
Entries(d) ==
  Found(Visible(d)) \o <<<<d, ".">>, <<tree[d].up, "..">>>>
  \o Found(In(d) \ Visible(d))

path_check(e) == e[2] \notin {".", ".."}

VisitFile ==
  /\ dpc = "call" /\ ~tree[path].dir
  /\ Returns(tree[path].blocks, frames)
  /\ UNCHANGED <<tree, argv, path, denied>>

VisitDirectory ==
  /\ dpc = "call" /\ tree[path].dir /\ Visible(path) # {}
  /\ frames' = <<[dir |-> path, todo |-> Entries(path), sum |-> 0]>> \o frames
  /\ dpc' = "loop"
  /\ UNCHANGED <<tree, argv, path, printed, denied>>

(* exit(1): GLOB_NOMATCH is an error like any other, and lstat or glob may *)
(* fail on anything.                                                       *)
VisitFails ==
  /\ dpc = "call" /\ dpc' = "exit"
  /\ denied' = ~(tree[path].dir /\ Visible(path) = {})
  /\ UNCHANGED <<tree, argv, path, frames, printed>>

NextEntry ==
  /\ dpc = "loop" /\ Head(frames).todo # <<>>
  /\ frames' = [frames EXCEPT ![1].todo = Tail(@)]
  /\ LET e == Head(Head(frames).todo)
     IN  IF path_check(e) THEN Call(e[1]) ELSE UNCHANGED <<dpc, path>>
  /\ UNCHANGED <<tree, argv, printed, denied>>

LastEntry ==
  /\ dpc = "loop" /\ Head(frames).todo = <<>>
  /\ Returns(Head(frames).sum + tree[Head(frames).dir].blocks, Tail(frames))
  /\ UNCHANGED <<tree, argv, path, denied>>

DiskStep ==
  NextArgument \/ VisitFile \/ VisitDirectory \/ VisitFails \/ NextEntry
  \/ LastEntry

-----------------------------------------------------------------------------
(* Properties.                                                             *)

(* The least set with p in it and, with a directory, what is in that.      *)
Closed(S) == \A q \in DOMAIN tree : tree[q].up \in S => q \in S
Below(p)  == {q \in DOMAIN tree : \A S \in SUBSET DOMAIN tree :
                                    p \in S /\ Closed(S) => q \in S}

BlocksOf(Q) == UNION {{q} \X (1 .. tree[q].blocks) : q \in Q}
Total(p)    == Cardinality(BlocksOf(Below(p)))

(* Directories in which the shell's * would find nothing. *)
Bare(p) == {q \in Below(p) : tree[q].dir /\ Visible(q) = {}}

(* Every figure is half the blocks of the argument and all that is below   *)
(* it, hidden or not, each path counted once and "." and ".." never; and   *)
(* the program gives up on an argument only if a call failed, or where     *)
(* there is a directory below it without an entry that is not hidden.      *)
UsageOfTree ==
  /\ \A k \in DOMAIN printed : printed[k] = Total(argv[k]) \div 2
  /\ (dpc = "exit" /\ ~denied /\ Len(printed) < Len(argv)) =>
        Bare(argv[Len(printed) + 1]) # {}

(* The README lists the program as doing what du -s does (README.md:17):   *)
(* unless a call fails, there is a figure for every argument.  False of the *)
(* code.                                                                   *)
SameAsDu == (dpc = "exit" /\ ~denied) => Len(printed) = Len(argv)
=============================================================================
