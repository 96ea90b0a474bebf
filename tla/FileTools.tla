----------------------------- MODULE FileTools ------------------------------
(***************************************************************************)
(* The tools side by side: a user starts one of them, with any arguments,  *)
(* on files of any contents or any directories, and it runs to its end.    *)
(***************************************************************************)
EXTENDS CopyFile, LineEdit, GetLine, DiskUsage, StdStreams

CONSTANTS
  Contents,      \* what the files may be before
  Trees          \* the directories

ASSUME ContentsAssumption == Contents \subseteq [Names -> Seq(Byte)]
ASSUME TreesAssumption ==
  /\ \A t \in Trees : IsTree(t)
  /\ Arguments \subseteq Seq(UNION {DOMAIN t : t \in Trees})

vars == <<files, copyVars, editVars, lineVars, diskVars, streamVars>>

(* No program looks at both the contents of files and a directory: one of  *)
(* the two is as small as can be, and both for those that look at neither. *)
NoContents == [name \in Names |-> <<>>]
NoTree == [top \in {0} |-> [up |-> 0, dir |-> FALSE, hidden |-> FALSE, blocks |-> 1]]

Init ==
  /\ \/ files \in Contents /\ tree = NoTree
     \/ files = NoContents /\ tree \in Trees \union {NoTree}
  /\ CopyIdle /\ EditIdle /\ LineIdle /\ DiskIdle /\ StreamsIdle

Idle ==
  /\ cpc = "idle" /\ epc = "idle" /\ gpc = "idle" /\ dpc = "idle"
  /\ procs.parent.at = "none"

Start ==
  /\ Idle
  /\ \/ /\ \E t \in Tools, a, b \in Names : StartCopy(t, a, b)
        /\ UNCHANGED <<editVars, lineVars, diskVars, streamVars>>
     \/ /\ \E name \in Names, no \in LineNos : StartEdit(name, no)
        /\ UNCHANGED <<copyVars, lineVars, diskVars, streamVars>>
     \/ /\ \E name \in Names : StartLines(name)
        /\ UNCHANGED <<copyVars, editVars, diskVars, streamVars>>
     \/ /\ \E args \in Arguments : StartDu(args)
        /\ UNCHANGED <<files, copyVars, editVars, lineVars, streamVars>>
     \/ /\ files = NoContents /\ tree = NoTree
        /\ \E redir \in BOOLEAN, stdout \in {"tty", "none"} : StartProgram(redir, stdout)
        /\ UNCHANGED <<files, copyVars, editVars, lineVars, diskVars>>

Step ==
  \/ CopyStep /\ UNCHANGED <<editVars, lineVars, diskVars, streamVars>>
  \/ EditStep /\ UNCHANGED <<copyVars, lineVars, diskVars, streamVars>>
  \/ LineStep /\ UNCHANGED <<copyVars, editVars, diskVars, streamVars>>
  \/ DiskStep /\ UNCHANGED <<files, copyVars, editVars, lineVars, streamVars>>
  \/ StreamStep /\ UNCHANGED <<files, copyVars, editVars, lineVars, diskVars>>

Next == Start \/ Step

Spec     == Init /\ [][Next]_vars

(* A program that has been started runs on. *)
FairSpec == Spec /\ WF_vars(Step)

-----------------------------------------------------------------------------
(* Every tool ends, whatever the calls it makes return, as long as a write *)
(* writes at least a byte or fails.                                        *)
ProgramEnds ==
  /\ cpc # "idle" ~> cpc = "exit"
  /\ epc # "idle" ~> epc = "exit"
  /\ gpc # "idle" ~> gpc = "exit"
  /\ dpc # "idle" ~> dpc = "exit"
=============================================================================
