---------------------------- MODULE MCFileTools -----------------------------
(* A small instance of FileTools: every file of up to four bytes in f, all *)
(* of up to six that are text and line breaks, and a longer one in g for   *)
(* the copies to replace.  Which of the letters is x does not matter: it   *)
(* is the one that comes first.                                            *)
EXTENDS FileTools

CONSTANTS f, g, x, y
TwoNames == {f, g}
SomeLineNos == -1 .. 3
Letters  == {x, y}
OldCopy  == <<y, y, y, y, y, y, y>>
SeqsOf(S, lo, hi) == UNION {[1 .. len -> S] : len \in lo .. hi}
Files1 ==
  {(f :> c) @@ (g :> OldCopy) :
     c \in {w \in SeqsOf({x, y, NL, NUL}, 0, 4) :
              \A k \in DOMAIN w : w[k] = y => \E j \in 1 .. k - 1 : w[j] = x}
          \union SeqsOf({x, NL}, 5, 6)}

(* Every tree of up to four nodes, with blocks that show in a sum which    *)
(* nodes are in it.                                                        *)
TreesOf(top) ==
  {[k \in 0 .. top |-> [up |-> u[k], dir |-> d[k], hidden |-> h[k],
                        blocks |-> 2 ^ (k + 1)]] :
     u \in {w \in [0 .. top -> 0 .. top] : \A k \in 0 .. top : w[k] < k \/ w[k] = 0},
     d \in [0 .. top -> BOOLEAN], h \in [0 .. top -> BOOLEAN]}
Trees3 == {t \in UNION {TreesOf(top) : top \in 0 .. 3} :
             /\ ~t[0].hidden
             /\ \A k \in DOMAIN t \ {0} : t[t[k].up].dir}
SomeArguments == {<<>>, <<0>>, <<1, 0>>}
=============================================================================
