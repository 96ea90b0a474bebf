----------------------------- MODULE MCMdriver -----------------------------
(***************************************************************************)
(* A small instance of Mdriver: traces of up to six requests on two ids,   *)
(* sizes that fit beside, inside and around each other; and a trace with   *)
(* an id above 127.                                                        *)
(***************************************************************************)
EXTENDS Mdriver, TLC

Req(t, x, n) == [type |-> t, index |-> x, size |-> n]

(* Reuse of an id, a realloc that grows and one that shrinks, and blocks   *)
(* the trace never frees; and three files that are not traces.             *)
Reuse == << Req("a", 0, 4), Req("a", 1, 9), Req("r", 0, 24), Req("f", 1, 0),
            Req("a", 1, 16), Req("f", 0, 0) >>
Short == << Req("a", 0, 16), Req("r", 0, 3), Req("a", 1, 8) >>

Wide == << Req("a", 200, 4), Req("r", 200, 16), Req("f", 200, 0) >>

In(dir, name, ids, count, lines) ==
  [dir |-> dir, name |-> name] :> [num_ids |-> ids, num_ops |-> count, lines |-> lines]

SomeFiles ==
  In("traces/", "reuse", 2, 6, Reuse) @@ In("traces/", "short", 2, 3, Short)
  @@ In("./", "short", 2, 3, Short)
  @@ In("./", "wide", 201, 3, Wide)
  @@ In("./", "ids", 3, 3, Short) @@ In("./", "ops", 2, 4, Short)
  @@ In("./", "bogus", 2, 3, << Req("a", 0, 16), Req("x", 0, 3), Req("a", 1, 8) >>)
TwoTraces == <<"reuse", "short">>

Opt(o, arg) == [o |-> o, arg |-> arg]
SomeCommandLines ==
  { << >>, << Opt("a", ""), Opt("l", "") >>, << Opt("h", "") >>,
    << Opt("f", "short"), Opt("t", "traces/"), Opt("l", "") >>,
    << Opt("t", "elsewhere/"), Opt("f", "short") >>,
    << Opt("f", "wide") >>, << Opt("f", "ids") >>, << Opt("f", "ops") >>, << Opt("f", "bogus") >>,
    << Opt("t", "elsewhere/") >> }

SomeIds == {0, 1, 200}

SomeAddresses == {8, 12, 16, 24, 40}
=============================================================================
