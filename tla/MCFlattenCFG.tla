---------------------------- MODULE MCFlattenCFG ----------------------------
(***************************************************************************)
(* Control flow graphs for TLC: block 0 is the entry block, 1 the first    *)
(* one; every reachable graph of four blocks that branch to at most two    *)
(* blocks.  The order of the two, which is the order of the queue, is free *)
(* for block 1 and ascending for the others.                               *)
(***************************************************************************)
EXTENDS FlattenCFG, TLC

Blocks == 0 .. 4
Widths == {0, 4, 8}

Branches == {<<>>} \cup {<<b>> : b \in 1 .. 4} \cup {<<b, c>> : b \in 1 .. 4, c \in 1 .. 4}
Ascending == {s \in Branches : Len(s) = 2 => s[1] <= s[2]}

ReachedIn(g) ==
  LET R[n \in 0 .. 4] == IF n = 0 THEN {1} ELSE R[n - 1] \cup UNION {Range(g[b]) : b \in R[n - 1]}
  IN  R[4]

AllGraphs ==
  {g \in {0 :> <<1>> @@ 1 :> s @@ h : s \in Branches, h \in [2 .. 4 -> Ascending]} :
     ReachedIn(g) = 1 .. 4}

(* Blocks that load, store and do both, wide and narrow. *)
Regs == {"r", "s"}
Map(r, s) == [x \in Regs |-> IF x = "r" THEN r ELSE s]
Loads  == 0 :> Map(0, 0) @@ 1 :> Map(4, 0) @@ 2 :> Map(8, 0) @@ 3 :> Map(4, 4) @@ 4 :> Map(0, 8)
Stores == 0 :> Map(0, 0) @@ 1 :> Map(0, 8) @@ 2 :> Map(0, 0) @@ 3 :> Map(8, 4) @@ 4 :> Map(4, 0)
=============================================================================
