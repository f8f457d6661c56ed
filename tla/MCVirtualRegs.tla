--------------------------- MODULE MCVirtualRegs ---------------------------
(***************************************************************************)
(* Functions for TLC: block 0 is the entry block, 4 returns; the graphs    *)
(* are the shapes below, the blocks do what Codes says.                    *)
(***************************************************************************)
EXTENDS VirtualRegs, TLC

Blocks == 0 .. 4

Ones  == [hi |-> 1, lo |-> 1]
Zeros == [hi |-> 0, lo |-> 0]
Words == {Zeros, Ones}

Graph(s1, s2, s3) == 0 :> {1} @@ 1 :> s1 @@ 2 :> s2 @@ 3 :> s3 @@ 4 :> {}

Shapes ==
  {Graph({2, 3}, {4}, {4}),      \* if, else
   Graph({2, 4}, {3, 4}, {4}),   \* an if in an if
   Graph({2}, {3, 4}, {2}),      \* a loop left at its top
   Graph({2}, {3, 4}, {2, 4}),   \* a loop with two exits
   Graph({2, 3}, {3}, {1, 4}),   \* a loop left at its end, with an if in it
   Graph({2, 3}, {2, 4}, {4}),   \* a loop of one block
   Graph({2}, {2, 3}, {2, 4}),   \* a loop of one block in a loop
   Graph({2, 3}, {3, 4}, {2})}   \* a loop with two entries

load(w)  == [op |-> "load", width |-> w]
store(w) == [op |-> "store", width |-> w]
pair == [op |-> "pair", width |-> 8]
call == [op |-> "call", width |-> 0]
svc  == [op |-> "svc", width |-> 0]

FunctionsOver(codes, last, loop) ==
  {[succ |-> g, code |-> 0 :> <<>> @@ c @@ 4 :> l, is_loop |-> [b \in Blocks |-> i]] :
     g \in Shapes, c \in [1 .. 3 -> codes], l \in last, i \in loop}

Whole ==
  FunctionsOver({<<>>, <<load(8)>>, <<store(8)>>, <<call>>, <<store(8), svc>>},
                {<<>>, <<load(8)>>}, BOOLEAN)

Pairs ==
  FunctionsOver({<<>>, <<load(8)>>, <<pair, call>>, <<pair, svc, call>>},
                {<<load(8)>>}, {FALSE})

SupportedFunctions == {f \in Whole \cup Pairs : Supported(f)}

(* Functions that are not supported, for one reason each. *)
NarrowFunctions ==
  {f \in FunctionsOver({<<>>, <<load(4)>>, <<store(8)>>}, {<<load(8)>>}, BOOLEAN) :
     LoopsDerive(f)}

LoopFunctions == FunctionsOver({<<>>, <<load(8)>>, <<store(8)>>}, {<<load(8)>>}, BOOLEAN)
=============================================================================
