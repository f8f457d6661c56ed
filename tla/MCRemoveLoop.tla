---------------------------- MODULE MCRemoveLoop ----------------------------
(***************************************************************************)
(* Control flow graphs for TLC: bag 0 is the entry block, which has one    *)
(* successor; every block can be reached.                                  *)
(***************************************************************************)
EXTENDS RemoveLoop, TLC

Bags == 0 .. 5

MCWidth == {0, 4, 8}

(* Every block loads one register at a width of its own and stores it at   *)
(* another, so that the widest of a set of blocks depends on the set.      *)
Loads  == [b \in Bags |-> "r" :> CASE b = 0 -> 0 [] b \in {1, 3} -> 4 [] OTHER -> 8]
Stores == [b \in Bags |-> "r" :> CASE b \in {0, 2} -> 0 [] b = 4 -> 4 [] OTHER -> 8]

(* A block that does not return. *)
Successors(b) == {S \in SUBSET (Bags \ {0, b}) : Cardinality(S) \in {1, 2}}

AllReached(g) ==
  LET R[n \in 0 .. 5] == IF n = 0 THEN {0} ELSE R[n - 1] \cup UNION {g[b] : b \in R[n - 1]}
  IN  R[5] = Bags

(* Every graph of four blocks behind the entry and one block that returns. *)
AllGraphs ==
  {g \in {0 :> {1} @@ 1 :> s1 @@ 2 :> s2 @@ 3 :> s3 @@ 4 :> s4 @@ 5 :> {} :
            s1 \in Successors(1), s2 \in Successors(2),
            s3 \in Successors(3), s4 \in Successors(4)} : AllReached(g)}
=============================================================================
