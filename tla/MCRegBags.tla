----------------------------- MODULE MCRegBags -----------------------------
(***************************************************************************)
(* Bag graphs for TLC: the root is bag 0 and has one child; behind it is   *)
(* every acyclic graph of four bags, in every order of their addresses.    *)
(***************************************************************************)
EXTENDS RegBags, TLC

Bags == 0 .. 4
Regs == {"arg", "other"}
ArgOnly == {"arg"}
Widths == {0, 4, 8}

Behind1(b) == SUBSET (Bags \ {0, 1, b})

Edges ==
  {e \in {0 :> {1} @@ 1 :> s1 @@ 2 :> s2 @@ 3 :> s3 @@ 4 :> s4 :
            s1 \in Behind1(1), s2 \in Behind1(2), s3 \in Behind1(3), s4 \in Behind1(4)} :
     \A b \in Bags : /\ Reaches(e, 0, b)
                     /\ \A c \in e[b] : ~ Reaches(e, c, b)}

Bits(w) == [r \in Regs |-> w]

(* What a bag may do to every register; the last is a loop whose first     *)
(* block loads nothing.                                                    *)
Profile ==
  {[first_ld |-> Bits(0), own_ld |-> Bits(0), own_str |-> Bits(8), is_loop |-> FALSE],
   [first_ld |-> Bits(8), own_ld |-> Bits(8), own_str |-> Bits(0), is_loop |-> FALSE],
   [first_ld |-> Bits(0), own_ld |-> Bits(4), own_str |-> Bits(4), is_loop |-> TRUE]}

NoAccess ==
  {[first_ld |-> Bits(0), own_ld |-> Bits(0), own_str |-> Bits(0), is_loop |-> l] :
     l \in BOOLEAN}

BagGraphsOver(nodes) ==
  {[children |-> e,
    first_ld |-> [b \in Bags |-> p[b].first_ld], own_ld |-> [b \in Bags |-> p[b].own_ld],
    own_str |-> [b \in Bags |-> p[b].own_str], is_loop |-> [b \in Bags |-> p[b].is_loop]] :
     e \in Edges, p \in nodes}

AllBagGraphs == BagGraphsOver({0 :> n @@ f : n \in NoAccess, f \in [1 .. 4 -> Profile]})

(* The functions in which every loop has an exit. *)
ExitingBagGraphs ==
  {g \in AllBagGraphs : \A b \in Bags : g.children[b] = {} => g.first_ld[b] = g.own_ld[b]}
=============================================================================
