------------------------------ MODULE RegBags ------------------------------
(***************************************************************************)
(* The register analysis of a function (GetPhiRegsBags behind RemoveLoop): *)
(* which registers the blocks of a bag take from their parents.            *)
(*                                                                         *)
(* A first pass walks the bags from the root and collects what is loaded   *)
(* and stored before a bag, a second one what is loaded behind it; a bag   *)
(* is finished when all its parents, or all its children, are.  Then the   *)
(* two are combined, bag by bag.                                           *)
(*                                                                         *)
(* Bags are numbered in the order of their addresses, which is the order   *)
(* std::set iterates.                                                      *)
(***************************************************************************)
EXTENDS Integers, SequencesExt

CONSTANTS
  Bag,      \* the bags RemoveLoop leaves
  Root,     \* the bag of the entry block
  Reg,      \* registers
  ArgRegs,  \* those CheckPassedArgsRegs accepts
  Width,    \* widths of a register; 0 stands for "not in the map"
  BagGraphs \* the graphs and own registers Init chooses from

RegMap == [Reg -> Width]
NoRegs == [r \in Reg |-> 0]

(***************************************************************************)
(* What RemoveLoop leaves: an acyclic graph behind the root; for each bag  *)
(* its registers, the loads of the block it started from, and is_loop,     *)
(* which nothing sets for a bag of one block.                              *)
(***************************************************************************)
(* Seeded fault: RemoveLoop leaves a loop its own parent. *)
ParentsOrSelf(g, b) ==
  {p \in Bag : b \in g.children[p]} \cup (IF g.is_loop[b] THEN {b} ELSE {})

Parents(g, b) == {p \in Bag : b \in g.children[p]}

Closed(edges, S) == \A b \in S : edges[b] \subseteq S

Reaches(edges, b, c) == \A S \in SUBSET Bag : b \in S /\ Closed(edges, S) => c \in S

BagGraph ==
  [children : [Bag -> SUBSET Bag], first_ld : [Bag -> RegMap], own_ld : [Bag -> RegMap],
   own_str : [Bag -> RegMap], is_loop : [Bag -> BOOLEAN]]

WellFormed(g) ==
  \A b \in Bag :
    /\ Reaches(g.children, Root, b)
    /\ \A c \in g.children[b] : ~ Reaches(g.children, c, b)
    /\ g.first_ld[b] # g.own_ld[b] => g.is_loop[b]

ASSUME BagAssumption == Bag \subseteq Nat /\ IsFiniteSet(Bag) /\ Root \in Bag
ASSUME RegAssumption == ArgRegs \subseteq Reg /\ Width \subseteq Nat /\ 0 \in Width
ASSUME BagGraphsAssumption == \A g \in BagGraphs : g \in BagGraph /\ WellFormed(g)

VARIABLES
  graph,
  pc,          \* "pres", "sucs", "drvd" or "done"
  bag_queue, bag_stack,
  fins,        \* bags the running pass has finished
  fin_num,     \* fin_pars_nummp, then fin_chn_nummp
  pres_ld_rmp, pres_str_rmp,
  sucs_ld_rmp,
  drvd_rmp

regVars == <<pres_ld_rmp, pres_str_rmp, sucs_ld_rmp, drvd_rmp>>
vars == <<graph, pc, bag_queue, bag_stack, fins, fin_num, regVars>>

bag_num == Cardinality(Bag)

Ascending(S) ==
  {s \in [1 .. Cardinality(S) -> S] : \A i, j \in DOMAIN s : i < j => s[i] < s[j]}

(* The widest of some register maps, register by register. *)
Widest(maps) ==
  [r \in Reg |-> CHOOSE w \in {m[r] : m \in maps} \cup {0} : \A m \in maps : m[r] <= w]
-----------------------------------------------------------------------------
Init ==
  /\ graph \in BagGraphs
  /\ pc = "pres"
  /\ bag_queue = <<Root>>
  /\ bag_stack = <<>>
  /\ fins = {}
  /\ fin_num = [b \in Bag |-> 0]
  /\ pres_ld_rmp = [b \in Bag |-> NoRegs]
  /\ pres_str_rmp = [b \in Bag |-> NoRegs]
  /\ sucs_ld_rmp = graph.first_ld
  /\ drvd_rmp = [b \in Bag |-> NoRegs]

(***************************************************************************)
(* GetPrecedingVirtualRegsBags: breadth first.  A bag whose parents are    *)
(* not all finished leaves the queue: its last parent queues it again.     *)
(***************************************************************************)
Dequeue(b) ==
  /\ pc = "pres"
  /\ bag_queue # <<>>
  /\ b = Head(bag_queue)

(* Seeded fault: one finished parent is enough. *)
AnyParentFinished(b) == b = Root \/ fin_num[b] # 0

ParentsFinished(b) == fin_num[b] = Cardinality(Parents(graph, b))

Drop(b) ==
  /\ Dequeue(b)
  /\ b \in fins \/ ~ ParentsFinished(b)
  /\ bag_queue' = Tail(bag_queue)
  /\ UNCHANGED <<graph, pc, bag_stack, fins, fin_num, regVars>>

FinishPreceding(b) ==
  LET pars == Parents(graph, b)
      chn == graph.children[b]
  IN  /\ Dequeue(b)
      /\ b \notin fins
      /\ ParentsFinished(b)
      /\ pres_ld_rmp' = [pres_ld_rmp EXCEPT ![b] =
           Widest({pres_ld_rmp[p] : p \in pars} \cup {graph.own_ld[p] : p \in pars})]
      /\ pres_str_rmp' = [pres_str_rmp EXCEPT ![b] =
           Widest({pres_str_rmp[p] : p \in pars} \cup {graph.own_str[p] : p \in pars})]
      /\ fins' = fins \cup {b}
      /\ fin_num' = [c \in Bag |-> fin_num[c] + (IF c \in chn THEN 1 ELSE 0)]
      /\ \E cs \in Ascending(chn \ fins') : bag_queue' = Tail(bag_queue) \o cs
      /\ UNCHANGED <<graph, pc, bag_stack, sucs_ld_rmp, drvd_rmp>>

(* The CHECK between the passes: every bag was finished. *)
PrecedingDone ==
  /\ pc = "pres"
  /\ bag_queue = <<>>
  /\ Cardinality(fins) = bag_num
  /\ pc' = "sucs"
  /\ bag_stack' = <<Root>>
  /\ fins' = {}
  /\ fin_num' = [b \in Bag |-> 0]
  /\ UNCHANGED <<graph, bag_queue, regVars>>
-----------------------------------------------------------------------------
(***************************************************************************)
(* GetSucceedingVirtualRegsBags: depth first.  A bag whose children are    *)
(* not all finished goes back on the stack, below them.  The loads of the  *)
(* bag itself are merged in the loop over its children: a bag without      *)
(* children keeps those of the block it started from.                      *)
(***************************************************************************)
Pop(b) ==
  /\ pc = "sucs"
  /\ bag_stack # <<>>
  /\ b = Last(bag_stack)

SkipUnpopped(b) == Pop(b) /\ b \in fins /\ UNCHANGED vars   \* Seeded fault.

Skip(b) ==
  /\ Pop(b)
  /\ b \in fins
  /\ bag_stack' = Front(bag_stack)
  /\ UNCHANGED <<graph, pc, bag_queue, fins, fin_num, regVars>>

SearchChildren(b) ==
  /\ Pop(b)
  /\ b \notin fins
  /\ fin_num[b] # Cardinality(graph.children[b])
  /\ \E cs \in Ascending(graph.children[b] \ fins) : bag_stack' = bag_stack \o cs
  /\ UNCHANGED <<graph, pc, bag_queue, fins, fin_num, regVars>>

FinishSucceeding(b) ==
  LET chn == graph.children[b]
      own == IF chn = {} THEN {} ELSE {graph.own_ld[b]}
  IN  /\ Pop(b)
      /\ b \notin fins
      /\ fin_num[b] = Cardinality(chn)
      /\ sucs_ld_rmp' = [sucs_ld_rmp EXCEPT ![b] =
           Widest({@} \cup own \cup {sucs_ld_rmp[c] : c \in chn})]
      /\ fins' = fins \cup {b}
      /\ fin_num' = [p \in Bag |-> fin_num[p] + (IF b \in graph.children[p] THEN 1 ELSE 0)]
      /\ bag_stack' = Front(bag_stack)
      /\ UNCHANGED <<graph, pc, bag_queue, pres_ld_rmp, pres_str_rmp, drvd_rmp>>

SucceedingDone ==
  /\ pc = "sucs"
  /\ bag_stack = <<>>
  /\ Cardinality(fins) = bag_num
  /\ pc' = "drvd"
  /\ fins' = {}
  /\ UNCHANGED <<graph, bag_queue, bag_stack, fin_num, regVars>>
-----------------------------------------------------------------------------
(***************************************************************************)
(* The registers a bag derives from its parents: the argument registers    *)
(* stored before it, the loads of a loop, and what is loaded in it or      *)
(* behind it and was loaded or stored before it.                           *)
(***************************************************************************)
(* Seeded fault: what was only stored before is not derived. *)
DerivedLoads(b) ==
  [r \in Reg |-> IF sucs_ld_rmp[b][r] # 0 THEN pres_ld_rmp[b][r] ELSE 0]

Derived(b) ==
  LET args == [r \in Reg |-> IF r \in ArgRegs THEN pres_str_rmp[b][r] ELSE 0]
      loop == IF graph.is_loop[b] THEN graph.own_ld[b] ELSE NoRegs
      pre == Widest({pres_ld_rmp[b], pres_str_rmp[b]})
      live == [r \in Reg |-> IF sucs_ld_rmp[b][r] # 0 THEN pre[r] ELSE 0]
  IN  Widest({args, loop, live})

(* The bags come out of an unordered map; the order changes nothing. *)
Derive(b) ==
  /\ pc = "drvd"
  /\ b \in Bag \ fins
  /\ \A c \in Bag \ fins : b <= c
  /\ drvd_rmp' = [drvd_rmp EXCEPT ![b] = Derived(b)]
  /\ fins' = fins \cup {b}
  /\ UNCHANGED <<graph, pc, bag_queue, bag_stack, fin_num, pres_ld_rmp, pres_str_rmp,
                 sucs_ld_rmp>>

DerivedDone ==
  /\ pc = "drvd"
  /\ fins = Bag
  /\ pc' = "done"
  /\ UNCHANGED <<graph, bag_queue, bag_stack, fins, fin_num, regVars>>

Done == pc = "done" /\ UNCHANGED vars

Next ==
  \/ \E b \in Bag : \/ Drop(b) \/ FinishPreceding(b)
                    \/ Skip(b) \/ SearchChildren(b) \/ FinishSucceeding(b)
                    \/ Derive(b)
  \/ PrecedingDone
  \/ SucceedingDone
  \/ DerivedDone
  \/ Done

Spec == Init /\ [][Next]_vars

(* One thread, which nothing blocks. *)
FairSpec == Spec /\ WF_vars(Next)
-----------------------------------------------------------------------------
(***************************************************************************)
(* Properties.                                                             *)
(***************************************************************************)
TypeOK ==
  /\ graph \in BagGraph
  /\ pc \in {"pres", "sucs", "drvd", "done"}
  /\ bag_queue \in Seq(Bag)
  /\ bag_stack \in Seq(Bag)
  /\ fins \subseteq Bag
  /\ fin_num \in [Bag -> Nat]
  /\ pres_ld_rmp \in [Bag -> RegMap]
  /\ pres_str_rmp \in [Bag -> RegMap]
  /\ sucs_ld_rmp \in [Bag -> RegMap]
  /\ drvd_rmp \in [Bag -> RegMap]

Before(b) == {a \in Bag \ {b} : Reaches(graph.children, a, b)}
Behind(b) == {c \in Bag \ {b} : Reaches(graph.children, b, c)}

IsWidestOf(m, maps, bags) ==
  \A r \in Reg : /\ \A a \in bags : maps[a][r] <= m[r]
                 /\ m[r] # 0 => \E a \in bags : maps[a][r] = m[r]

(***************************************************************************)
(* A bag the first pass has finished knows every load and every store on   *)
(* every path to it, a register at its widest, and nothing else.           *)
(***************************************************************************)
PrecedingIsComplete ==
  pc = "pres" =>
    \A b \in fins :
      /\ IsWidestOf(pres_ld_rmp[b], graph.own_ld, Before(b))
      /\ IsWidestOf(pres_str_rmp[b], graph.own_str, Before(b))

(***************************************************************************)
(* Neither pass forgets a bag: when its work list is empty, all bags are   *)
(* finished.  The code CHECKs it.                                          *)
(***************************************************************************)
NoBagIsForgotten ==
  /\ pc = "pres" /\ bag_queue = <<>> => fins = Bag
  /\ pc = "sucs" /\ bag_stack = <<>> => fins = Bag

(***************************************************************************)
(* A register that was loaded or stored before a bag, and is loaded in the *)
(* bag or behind it, is derived: all that was accessed before, or as much  *)
(* as is loaded.                                                           *)
(***************************************************************************)
AccessedBefore(b, r, w) ==
  \E a \in Before(b) : w \in {graph.own_ld[a][r], graph.own_str[a][r]}

LoadedFrom(b, r, w) == \E c \in Behind(b) \cup {b} : graph.own_ld[c][r] = w

LiveRegsAreDerived ==
  pc = "done" =>
    \A b \in Bag, r \in Reg, w, v \in Width \ {0} :
      AccessedBefore(b, r, w) /\ LoadedFrom(b, r, v)
        => w <= drvd_rmp[b][r] \/ v <= drvd_rmp[b][r]

(* Both passes end, and so does the analysis. *)
AnalysisEnds == <>(pc = "done")
=============================================================================
