----------------------------- MODULE RemoveLoop -----------------------------
(***************************************************************************)
(* PhiRegsBBBagNode::RemoveLoop: before the data-flow analysis of a        *)
(* function, the blocks of every loop are merged into one bag, so that the *)
(* graph of bags has no cycle.                                             *)
(*                                                                         *)
(* The graph is searched depth first from the bag of the entry block.  An  *)
(* entry of the stack carries the path that led to the bag; when a bag     *)
(* occurs on its own path, the bags of the path behind that occurrence are *)
(* merged into it and it is searched again.  A bag is never deleted during *)
(* the search: converted_bag leads to the bag it was merged into, and      *)
(* every pointer is followed through it (GetTrueBag).                      *)
(*                                                                         *)
(* Bags are numbered in the order of their addresses, which is the order   *)
(* std::set iterates; there is one bag per block at the start.             *)
(***************************************************************************)
EXTENDS Integers, SequencesExt

CONSTANTS
  Bag,         \* bags, and the blocks they start from
  Root,        \* the bag of the entry block
  Reg,         \* registers
  Width,       \* widths of a register; 0 stands for "not in the map"
  Graphs,      \* the control flow graphs Init chooses from
  BlockLoads,  \* bb_ld_r_mp of each block
  BlockStores  \* bb_str_r_mp of each block

RegMap == [Reg -> Width]

(* No block branches to the entry block; a self loop makes no edge of bags. *)
IsCFG(g) ==
  /\ g \in [Bag -> SUBSET Bag]
  /\ \A b \in Bag : b \notin g[b] /\ Root \notin g[b]

ASSUME BagAssumption == Bag \subseteq Nat /\ IsFiniteSet(Bag) /\ Root \in Bag
ASSUME WidthAssumption == Width \subseteq Nat /\ 0 \in Width
ASSUME GraphsAssumption == \A g \in Graphs : IsCFG(g)
ASSUME RegsAssumption == BlockLoads \in [Bag -> RegMap] /\ BlockStores \in [Bag -> RegMap]

VARIABLES
  cfg,        \* the control flow graph: successors of each block
  pc,         \* "search", "merge" or "done"
  bag_stack,
  target_bag, pre_path, visited,    \* the entry being worked on
  finished,
  true_bag,   \* GetTrueBag() of each bag: the end of its converted_bag chain
  parents, children,
  in_bbs,
  own_ld_rmp, own_str_rmp,
  is_loop,    \* "loop" once set; the constructor leaves it undetermined
  bag_num

searchVars == <<bag_stack, target_bag, pre_path, visited, finished>>
graphVars  == <<true_bag, parents, children, in_bbs, own_ld_rmp, own_str_rmp>>
vars == <<cfg, pc, searchVars, graphVars, is_loop, bag_num>>

Entry(b, path, seen) == [bag |-> b, path |-> path, visited |-> seen]

True(S) == {true_bag[b] : b \in S}

(* The bag map of the function after the search: one bag per block. *)
LiveBags == {b \in Bag : true_bag[b] = b}
-----------------------------------------------------------------------------
Init ==
  /\ cfg \in Graphs
  /\ pc = "search"
  /\ bag_stack = <<Entry(Root, <<>>, {})>>
  /\ target_bag = Root
  /\ pre_path = <<>>
  /\ visited = {}
  /\ finished = {}
  /\ true_bag = [b \in Bag |-> b]
  /\ parents = [b \in Bag |-> {p \in Bag : b \in cfg[p]}]
  /\ children = cfg
  /\ in_bbs = [b \in Bag |-> {b}]
  /\ own_ld_rmp = BlockLoads
  /\ own_str_rmp = BlockStores
  /\ is_loop = [b \in Bag |-> "undetermined"]
  /\ bag_num = Cardinality(Bag)

(***************************************************************************)
(* The children of b still to be searched, lowest address first; one child *)
(* can occur twice, through two bags that were merged into it.             *)
(***************************************************************************)
UnfinishedRaw(b) == children[b] \ (finished \cup {b})   \* Seeded fault: no GetTrueBag.

Unfinished(b) == {c \in children[b] : true_bag[c] \notin finished \cup {b}}

Ascending(S) ==
  {s \in [1 .. Cardinality(S) -> S] : \A i, j \in DOMAIN s : i < j => s[i] < s[j]}

(* Seeded fault: the path is not extended. *)
EntriesNoPath(cs, b, path, seen) ==
  [i \in DOMAIN cs |-> Entry(true_bag[cs[i]], path, seen \cup {b})]

ChildEntries(cs, b, path, seen) ==
  [i \in DOMAIN cs |-> Entry(true_bag[cs[i]], Append(path, b), seen \cup {b})]

(* The loop pops an entry; its bag and its visited set become true bags. *)
Pop(b, path, seen) ==
  /\ pc = "search"
  /\ bag_stack # <<>>
  /\ b = true_bag[Last(bag_stack).bag]
  /\ path = Last(bag_stack).path
  /\ seen = True(Last(bag_stack).visited)

SkipFinished(b, path, seen) ==
  /\ Pop(b, path, seen)
  /\ b \in finished
  /\ bag_stack' = Front(bag_stack)
  /\ UNCHANGED <<cfg, pc, target_bag, pre_path, visited, finished, graphVars, is_loop,
                 bag_num>>

LoopFound(b, path, seen) ==
  /\ Pop(b, path, seen)
  /\ b \notin finished
  /\ b \in seen
  /\ bag_stack' = Front(bag_stack)
  /\ target_bag' = b
  /\ pre_path' = path
  /\ visited' = seen
  /\ pc' = "merge"
  /\ UNCHANGED <<cfg, finished, graphVars, is_loop, bag_num>>

(* The bag is not pushed again behind its children. *)
PushChildren(b, path, seen) ==
  /\ Pop(b, path, seen)
  /\ b \notin finished \cup seen
  /\ Unfinished(b) # {}
  /\ \E cs \in Ascending(Unfinished(b)) :
       bag_stack' = Front(bag_stack) \o ChildEntries(cs, b, path, seen)
  /\ UNCHANGED <<cfg, pc, target_bag, pre_path, visited, finished, graphVars, is_loop,
                 bag_num>>

FinishBag(b, path, seen) ==
  /\ Pop(b, path, seen)
  /\ b \notin finished \cup seen
  /\ Unfinished(b) = {}
  /\ finished' = finished \cup {b}
  /\ bag_stack' = Front(bag_stack)
  /\ UNCHANGED <<cfg, pc, target_bag, pre_path, visited, graphVars, is_loop, bag_num>>
-----------------------------------------------------------------------------
(* The wider of two register maps, register by register. *)
Widest(m1, m2) == [r \in Reg |-> IF m1[r] < m2[r] THEN m2[r] ELSE m1[r]]

MergeLoads(moved) ==   \* Seeded fault: only the loads are merged.
  /\ own_ld_rmp' = [own_ld_rmp EXCEPT ![target_bag] = Widest(@, own_ld_rmp[moved])]
  /\ UNCHANGED own_str_rmp

MergeOwnRegs(moved) ==
  /\ own_ld_rmp' = [own_ld_rmp EXCEPT ![target_bag] = Widest(@, own_ld_rmp[moved])]
  /\ own_str_rmp' = [own_str_rmp EXCEPT ![target_bag] = Widest(@, own_str_rmp[moved])]

(***************************************************************************)
(* The true parents and children of the moved bag become those of the      *)
(* target, and learn of it.                                                *)
(***************************************************************************)
MergeParents(moved) ==   \* Seeded fault: the children are forgotten.
  /\ parents' = [parents EXCEPT ![target_bag] = @ \cup True(parents[moved])]
  /\ children' = [b \in Bag |-> children[b]
                    \cup (IF b \in True(parents[moved]) THEN {target_bag} ELSE {})]

MergeFamilyBags(moved) ==
  LET pars == True(parents[moved])
      chn == True(children[moved] \cup (IF moved \in pars THEN {target_bag} ELSE {}))
  IN  /\ parents' = [b \in Bag |-> parents[b]
                       \cup (IF b = target_bag THEN pars ELSE {})
                       \cup (IF b \in chn THEN {target_bag} ELSE {})]
      /\ children' = [b \in Bag |-> children[b]
                        \cup (IF b = target_bag THEN chn ELSE {})
                        \cup (IF b \in pars THEN {target_bag} ELSE {})]

(* Every bag whose true bag was the moved one now leads to the target. *)
ConvertOne(moved) ==   \* Seeded fault: GetTrueBag follows one link only.
  true_bag' = [true_bag EXCEPT ![moved] = target_bag]

Convert(moved) ==
  true_bag' = [b \in Bag |-> IF true_bag[b] = moved THEN target_bag ELSE true_bag[b]]

(* One bag of the path moves into the target. *)
MoveBag(moved) ==
  /\ MergeOwnRegs(moved)
  /\ MergeFamilyBags(moved)
  /\ in_bbs' = [in_bbs EXCEPT ![target_bag] = @ \cup in_bbs[moved]]
  /\ Convert(moved)

(* The path never runs out: the code CHECKs it. *)
Merge(moved) ==
  /\ pc = "merge"
  /\ pre_path # <<>>
  /\ moved = true_bag[Last(pre_path)]
  /\ moved # target_bag
  /\ MoveBag(moved)
  /\ pre_path' = Front(pre_path)
  /\ visited' = visited \ {moved}
  /\ bag_num' = bag_num - 1
  /\ UNCHANGED <<cfg, pc, bag_stack, target_bag, finished, is_loop>>

MarkLoop(b) == is_loop' = [is_loop EXCEPT ![b] = "loop"]

(* The occurrence of the target on its own path: it is searched again. *)
LoopClosed ==
  /\ pc = "merge"
  /\ pre_path # <<>>
  /\ true_bag[Last(pre_path)] = target_bag
  /\ MarkLoop(target_bag)
  /\ pre_path' = Front(pre_path)
  /\ visited' = visited \ {target_bag}
  /\ bag_stack' = Append(bag_stack, Entry(target_bag, pre_path', visited'))
  /\ pc' = "search"
  /\ UNCHANGED <<cfg, target_bag, finished, graphVars, bag_num>>

(* The search is over: all edges are turned into edges of true bags. *)
FamilyWithSelf(family) ==   \* Seeded fault: a loop remains its own parent and child.
  [b \in Bag |-> IF b \in LiveBags THEN True(family[b]) ELSE {}]

TrueFamily(family) ==
  [b \in Bag |-> IF b \in LiveBags THEN True(family[b]) \ {b} ELSE {}]

Normalize ==
  /\ pc = "search"
  /\ bag_stack = <<>>
  /\ parents' = TrueFamily(parents)
  /\ children' = TrueFamily(children)
  /\ pc' = "done"
  /\ UNCHANGED <<cfg, searchVars, true_bag, in_bbs, own_ld_rmp, own_str_rmp, is_loop,
                 bag_num>>

Done == pc = "done" /\ UNCHANGED vars

Search ==
  \E b \in Bag : \E path \in {Last(bag_stack).path}, seen \in {True(Last(bag_stack).visited)} :
    \/ SkipFinished(b, path, seen)
    \/ LoopFound(b, path, seen)
    \/ PushChildren(b, path, seen)
    \/ FinishBag(b, path, seen)

Next ==
  \/ bag_stack # <<>> /\ Search
  \/ \E b \in Bag : Merge(b)
  \/ LoopClosed
  \/ Normalize
  \/ Done

Spec == Init /\ [][Next]_vars

(* One thread, which nothing blocks. *)
FairSpec == Spec /\ WF_vars(Next)
-----------------------------------------------------------------------------
(***************************************************************************)
(* Properties.                                                             *)
(***************************************************************************)
EntryType == [bag : Bag, path : Seq(Bag), visited : SUBSET Bag]

TypeOK ==
  /\ IsCFG(cfg)
  /\ pc \in {"search", "merge", "done"}
  /\ bag_stack \in Seq(EntryType)
  /\ target_bag \in Bag
  /\ pre_path \in Seq(Bag)
  /\ visited \subseteq Bag
  /\ finished \subseteq Bag
  /\ true_bag \in [Bag -> Bag]
  /\ parents \in [Bag -> SUBSET Bag]
  /\ children \in [Bag -> SUBSET Bag]
  /\ in_bbs \in [Bag -> SUBSET Bag]
  /\ own_ld_rmp \in [Bag -> RegMap]
  /\ own_str_rmp \in [Bag -> RegMap]
  /\ is_loop \in [Bag -> {"undetermined", "loop"}]
  /\ bag_num \in Int

(***************************************************************************)
(* Node b of graph g reaches c: every set of nodes that holds b and is     *)
(* closed under the edges holds c.                                         *)
(***************************************************************************)
Closed(g, S) == \A b \in S : g[b] \subseteq S

Reaches(g, b, c) == \A S \in SUBSET Bag : b \in S /\ Closed(g, S) => c \in S

(* The blocks that lie on a common cycle with b. *)
Component(b) == {c \in Bag : Reaches(cfg, b, c) /\ Reaches(cfg, c, b)}

(***************************************************************************)
(* The bags that are left partition the blocks, one bag per loop nest:     *)
(* the blocks of a bag are exactly the blocks that reach one another.      *)
(***************************************************************************)
BagsAreLoops ==
  pc = "done" =>
    \A b \in Bag : in_bbs[true_bag[b]] = Component(b)

(***************************************************************************)
(* The graph of bags has no cycle (the debug build searches for one), its  *)
(* edges are those of the blocks, and an edge is known at both its ends.   *)
(***************************************************************************)
BagGraphIsAcyclic ==
  pc = "done" =>
    \A b \in LiveBags :
      /\ \A c \in children[b] : ~ Reaches(children, c, b)
      /\ children[b] = (UNION {True(cfg[c]) : c \in in_bbs[b]}) \ {b}
      /\ \A c \in LiveBags : c \in children[b] <=> b \in parents[c]

(***************************************************************************)
(* bag_num, which the later passes compare with the number of bags they    *)
(* finish, counts the bags that are left.                                  *)
(***************************************************************************)
BagNumCounts == bag_num = Cardinality(LiveBags)

(***************************************************************************)
(* At every moment a bag loads and stores what its blocks do, a register   *)
(* at the widest of their accesses.                                        *)
(***************************************************************************)
IsWidestOf(m, block_maps, bbs) ==
  \A r \in Reg : /\ \A b \in bbs : block_maps[b][r] <= m[r]
                 /\ \E b \in bbs : block_maps[b][r] = m[r]

OwnRegsAreTheBlocks ==
  \A b \in LiveBags : /\ IsWidestOf(own_ld_rmp[b], BlockLoads, in_bbs[b])
                      /\ IsWidestOf(own_str_rmp[b], BlockStores, in_bbs[b])

(* At every moment, two blocks share a bag only if each reaches the other. *)
MergedBlocksAreLoops ==
  \A b, c \in Bag : true_bag[b] = true_bag[c] => Reaches(cfg, b, c)

(***************************************************************************)
(* A merge ends at an occurrence of its target on the path: the path does  *)
(* not run out, which the code CHECKs.                                     *)
(***************************************************************************)
PathLeadsBack ==
  pc = "merge" => \E i \in DOMAIN pre_path : true_bag[pre_path[i]] = target_bag

(* The search ends, without running out of path. *)
SearchEnds == <>(pc = "done")
=============================================================================
