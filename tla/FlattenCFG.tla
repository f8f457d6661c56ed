----------------------------- MODULE FlattenCFG -----------------------------
(***************************************************************************)
(* The first half of VirtualRegsOpt::AnalyzeRegsBags.  Lift makes a block  *)
(* of every instruction; here a block that is the only successor of its    *)
(* only parent is joined to that parent, and erased.  The blocks are       *)
(* visited breadth first; bb_parents, bb_queue and the register            *)
(* information of the blocks change while the queue is worked off, and the *)
(* queue holds pointers to blocks.                                         *)
(***************************************************************************)
EXTENDS Integers, SequencesExt

CONSTANTS
  Block,      \* the blocks Lift made, one per instruction
  Entry,      \* the entry block of the LLVM function
  First,      \* the block of the first instruction
  Reg,        \* registers
  Width,      \* widths of a register; 0 stands for "not in the map"
  NoBlock,    \* "no value" in r_fresh_inst_mp
  Graphs,     \* the control flow graphs Init chooses from
  InsnLoads,  \* bb_ld_r_mp of each block, as LiftIntoBlock fills it
  InsnStores  \* bb_str_r_mp likewise

RegMap == [Reg -> Width]

(* A block branches to nothing (it returns), to one block or to two, which *)
(* can be the same; nothing branches to the entry block.                   *)
IsCFG(g) ==
  /\ g \in [Block -> UNION {[1 .. n -> Block \ {Entry}] : n \in 0 .. 2}]
  /\ g[Entry] = <<First>>

ASSUME BlockAssumption ==
  IsFiniteSet(Block) /\ Entry \in Block /\ First \in Block \ {Entry} /\ NoBlock \notin Block
ASSUME WidthAssumption == Width \subseteq Nat /\ 0 \in Width
ASSUME GraphsAssumption == \A g \in Graphs : IsCFG(g)
ASSUME RegsAssumption == InsnLoads \in [Block -> RegMap] /\ InsnStores \in [Block -> RegMap]

VARIABLES
  cfg,         \* the control flow graph as Lift left it
  pc,          \* "join" or "done"
  bb_queue,
  visited,
  succ,        \* successors of the terminator of each block
  insns,       \* the instructions of each block; none once it is erased
  bb_parents,
  bb_ld_r_mp, bb_str_r_mp,
  r_fresh      \* r_fresh_inst_mp: the instruction with the latest value of a
               \* register, and the width of that value

regVars == <<bb_ld_r_mp, bb_str_r_mp, r_fresh>>
vars == <<cfg, pc, bb_queue, visited, succ, insns, bb_parents, regVars>>

Succ(b) == Range(succ[b])

Live(b) == insns[b] # <<>>

(* LiftIntoBlock: an instruction loads its operands and then stores its    *)
(* result; the result is the latest value of its register.                 *)
InsnFresh(i, r) ==
  CASE InsnStores[i][r] # 0 -> [insn |-> i, width |-> InsnStores[i][r]]
    [] InsnStores[i][r] = 0 /\ InsnLoads[i][r] # 0 -> [insn |-> i, width |-> InsnLoads[i][r]]
    [] InsnStores[i][r] = 0 /\ InsnLoads[i][r] = 0 -> [insn |-> NoBlock, width |-> 0]
-----------------------------------------------------------------------------
Init ==
  /\ cfg \in Graphs
  /\ pc = "join"
  /\ bb_queue = <<First>>
  /\ visited = {}
  /\ succ = cfg
  /\ insns = [b \in Block |-> <<b>>]
  /\ bb_parents = [b \in Block |-> {p \in Block : b \in Range(cfg[p])}]
  /\ bb_ld_r_mp = InsnLoads
  /\ bb_str_r_mp = InsnStores
  /\ r_fresh = [b \in Block |-> [r \in Reg |-> InsnFresh(b, r)]]

PushAlways(c, seen) == <<c>>   \* Seeded fault: visited is ignored.

PushSuccessor(c, seen) == IF c \in seen THEN <<>> ELSE <<c>>

(* The successors that were not visited are queued, once per branch.       *)
UnvisitedSuccs(b, seen) ==
  CASE Len(succ[b]) = 0 -> <<>>
    [] Len(succ[b]) = 1 -> PushSuccessor(succ[b][1], seen)
    [] Len(succ[b]) = 2 -> PushSuccessor(succ[b][1], seen) \o PushSuccessor(succ[b][2], seen)

AnyParents(c) == TRUE     \* Seeded fault: every single successor is joined.

OneParent(c) == Cardinality(bb_parents[c]) = 1

CanJoin(b) == Len(succ[b]) = 1 /\ OneParent(succ[b][1])

(* A block with two successors, with none, or with one that has other      *)
(* parents too, stays as it is.                                            *)
Keep(b) ==
  /\ ~ CanJoin(b)
  /\ visited' = visited \cup {b}
  /\ bb_queue' = Tail(bb_queue) \o UnvisitedSuccs(b, visited')
  /\ UNCHANGED <<cfg, pc, succ, insns, bb_parents, regVars>>

(***************************************************************************)
(* BBRegInfoNode::join_reg_info_node: block c behind block b.              *)
(***************************************************************************)
AllLoads(b, c) ==   \* Seeded fault: loads behind a store count too.
  [r \in Reg |-> IF bb_ld_r_mp[b][r] # 0 THEN bb_ld_r_mp[b][r] ELSE bb_ld_r_mp[c][r]]

JoinedLoads(b, c) ==
  [r \in Reg |-> IF bb_ld_r_mp[b][r] # 0 \/ bb_str_r_mp[b][r] # 0
                 THEN bb_ld_r_mp[b][r] ELSE bb_ld_r_mp[c][r]]

JoinedStores(b, c) ==
  [r \in Reg |-> IF bb_str_r_mp[c][r] # 0 THEN bb_str_r_mp[c][r] ELSE bb_str_r_mp[b][r]]

WiderFresh(b, c) ==   \* Seeded fault: a narrower store does not count.
  [r \in Reg |-> IF r_fresh[b][r].width <= r_fresh[c][r].width THEN r_fresh[c][r]
                                                               ELSE r_fresh[b][r]]

JoinedFresh(b, c) ==
  [r \in Reg |-> IF \/ bb_str_r_mp[c][r] # 0
                    \/ r_fresh[b][r].width <= r_fresh[c][r].width
                 THEN r_fresh[c][r] ELSE r_fresh[b][r]]

(* The children of the joined block c get b for a parent.                  *)
AddParent(b, c) ==   \* Seeded fault: the erased block remains a parent.
  bb_parents' = [d \in Block |-> IF d = c THEN {}
                                 ELSE bb_parents[d] \cup (IF d \in Succ(c) THEN {b} ELSE {})]

ReplaceParent(b, c) ==
  bb_parents' = [d \in Block |-> CASE d = c -> {}
                                   [] d # c /\ d \in Succ(c) -> (bb_parents[d] \ {c}) \cup {b}
                                   [] d # c /\ d \notin Succ(c) -> bb_parents[d]]

(* b is queued again unless it now ends with a return.                     *)
NeverAgain(b, c) == Tail(bb_queue)   \* Seeded fault.

Requeued(b, c) == IF succ[c] = <<>> THEN Tail(bb_queue) ELSE Append(Tail(bb_queue), b)

Join(b) ==
  LET c == succ[b][1]
  IN  /\ CanJoin(b)
      /\ visited' = visited \cup {b}
      /\ succ' = [succ EXCEPT ![b] = succ[c], ![c] = <<>>]
      /\ insns' = [insns EXCEPT ![b] = @ \o insns[c], ![c] = <<>>]
      /\ bb_ld_r_mp' = [bb_ld_r_mp EXCEPT ![b] = JoinedLoads(b, c)]
      /\ bb_str_r_mp' = [bb_str_r_mp EXCEPT ![b] = JoinedStores(b, c)]
      /\ r_fresh' = [r_fresh EXCEPT ![b] = JoinedFresh(b, c)]
      /\ ReplaceParent(b, c)
      /\ bb_queue' = Requeued(b, c)
      /\ UNCHANGED <<cfg, pc>>

Visit ==
  /\ pc = "join"
  /\ bb_queue # <<>>
  /\ LET b == Head(bb_queue) IN Keep(b) \/ Join(b)

Flattened ==
  /\ pc = "join"
  /\ bb_queue = <<>>
  /\ pc' = "done"
  /\ UNCHANGED <<cfg, bb_queue, visited, succ, insns, bb_parents, regVars>>

Done == pc = "done" /\ UNCHANGED vars

Next == Visit \/ Flattened \/ Done

Spec == Init /\ [][Next]_vars

(* One thread, which nothing blocks. *)
FairSpec == Spec /\ WF_vars(Next)
-----------------------------------------------------------------------------
(***************************************************************************)
(* Properties.                                                             *)
(***************************************************************************)
Fresh == [insn : Block \cup {NoBlock}, width : Width]

TypeOK ==
  /\ IsCFG(cfg)
  /\ pc \in {"join", "done"}
  /\ bb_queue \in Seq(Block)
  /\ visited \subseteq Block
  /\ IsCFG(succ)
  /\ insns \in [Block -> Seq(Block)]
  /\ bb_parents \in [Block -> SUBSET Block]
  /\ bb_ld_r_mp \in [Block -> RegMap]
  /\ bb_str_r_mp \in [Block -> RegMap]
  /\ r_fresh \in [Block -> [Reg -> Fresh]]

(***************************************************************************)
(* bb_parents stays the inverse of the branches while blocks are joined,   *)
(* and no block branches to an erased one.                                 *)
(***************************************************************************)
ParentsAreExact ==
  \A b \in Block :
    /\ bb_parents[b] = {p \in Block : b \in Succ(p)}
    /\ ~ Live(b) => succ[b] = <<>> /\ bb_parents[b] = {}

(* A block in the queue is never erased: the queue holds plain pointers.   *)
QueuedBlocksLive == \A i \in DOMAIN bb_queue : Live(bb_queue[i])

(***************************************************************************)
(* Nothing is lost and nothing is run twice: every instruction is in one   *)
(* block, and an instruction behind another one in a block was its only    *)
(* successor and had no other parent.                                      *)
(***************************************************************************)
JoinsAreSound ==
  /\ \A i \in Block : \E b \in Block : i \in Range(insns[b])
  /\ \A b, c \in Block : \A i \in DOMAIN insns[b], j \in DOMAIN insns[c] :
       insns[b][i] = insns[c][j] => b = c /\ i = j
  /\ \A b \in Block : \A i \in DOMAIN insns[b] : i + 1 \in DOMAIN insns[b] =>
       /\ cfg[insns[b][i]] = <<insns[b][i + 1]>>
       /\ \A p \in Block : insns[b][i + 1] \in Range(cfg[p]) => p = insns[b][i]

(* What control reaches and can be joined, is.                             *)
Closed(S) == \A b \in S : Succ(b) \subseteq S
Reached(b) == \A S \in SUBSET Block : First \in S /\ Closed(S) => b \in S

NothingIsLeftToJoin == pc = "done" => \A b \in Block : Reached(b) => ~ CanJoin(b)

(***************************************************************************)
(* The registers of a block: it loads those an instruction of it loads     *)
(* before any instruction stores them, at the width of the first load; it  *)
(* stores at the width of its last store.                                  *)
(***************************************************************************)
StoredBefore(b, r, i) == \E j \in 1 .. i - 1 : InsnStores[insns[b][j]][r] # 0

BlockRegsAreExact ==
  \A b \in Block, r \in Reg : Live(b) =>
    LET loads == {i \in DOMAIN insns[b] :
                    InsnLoads[insns[b][i]][r] # 0 /\ ~ StoredBefore(b, r, i)}
        stores == {i \in DOMAIN insns[b] : InsnStores[insns[b][i]][r] # 0}
    IN  /\ IF loads = {} THEN bb_ld_r_mp[b][r] = 0
           ELSE bb_ld_r_mp[b][r] = InsnLoads[insns[b][Min(loads)]][r]
        /\ IF stores = {} THEN bb_str_r_mp[b][r] = 0
           ELSE bb_str_r_mp[b][r] = InsnStores[insns[b][Max(stores)]][r]

(***************************************************************************)
(* The latest value of a register is not older than the last store to it,  *)
(* and no later access is wider.                                           *)
(***************************************************************************)
FreshIsLatest ==
  \A b \in Block, r \in Reg : Live(b) =>
    LET at == {i \in DOMAIN insns[b] : insns[b][i] = r_fresh[b][r].insn}
    IN  /\ at = {} => \A i \in DOMAIN insns[b] : InsnFresh(insns[b][i], r).width = 0
        /\ \A i \in at, j \in DOMAIN insns[b] : j > i =>
             /\ InsnStores[insns[b][j]][r] = 0
             /\ InsnLoads[insns[b][j]][r] < r_fresh[b][r].width

(* The queue is worked off. *)
FlatteningEnds == <>(pc = "done")
=============================================================================
