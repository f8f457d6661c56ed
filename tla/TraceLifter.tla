---------------------------- MODULE TraceLifter ----------------------------
(***************************************************************************)
(* The lifting loop: lifter/Lift.cpp calls TraceLifter::Impl::Lift for     *)
(* every function of the symbol table, and Lift turns the function, and    *)
(* the functions its BL instructions name, into a graph of LLVM basic      *)
(* blocks, one per machine instruction.                                    *)
(*                                                                         *)
(* The instruction after a is at a + 1.  The binary is chosen in Init and  *)
(* never changes: what the manager (lifter/TraceManager.cpp) answers about *)
(* it are the operators of the first section.                              *)
(***************************************************************************)
EXTENDS GuestBinary

CONSTANTS
  Binaries,    \* the binaries Init chooses from
  EntryBlock,  \* the block InitializeEmptyLiftedFunction creates
  IndirectBr,  \* indirectbr_block: every BR of a function branches to it
  BrToFunc,    \* br_to_func_block: where it goes for other functions
  NoTrace      \* "no function is being lifted"

ASSUME MaxAddrAssumption == MaxAddr \in Nat \ {0}
ASSUME BinariesAssumption == \A b \in Binaries : WellFormed(b)
ASSUME MarkersAssumption == /\ {EntryBlock, IndirectBr, BrToFunc, NoTrace} \cap Addr = {}
                            /\ IndirectBr \notin {EntryBlock, BrToFunc}

VARIABLES
  elf,              \* the binary, as the manager sees it
  pc,               \* where the lifter is: "main", "trace", "inst" or "done"
  disasm_left,      \* functions the loop of main() has still to visit
  lift_addr,        \* argument of the running call of Lift
  declared,         \* functions declared in the module
  defs,             \* manager.traces: the lifted functions
  trace_work_list,
  inst_work_list,
  trace_addr,       \* function being lifted
  blocks,           \* addresses that have a block in it (lifted_block_map)
  term,             \* what each of its blocks ends with
  bb_parents,       \* blocks that branch to a block
  indirectbr,       \* whether indirectbr_block exists
  lift_all_insn,
  b_jump_callees    \* b_jump_callees_map: functions a B instruction leaves to

vars == <<elf, pc, disasm_left, lift_addr, declared, defs, trace_work_list,
          inst_work_list, trace_addr, blocks, term, bb_parents, indirectbr,
          lift_all_insn, b_jump_callees>>

mainVars  == <<elf, disasm_left, lift_addr>>
funcVars  == <<blocks, term, bb_parents, indirectbr, lift_all_insn>>
-----------------------------------------------------------------------------
(***************************************************************************)
(* The trace manager.                                                      *)
(***************************************************************************)
IsFunctionEntry(a) == a \in elf.entries

FuncVMA_E(f) == elf.end[f]

IsWithinFunction(f, a) == f <= a /\ a < FuncVMA_E(f)

ReadInstructionBytes(a) == a \in elf.memory

(* get_trace_decl: the declaration of the function that starts at a. *)
TraceDecl(a) == IF IsFunctionEntry(a) THEN {a} ELSE {}

Lowest(S) == CHOOSE a \in S : \A b \in S : a <= b

(***************************************************************************)
(* A block ends with a branch, a tail call of another lifted function, a   *)
(* return, the branch to indirectbr_block, or the call of an error or      *)
(* missing-block intrinsic; "empty" is a block that exists and has no      *)
(* instruction yet.  "calls" is the lifted function a BL calls before it.  *)
(***************************************************************************)
Kind == {"empty", "branch", "tail", "return", "indirect", "error", "missing"}

Term == [kind : Kind, succ : SUBSET Addr, calls : SUBSET Addr]

End(kind, calls)  == [kind |-> kind, succ |-> {}, calls |-> calls]
Branch(succ, calls) == [kind |-> "branch", succ |-> succ, calls |-> calls]
Empty == End("empty", {})

(* The blocks bb_parents knows: a block per address, and two without one.  *)
Node == Addr \cup {IndirectBr, BrToFunc}

(* The blocks a terminator branches to. *)
Targets(t) == t.succ \cup (IF t.kind = "indirect" THEN {IndirectBr} ELSE {})

Def == [blocks : SUBSET Addr, term : [Addr -> Term],
        parents : [Node -> SUBSET (Node \cup {EntryBlock})],
        indirect : BOOLEAN]
NoDef == [blocks |-> {}, term |-> [a \in Addr |-> Empty],
          parents |-> [b \in Node |-> {}], indirect |-> FALSE]

(* A function is lifted when the manager has its definition. *)
Lifted(f) == defs[f].blocks # {}
-----------------------------------------------------------------------------
Init ==
  /\ elf \in Binaries
  /\ pc = "main"
  /\ disasm_left = elf.entries
  /\ lift_addr = NoTrace
  /\ declared = {}
  /\ defs = [a \in Addr |-> NoDef]
  /\ trace_work_list = {}
  /\ inst_work_list = {}
  /\ trace_addr = NoTrace
  /\ blocks = {}
  /\ term = [a \in Addr |-> Empty]
  /\ bb_parents = [b \in Node |-> {}]
  /\ indirectbr = FALSE
  /\ lift_all_insn = FALSE
  /\ b_jump_callees = [a \in Addr |-> {}]

(***************************************************************************)
(* main(): the functions come out of an unordered map, in any order.       *)
(***************************************************************************)
LiftCall(f) ==
  /\ pc = "main"
  /\ f \in disasm_left
  /\ disasm_left' = disasm_left \ {f}
  /\ lift_addr' = f
  /\ trace_work_list' = {f}
  /\ inst_work_list' = {}
  /\ blocks' = {}
  /\ lift_all_insn' = FALSE
  /\ indirectbr' = FALSE
  /\ pc' = "trace"
  /\ UNCHANGED <<elf, declared, defs, trace_addr, term, bb_parents, b_jump_callees>>

(* Lift returns; main() renames the definition it now expects to find. *)
LiftReturn ==
  /\ pc = "trace"
  /\ trace_work_list = {}
  /\ Lifted(lift_addr)
  /\ pc' = "main"
  /\ UNCHANGED <<mainVars, declared, defs, trace_work_list, inst_work_list,
                 trace_addr, funcVars, b_jump_callees>>

(* Seeded fault: main() stops before it has visited every function. *)
FinishEarly ==
  /\ pc = "main"
  /\ pc' = "done"
  /\ UNCHANGED <<mainVars, declared, defs, trace_work_list, inst_work_list,
                 trace_addr, funcVars, b_jump_callees>>

Finish ==
  /\ pc = "main"
  /\ disasm_left = {}
  /\ pc' = "done"
  /\ UNCHANGED <<mainVars, declared, defs, trace_work_list, inst_work_list,
                 trace_addr, funcVars, b_jump_callees>>

Done == pc = "done" /\ UNCHANGED vars
-----------------------------------------------------------------------------
(***************************************************************************)
(* The trace loop of Lift: the lowest address of the work list first.      *)
(***************************************************************************)
(* Seeded fault: the function is not taken off the list. *)
SkipUnpopped ==
  /\ pc = "trace"
  /\ trace_work_list # {}
  /\ Lifted(Lowest(trace_work_list))
  /\ UNCHANGED vars

SkipTrace ==
  /\ pc = "trace"
  /\ trace_work_list # {}
  /\ LET f == Lowest(trace_work_list)
     IN  /\ Lifted(f)
         /\ trace_work_list' = trace_work_list \ {f}
  /\ UNCHANGED <<mainVars, pc, declared, defs, inst_work_list, trace_addr,
                 funcVars, b_jump_callees>>

StartTrace ==
  /\ pc = "trace"
  /\ trace_work_list # {}
  /\ inst_work_list = {}
  /\ LET f == Lowest(trace_work_list)
     IN  /\ ~ Lifted(f)
         /\ IsFunctionEntry(f)
         /\ trace_work_list' = trace_work_list \ {f}
         /\ trace_addr' = f
         /\ declared' = declared \cup {f}
         /\ blocks' = {f}
         /\ term' = [a \in Addr |-> Empty]
         /\ bb_parents' = [b \in Node |-> IF b = f THEN {EntryBlock} ELSE {}]
         /\ inst_work_list' = {f}
  /\ indirectbr' = FALSE
  /\ lift_all_insn' = FALSE
  /\ pc' = "inst"
  /\ UNCHANGED <<mainVars, defs, b_jump_callees>>

(***************************************************************************)
(* A function with a BR may jump to any of its instructions: those that    *)
(* have no block yet are lifted in a second pass, once.                    *)
(***************************************************************************)
AllButLast ==   \* Seeded fault: off by one.
  (trace_addr .. FuncVMA_E(trace_addr) - 2) \ blocks

UnliftedInsns == (trace_addr .. FuncVMA_E(trace_addr) - 1) \ blocks

LiftAllInsns ==
  /\ pc = "inst"
  /\ inst_work_list = {}
  /\ indirectbr
  /\ ~ lift_all_insn
  /\ inst_work_list' = UnliftedInsns
  /\ lift_all_insn' = TRUE
  /\ UNCHANGED <<mainVars, pc, declared, defs, trace_work_list, trace_addr,
                 blocks, term, bb_parents, indirectbr, b_jump_callees>>

(* Seeded fault: the definition goes to the function Lift was called for. *)
SetAtLiftAddr(f, d) == defs' = [defs EXCEPT ![lift_addr] = d]

SetLiftedTraceDefinition(f, d) == defs' = [defs EXCEPT ![f] = d]

(***************************************************************************)
(* indirectbr_block gets its indirectbr, to every lifted block and to      *)
(* br_to_func_block.  Recorded of these branches are the last one and      *)
(* those to the blocks that end with a BR.                                 *)
(***************************************************************************)
SaveIndirectParents ==
  bb_parents' =
    IF ~ indirectbr THEN bb_parents
    ELSE [b \in Node |->
            IF b = BrToFunc THEN {IndirectBr}
            ELSE bb_parents[b] \cup
                   (IF b \in blocks /\ term[b].kind = "indirect" THEN {IndirectBr} ELSE {})]

(* The function is complete: blocks left without terminator get one. *)
FinishTrace ==
  /\ pc = "inst"
  /\ inst_work_list = {}
  /\ indirectbr => lift_all_insn
  /\ SaveIndirectParents
  /\ term' = [a \in Addr |-> IF a \in blocks /\ term[a] = Empty
                             THEN End("missing", {}) ELSE term[a]]
  /\ SetLiftedTraceDefinition(trace_addr,
       [blocks |-> blocks, term |-> term', parents |-> bb_parents',
        indirect |-> indirectbr])
  /\ pc' = "trace"
  /\ UNCHANGED <<mainVars, declared, trace_work_list, inst_work_list, trace_addr,
                 blocks, indirectbr, lift_all_insn, b_jump_callees>>
-----------------------------------------------------------------------------
(***************************************************************************)
(* The instruction loop.  Every iteration pops the lowest address a and    *)
(* makes sure it has a block; Terminate ends that block with t, creates    *)
(* the blocks t branches to and queues their instructions.                 *)
(***************************************************************************)
Popped(a) ==
  /\ pc = "inst"
  /\ a \in inst_work_list
  /\ \A b \in inst_work_list : a <= b

(* DirectBranchWithSaveParents, for every branch of the terminator. *)
SaveLastParent(a, t) ==   \* Seeded fault: only the last parent is kept.
  bb_parents' = [b \in Node |-> IF b \in Targets(t) THEN {a} ELSE bb_parents[b]]

SaveParents(a, t) ==
  bb_parents' = [b \in Node |-> IF b \in Targets(t) THEN bb_parents[b] \cup {a}
                                                     ELSE bb_parents[b]]

Terminate(a, t) ==
  /\ blocks' = blocks \cup {a} \cup t.succ
  /\ term' = [term EXCEPT ![a] = t]
  /\ SaveParents(a, t)
  /\ inst_work_list' = (inst_work_list \ {a}) \cup t.succ

(* Seeded fault: a block that exists is taken for a lifted one. *)
SkipExisting(a) ==
  /\ Popped(a)
  /\ a \in blocks
  /\ inst_work_list' = inst_work_list \ {a}
  /\ UNCHANGED <<mainVars, pc, declared, defs, trace_work_list, trace_addr,
                 funcVars, b_jump_callees>>

(* The block already has instructions: nothing to do. *)
SkipInsn(a) ==
  /\ Popped(a)
  /\ term[a] # Empty
  /\ inst_work_list' = inst_work_list \ {a}
  /\ UNCHANGED <<mainVars, pc, declared, defs, trace_work_list, trace_addr,
                 funcVars, b_jump_callees>>

NoOtherTrace(a) == FALSE   \* Seeded fault: functions run into each other.

IsOtherTrace(a) == a # trace_addr /\ IsFunctionEntry(a)

(* Control runs into another function: a tail call of it. *)
TailCallTrace(a) ==
  /\ Popped(a)
  /\ term[a] = Empty
  /\ IsOtherTrace(a)
  /\ Terminate(a, End("tail", {a}))
  /\ declared' = declared \cup {a}
  /\ UNCHANGED <<mainVars, pc, defs, trace_work_list, trace_addr, indirectbr,
                 lift_all_insn, b_jump_callees>>

MissingBlock(a) ==
  /\ Popped(a)
  /\ term[a] = Empty
  /\ ~ IsOtherTrace(a)
  /\ ~ ReadInstructionBytes(a)
  /\ Terminate(a, End("missing", {}))
  /\ UNCHANGED <<mainVars, pc, declared, defs, trace_work_list, trace_addr,
                 indirectbr, lift_all_insn, b_jump_callees>>

(* An instruction of category cat is decoded at a. *)
Decoded(a, cat) ==
  /\ Popped(a)
  /\ term[a] = Empty
  /\ ~ IsOtherTrace(a)
  /\ ReadInstructionBytes(a)
  /\ elf.insn[a].cat = cat

(***************************************************************************)
(* The categories whose terminator depends on the instruction alone.       *)
(***************************************************************************)
PlainTerm(a) ==
  LET i == elf.insn[a]
  IN  CASE i.cat = "normal"  -> Branch({a + 1}, {})
        [] i.cat = "blr"     -> Branch({a + 1}, {})
        [] i.cat = "cond"    -> Branch({i.taken, a + 1}, {})
        [] i.cat = "ret"     -> End("return", {})
        [] i.cat = "invalid" -> End("error", {})
        [] i.cat = "svc"     -> IF IsFunctionEntry(a + 1) THEN End("return", {})
                                                          ELSE Branch({a + 1}, {})

LiftPlain(a) ==
  /\ \E cat \in {"normal", "blr", "cond", "ret", "invalid", "svc"} : Decoded(a, cat)
  /\ Terminate(a, PlainTerm(a))
  /\ UNCHANGED <<mainVars, pc, declared, defs, trace_work_list, trace_addr,
                 indirectbr, lift_all_insn, b_jump_callees>>

(* B: leaving the function is remembered for the register analysis. *)
LiftDirectJump(a) ==
  /\ Decoded(a, "jump")
  /\ LET t == elf.insn[a].taken
         left == IF IsWithinFunction(trace_addr, t) THEN {} ELSE TraceDecl(t)
     IN  /\ declared' = declared \cup left
         /\ b_jump_callees' = [b_jump_callees EXCEPT ![trace_addr] = @ \cup left]
         /\ Terminate(a, Branch({t}, {}))
  /\ UNCHANGED <<mainVars, pc, defs, trace_work_list, trace_addr, indirectbr,
                 lift_all_insn>>

(* BR: through indirectbr_block, which the first BR creates. *)
LiftIndirectJump(a) ==
  /\ Decoded(a, "br")
  /\ Terminate(a, End("indirect", {}))
  /\ indirectbr' = TRUE
  /\ UNCHANGED <<mainVars, pc, declared, defs, trace_work_list, trace_addr,
                 lift_all_insn, b_jump_callees>>

(***************************************************************************)
(* BL: a call if the target is a function and not the next instruction,    *)
(* and a nop otherwise.                                                    *)
(***************************************************************************)
LiftDirectCall(a) ==
  /\ Decoded(a, "bl")
  /\ LET t == elf.insn[a].taken
         callee == TraceDecl(t) \ {a + 1}
     IN  /\ declared' = declared \cup TraceDecl(t)
         /\ trace_work_list' = trace_work_list \cup callee
         /\ Terminate(a, Branch({a + 1}, callee))
  /\ UNCHANGED <<mainVars, pc, defs, trace_addr, indirectbr, lift_all_insn,
                 b_jump_callees>>

LiftInsn ==
  \E a \in Addr :
    \/ SkipInsn(a)
    \/ TailCallTrace(a)
    \/ MissingBlock(a)
    \/ LiftPlain(a)
    \/ LiftDirectJump(a)
    \/ LiftIndirectJump(a)
    \/ LiftDirectCall(a)

Lift ==
  \/ SkipTrace
  \/ StartTrace
  \/ LiftInsn
  \/ LiftAllInsns
  \/ FinishTrace
  \/ LiftReturn

Next ==
  \/ \E f \in Addr : LiftCall(f)
  \/ Lift
  \/ Finish
  \/ Done

Spec == Init /\ [][Next]_vars

(* The lifter is one thread that never waits for anything. *)
FairSpec == Spec /\ WF_vars(Next)
-----------------------------------------------------------------------------
(***************************************************************************)
(* Properties.                                                             *)
(***************************************************************************)
TypeOK ==
  /\ WellFormed(elf)
  /\ pc \in {"main", "trace", "inst", "done"}
  /\ disasm_left \subseteq elf.entries
  /\ lift_addr \in elf.entries \cup {NoTrace}
  /\ declared \subseteq elf.entries
  /\ defs \in [Addr -> Def]
  /\ trace_work_list \subseteq elf.entries
  /\ inst_work_list \subseteq Addr
  /\ trace_addr \in elf.entries \cup {NoTrace}
  /\ blocks \subseteq Addr
  /\ term \in [Addr -> Term]
  /\ bb_parents \in [Node -> SUBSET (Node \cup {EntryBlock})]
  /\ indirectbr \in BOOLEAN
  /\ lift_all_insn \in BOOLEAN
  /\ b_jump_callees \in [Addr -> SUBSET elf.entries]

(***************************************************************************)
(* A finished function has no hole: the block of its first instruction     *)
(* exists, every block was lifted (the sweep for blocks without terminator *)
(* never finds one), and every branch of a block leads to a block of the   *)
(* same function.                                                          *)
(***************************************************************************)
NoHoles(f, d) ==
  /\ f \in d.blocks
  /\ \A a \in d.blocks :
       /\ d.term[a] # Empty
       /\ d.term[a].succ \subseteq d.blocks
       /\ (d.term[a].kind = "missing" => ~ ReadInstructionBytes(a))

DefinitionsHaveNoHoles == \A f \in Addr : Lifted(f) => NoHoles(f, defs[f])

(***************************************************************************)
(* The block address table of a function with a BR names every             *)
(* instruction of the function, so that no jump inside it can miss.        *)
(***************************************************************************)
BranchTableIsComplete ==
  \A f \in Addr :
    Lifted(f) => /\ defs[f].indirect => f .. FuncVMA_E(f) - 1 \subseteq defs[f].blocks
                 /\ (\E a \in defs[f].blocks : defs[f].term[a].kind = "indirect")
                      => defs[f].indirect

(***************************************************************************)
(* The parents recorded of a block are the blocks that branch to it, and   *)
(* the entry block for the first one.  Of a function without a BR, which   *)
(* is what the register analysis reads, they are exactly those; with a BR  *)
(* branches out of indirectbr_block to lifted blocks may be missing, and   *)
(* nothing else.                                                           *)
(***************************************************************************)
BranchesTo(f, b) ==
  {a \in defs[f].blocks : b \in Targets(defs[f].term[a])}
    \cup (IF b = f THEN {EntryBlock} ELSE {})
    \cup (IF defs[f].indirect /\ b \in defs[f].blocks \cup {BrToFunc}
          THEN {IndirectBr} ELSE {})

ParentsAreBranches ==
  \A f \in Addr : Lifted(f) =>
    \A b \in Node :
      /\ defs[f].parents[b] \subseteq BranchesTo(f, b)
      /\ BranchesTo(f, b) \ defs[f].parents[b] \subseteq {IndirectBr}
      /\ b = BrToFunc => defs[f].parents[b] = BranchesTo(f, b)

(* Every function that lifted code calls or tail calls is defined in the   *)
(* end, whether or not the lifter reached it by a BL.                      *)
DeclaredAreDefined == pc = "done" => \A f \in declared : Lifted(f)

(***************************************************************************)
(* Only the first instruction of another function is a tail call of it,    *)
(* and no block of a function holds an instruction that starts another.    *)
(***************************************************************************)
TracesDoNotOverrun ==
  \A f \in Addr : Lifted(f) =>
    \A a \in defs[f].blocks :
      (a # f /\ IsFunctionEntry(a)) <=> defs[f].term[a].kind = "tail"

(***************************************************************************)
(* When Lift returns to main(), the function it was called for has a       *)
(* definition: main() renames it without looking.                          *)
(***************************************************************************)
LiftDefinesItsFunction ==
  pc = "trace" /\ trace_work_list = {} => Lifted(lift_addr)

(* A definition, once in the manager, is never replaced. *)
NeverRelifted == [][\A f \in Addr : Lifted(f) => defs'[f] = defs[f]]_vars

(* The lifter ends. *)
LiftingEnds == <>(pc = "done")
=============================================================================
