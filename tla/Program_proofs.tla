--------------------------- MODULE Program_proofs ---------------------------
(***************************************************************************)
(* The lifting loop and the program it makes, for every binary.            *)
(*                                                                         *)
(* First the lifting loop.  The invariants of TraceLifter speak of         *)
(* finished functions; what carries them is an invariant of the function   *)
(* being lifted, the work-list invariant: a block that has no terminator   *)
(* yet is on the instruction work list.  From them the loop keeps the      *)
(* promise of LifterSpec (LifterRefinement).                               *)
(*                                                                         *)
(* Then the running program.  Every block ends as its instruction says;    *)
(* from that, and from what is known of finished functions, every step of  *)
(* the running program is a step of GuestControl or none.                  *)
(***************************************************************************)
EXTENDS Program, SequenceTheorems, TLAPS

(* The function being finished, as the definition it becomes. *)
Draft == [blocks |-> blocks, term |-> term, parents |-> bb_parents',
          indirect |-> indirectbr]

WorkListInv ==
  /\ trace_addr \in blocks
  /\ \A a \in Addr : term[a] # Empty => a \in blocks
  /\ \A a \in blocks :
       /\ term[a] = Empty => a \in inst_work_list
       /\ term[a].succ \subseteq blocks
       /\ term[a].kind = "empty" => term[a] = Empty
       /\ term[a].kind = "missing" => ~ ReadInstructionBytes(a)

OverrunInv ==
  \A a \in blocks :
    term[a] # Empty => (IsOtherTrace(a) <=> term[a].kind = "tail")

IndirectInv ==
  /\ \A a \in blocks : term[a].kind = "indirect" => indirectbr
  /\ lift_all_insn =>
       trace_addr .. FuncVMA_E(trace_addr) - 1 \subseteq blocks \cup inst_work_list

ParentsInv ==
  \A b \in Node :
    bb_parents[b] = {a \in blocks : b \in Targets(term[a])}
                      \cup (IF b = trace_addr THEN {EntryBlock} ELSE {})

DraftInv ==
  pc = "inst" => /\ trace_addr \in elf.entries
                 /\ WorkListInv
                 /\ OverrunInv
                 /\ IndirectInv
                 /\ ParentsInv

(* Where main() and the trace loop stand. *)
MainInv ==
  /\ pc # "inst" => inst_work_list = {}
  /\ pc \in {"trace", "inst"} => lift_addr \in elf.entries
  /\ pc = "trace" => Lifted(lift_addr) \/ lift_addr \in trace_work_list
  /\ pc = "inst" =>
       Lifted(lift_addr) \/ lift_addr \in trace_work_list \/ lift_addr = trace_addr
  /\ \A f \in elf.entries \ disasm_left :
       Lifted(f) \/ (pc \in {"trace", "inst"} /\ f = lift_addr)
  /\ pc = "done" => disasm_left = {}
  /\ pc = "inst" => ~ Lifted(trace_addr)

DefsInv ==
  /\ DefinitionsHaveNoHoles
  /\ BranchTableIsComplete
  /\ ParentsAreBranches
  /\ TracesDoNotOverrun

IInv == TypeOK /\ DraftInv /\ MainInv /\ DefsInv
-----------------------------------------------------------------------------
USE MaxAddrAssumption, MarkersAssumption

LEMMA EmptyTerm == Empty \in Term /\ NoDef \in Def
BY DEF Empty, End, Term, Kind, NoDef, Def

(* The next instruction of a mapped one is an address. *)
LEMMA NextIsAddr ==
  ASSUME TypeOK, NEW a \in Addr, ReadInstructionBytes(a)
  PROVE  a + 1 \in Addr
BY DEF TypeOK, WellFormed, ReadInstructionBytes, Addr

LEMMA EntriesAreAddr ==
  ASSUME TypeOK, NEW f \in elf.entries
  PROVE  /\ f \in Addr
         /\ ReadInstructionBytes(f)
         /\ FuncVMA_E(f) \in Addr
         /\ f < FuncVMA_E(f)
         /\ f .. FuncVMA_E(f) - 1 \subseteq Addr
<1>1. f \in elf.memory /\ elf.memory \subseteq 0 .. MaxAddr - 1
  BY DEF TypeOK, WellFormed
<1>2. f \in 0 .. MaxAddr - 1
  BY <1>1
<1>3. elf.end[f] \in Addr /\ f < elf.end[f]
  BY DEF TypeOK, WellFormed
<1>4. f .. elf.end[f] - 1 \subseteq elf.memory
  BY DEF TypeOK, WellFormed
<1>5. elf.memory \subseteq Addr
  BY <1>1 DEF Addr
<1>6. QED
  BY <1>1, <1>2, <1>3, <1>4, <1>5 DEF Addr, FuncVMA_E, ReadInstructionBytes

(* Initially nothing is lifted. *)
LEMMA InitIInv == Init => IInv
<1> SUFFICES ASSUME Init PROVE IInv
  OBVIOUS
<1>1. TypeOK
  BY BinariesAssumption, EmptyTerm DEF Init, TypeOK
<1>2. DraftInv
  BY DEF Init, DraftInv
<1>3. \A f \in Addr : ~ Lifted(f)
  BY DEF Init, Lifted, NoDef
<1>4. MainInv
  BY <1>1, <1>3 DEF Init, MainInv
<1>5. DefsInv
  BY <1>3 DEF DefsInv, DefinitionsHaveNoHoles, BranchTableIsComplete,
              ParentsAreBranches, TracesDoNotOverrun
<1>6. QED
  BY <1>1, <1>2, <1>4, <1>5 DEF IInv
-----------------------------------------------------------------------------
(***************************************************************************)
(* Lifting one instruction: a had an empty block, or none, and Terminate   *)
(* gives it the terminator t.                                              *)
(***************************************************************************)
LEMMA TerminateStep ==
  ASSUME TypeOK, DraftInv, pc = "inst",
         NEW a \in Addr, term[a] = Empty,
         NEW t \in Term, t.kind # "empty",
         t.kind = "missing" => ~ ReadInstructionBytes(a),
         t.kind = "tail" <=> IsOtherTrace(a),
         t.kind = "indirect" => indirectbr',
         indirectbr => indirectbr', indirectbr' \in BOOLEAN,
         Terminate(a, t),
         UNCHANGED <<elf, pc, trace_addr, lift_all_insn>>
  PROVE  /\ blocks' \subseteq Addr
         /\ term' \in [Addr -> Term]
         /\ bb_parents' \in [Node -> SUBSET (Node \cup {EntryBlock})]
         /\ inst_work_list' \subseteq Addr
         /\ DraftInv'
<1>1. /\ blocks' = blocks \cup {a} \cup t.succ
      /\ term' = [term EXCEPT ![a] = t]
      /\ bb_parents' = [b \in Node |-> IF b \in Targets(t) THEN bb_parents[b] \cup {a}
                                                           ELSE bb_parents[b]]
      /\ inst_work_list' = (inst_work_list \ {a}) \cup t.succ
  BY DEF Terminate, SaveParents
<1>2. /\ blocks \subseteq Addr /\ inst_work_list \subseteq Addr
      /\ term \in [Addr -> Term]
      /\ bb_parents \in [Node -> SUBSET (Node \cup {EntryBlock})]
      /\ t.succ \subseteq Addr
  BY DEF TypeOK, Term
<1>3. /\ blocks' \subseteq Addr
      /\ term' \in [Addr -> Term]
      /\ bb_parents' \in [Node -> SUBSET (Node \cup {EntryBlock})]
      /\ inst_work_list' \subseteq Addr
  BY <1>1, <1>2 DEF Node
<1>4. t # Empty /\ Empty.succ = {} /\ Empty.kind = "empty" /\ Targets(Empty) = {}
  BY DEF Empty, End, Targets
<1>5. /\ trace_addr \in elf.entries /\ WorkListInv /\ OverrunInv
      /\ IndirectInv /\ ParentsInv
  BY DEF DraftInv
<1>6. \A b \in Addr : term'[b] = IF b = a THEN t ELSE term[b]
  BY <1>1, <1>2
<1>7. WorkListInv'
  <2>1. \A b \in blocks' : b \notin blocks => b = a \/ b \in t.succ
    BY <1>1
  <2>2. \A b \in blocks' : b # a /\ b \notin blocks => term'[b] = Empty /\ b \in inst_work_list'
    BY <1>1, <1>2, <1>3, <1>5, <1>6, <2>1 DEF WorkListInv
  <2>3. trace_addr' \in blocks'
    BY <1>1, <1>5 DEF WorkListInv
  <2>4. \A b \in Addr : term'[b] # Empty => b \in blocks'
    BY <1>1, <1>5, <1>6 DEF WorkListInv
  <2>5. ASSUME NEW b \in blocks'
        PROVE  /\ term'[b] = Empty => b \in inst_work_list'
               /\ term'[b].succ \subseteq blocks'
               /\ term'[b].kind = "empty" => term'[b] = Empty
               /\ term'[b].kind = "missing" => ~ ReadInstructionBytes(b)'
    <3>1. CASE b = a
      BY <3>1, <1>1, <1>3, <1>4, <1>6 DEF ReadInstructionBytes
    <3>2. CASE b # a /\ b \in blocks
      BY <3>2, <1>1, <1>3, <1>5, <1>6 DEF WorkListInv, ReadInstructionBytes
    <3>3. CASE b # a /\ b \notin blocks
      BY <3>3, <2>2, <1>4
    <3>4. QED
      BY <3>1, <3>2, <3>3
  <2>6. QED
    BY <2>3, <2>4, <2>5 DEF WorkListInv
<1>8. OverrunInv'
  <2>1. \A b \in Addr : IsOtherTrace(b)' <=> IsOtherTrace(b)
    BY DEF IsOtherTrace, IsFunctionEntry
  <2>2. \A b \in blocks' : term'[b] # Empty /\ b # a => b \in blocks
    BY <1>3, <1>5, <1>6 DEF WorkListInv
  <2>3. QED
    BY <1>3, <1>5, <1>6, <2>1, <2>2 DEF OverrunInv
<1>9. IndirectInv'
  <2>1. ASSUME NEW b \in blocks', term'[b].kind = "indirect"
        PROVE  indirectbr'
    <3>1. CASE b = a
      BY <3>1, <2>1, <1>3, <1>6
    <3>2. CASE b # a
      <4>1. term[b].kind = "indirect" /\ b \in Addr
        BY <3>2, <2>1, <1>3, <1>6
      <4>2. term[b] # Empty
        BY <4>1, <1>4
      <4>3. QED
        BY <4>1, <4>2, <1>5 DEF WorkListInv, IndirectInv
    <3>3. QED
      BY <3>1, <3>2
  <2>2. blocks \cup inst_work_list \subseteq blocks' \cup inst_work_list'
    BY <1>1
  <2>3. FuncVMA_E(trace_addr)' = FuncVMA_E(trace_addr)
    BY DEF FuncVMA_E
  <2>4. QED
    BY <2>1, <2>2, <2>3, <1>5 DEF IndirectInv
<1>10. ParentsInv'
  <2>1. SUFFICES ASSUME NEW b \in Node
                 PROVE  bb_parents'[b] =
                          {c \in blocks' : b \in Targets(term'[c])}
                            \cup (IF b = trace_addr THEN {EntryBlock} ELSE {})
    BY DEF ParentsInv, Targets
  <2>2. bb_parents[b] = {c \in blocks : b \in Targets(term[c])}
                          \cup (IF b = trace_addr THEN {EntryBlock} ELSE {})
    BY <1>5 DEF ParentsInv
  <2>3. \A c \in blocks' : c \notin blocks /\ c # a => Targets(term'[c]) = {}
    BY <1>3, <1>4, <1>5, <1>6 DEF WorkListInv
  <2>4. {c \in blocks' : b \in Targets(term'[c])}
          = {c \in blocks : b \in Targets(term[c])} \cup (IF b \in Targets(t) THEN {a} ELSE {})
    BY <1>1, <1>2, <1>3, <1>4, <1>6, <2>3
  <2>5. bb_parents'[b] = bb_parents[b] \cup (IF b \in Targets(t) THEN {a} ELSE {})
    BY <1>1
  <2>6. QED
    BY <2>2, <2>4, <2>5
<1>11. QED
  BY <1>3, <1>5, <1>7, <1>8, <1>9, <1>10 DEF DraftInv
-----------------------------------------------------------------------------
(* DefsInv only reads the binary and the definitions. *)
LEMMA DefsUnchanged ==
  ASSUME DefsInv, UNCHANGED <<elf, defs>>
  PROVE  DefsInv' /\ (\A f : Lifted(f)' <=> Lifted(f))
BY DEF DefsInv, DefinitionsHaveNoHoles, NoHoles, BranchTableIsComplete, ParentsAreBranches,
       BranchesTo, TracesDoNotOverrun, Lifted, FuncVMA_E, IsFunctionEntry, ReadInstructionBytes

(* MainInv across a step of the instruction loop that queues new traces. *)
LEMMA InsnMainInv ==
  ASSUME MainInv, pc = "inst", trace_work_list \subseteq trace_work_list',
         UNCHANGED <<elf, pc, disasm_left, lift_addr, defs, trace_addr>>
  PROVE  MainInv'
BY DEF MainInv, Lifted

(***************************************************************************)
(* The instruction loop.                                                   *)
(***************************************************************************)
LEMMA LiftInsnStep ==
  ASSUME IInv, LiftInsn
  PROVE  IInv'
<1>1. TypeOK /\ DraftInv /\ MainInv /\ DefsInv
  BY DEF IInv
<1>2. PICK a \in Addr :
        \/ SkipInsn(a) \/ TailCallTrace(a) \/ MissingBlock(a) \/ LiftPlain(a)
        \/ LiftDirectJump(a) \/ LiftIndirectJump(a) \/ LiftDirectCall(a)
  BY DEF LiftInsn
<1>3. pc = "inst" /\ trace_addr \in elf.entries
  BY <1>1, <1>2 DEF SkipInsn, TailCallTrace, MissingBlock, LiftPlain, LiftDirectJump,
        LiftIndirectJump, LiftDirectCall, Decoded, Popped, DraftInv
<1>4. elf.insn[a].taken \in Addr
  BY <1>1 DEF TypeOK, WellFormed, Insn
<1>5. CASE SkipInsn(a)
  <2>1. UNCHANGED <<elf, pc, declared, defs, trace_work_list, trace_addr, disasm_left, lift_addr,
                    blocks, term, bb_parents, indirectbr, lift_all_insn, b_jump_callees>>
        /\ term[a] # Empty /\ inst_work_list' = inst_work_list \ {a}
    BY <1>5 DEF SkipInsn, mainVars, funcVars
  <2>2. TypeOK'
    BY <1>1, <2>1 DEF TypeOK
  <2>3. DraftInv'
    <3>1. WorkListInv' /\ OverrunInv' /\ ParentsInv'
      BY <1>1, <1>3, <2>1 DEF DraftInv, WorkListInv, OverrunInv, ParentsInv, IsOtherTrace,
            IsFunctionEntry, ReadInstructionBytes
    <3>2. IndirectInv'
      BY <1>1, <1>3, <2>1 DEF DraftInv, IndirectInv, WorkListInv, FuncVMA_E
    <3>3. QED
      BY <3>1, <3>2, <1>3, <2>1 DEF DraftInv
  <2>4. MainInv' /\ DefsInv'
    BY <1>1, <1>3, <2>1, InsnMainInv, DefsUnchanged
  <2>5. QED
    BY <2>2, <2>3, <2>4 DEF IInv
<1>6. CASE TailCallTrace(a)
  <2> DEFINE t == End("tail", {a})
  <2>1. /\ Terminate(a, t) /\ term[a] = Empty /\ IsOtherTrace(a)
        /\ UNCHANGED <<elf, pc, disasm_left, lift_addr, defs, trace_work_list, trace_addr,
                       indirectbr, lift_all_insn, b_jump_callees>>
        /\ declared' = declared \cup {a}
    BY <1>6 DEF TailCallTrace, mainVars
  <2>2. t \in Term /\ t.kind = "tail"
    BY DEF Term, Kind, End
  <2>3. indirectbr \in BOOLEAN
    BY <1>1 DEF TypeOK
  <2> HIDE DEF t
  <2>4. /\ blocks' \subseteq Addr /\ term' \in [Addr -> Term]
        /\ bb_parents' \in [Node -> SUBSET (Node \cup {EntryBlock})]
        /\ inst_work_list' \subseteq Addr /\ DraftInv'
    BY <1>1, <1>3, <2>1, <2>2, <2>3, TerminateStep
  <2>5. TypeOK'
    BY <1>1, <2>1, <2>4 DEF TypeOK, IsOtherTrace, IsFunctionEntry
  <2>6. MainInv' /\ DefsInv'
    BY <1>1, <1>3, <2>1, InsnMainInv, DefsUnchanged
  <2>7. QED
    BY <2>4, <2>5, <2>6 DEF IInv
<1>7. CASE MissingBlock(a)
  <2> DEFINE t == End("missing", {})
  <2>1. /\ Terminate(a, t) /\ term[a] = Empty /\ ~ IsOtherTrace(a) /\ ~ ReadInstructionBytes(a)
        /\ UNCHANGED <<elf, pc, disasm_left, lift_addr, defs, trace_work_list, trace_addr,
                       indirectbr, lift_all_insn, b_jump_callees, declared>>
    BY <1>7 DEF MissingBlock, mainVars
  <2>2. t \in Term /\ t.kind = "missing"
    BY DEF Term, Kind, End
  <2>3. indirectbr \in BOOLEAN
    BY <1>1 DEF TypeOK
  <2> HIDE DEF t
  <2>4. /\ blocks' \subseteq Addr /\ term' \in [Addr -> Term]
        /\ bb_parents' \in [Node -> SUBSET (Node \cup {EntryBlock})]
        /\ inst_work_list' \subseteq Addr /\ DraftInv'
    BY <1>1, <1>3, <2>1, <2>2, <2>3, TerminateStep
  <2>5. TypeOK'
    BY <1>1, <2>1, <2>4 DEF TypeOK
  <2>6. MainInv' /\ DefsInv'
    BY <1>1, <1>3, <2>1, InsnMainInv, DefsUnchanged
  <2>7. QED
    BY <2>4, <2>5, <2>6 DEF IInv
<1>8. CASE LiftPlain(a)
  <2> DEFINE t == PlainTerm(a)
  <2>1. /\ Terminate(a, t) /\ term[a] = Empty /\ ~ IsOtherTrace(a) /\ ReadInstructionBytes(a)
        /\ UNCHANGED <<elf, pc, disasm_left, lift_addr, defs, trace_work_list, trace_addr,
                       indirectbr, lift_all_insn, b_jump_callees, declared>>
        /\ elf.insn[a].cat \in {"normal", "blr", "cond", "ret", "invalid", "svc"}
    BY <1>8 DEF LiftPlain, Decoded, mainVars
  <2>2. a + 1 \in Addr
    BY <1>1, <2>1, NextIsAddr
  <2>3. t \in Term /\ t.kind \in {"branch", "return", "error"}
    BY <2>1, <2>2, <1>4 DEF Term, Kind, End, Branch, PlainTerm
  <2>4. indirectbr \in BOOLEAN
    BY <1>1 DEF TypeOK
  <2> HIDE DEF t
  <2>5. /\ blocks' \subseteq Addr /\ term' \in [Addr -> Term]
        /\ bb_parents' \in [Node -> SUBSET (Node \cup {EntryBlock})]
        /\ inst_work_list' \subseteq Addr /\ DraftInv'
    BY <1>1, <1>3, <2>1, <2>3, <2>4, TerminateStep
  <2>6. TypeOK'
    BY <1>1, <2>1, <2>5 DEF TypeOK
  <2>7. MainInv' /\ DefsInv'
    BY <1>1, <1>3, <2>1, InsnMainInv, DefsUnchanged
  <2>8. QED
    BY <2>5, <2>6, <2>7 DEF IInv
<1>9. CASE LiftDirectJump(a)
  <2> DEFINE t == Branch({elf.insn[a].taken}, {})
  <2>1. /\ Terminate(a, t) /\ term[a] = Empty /\ ~ IsOtherTrace(a)
        /\ UNCHANGED <<elf, pc, disasm_left, lift_addr, defs, trace_work_list, trace_addr,
                       indirectbr, lift_all_insn>>
    BY <1>9 DEF LiftDirectJump, Decoded, mainVars
  <2>2. PICK left \in SUBSET elf.entries :
          /\ declared' = declared \cup left
          /\ b_jump_callees' = [b_jump_callees EXCEPT ![trace_addr] = @ \cup left]
    BY <1>9 DEF LiftDirectJump, TraceDecl, IsFunctionEntry
  <2>3. t \in Term /\ t.kind = "branch"
    BY <1>4 DEF Term, Kind, Branch
  <2>4. indirectbr \in BOOLEAN /\ trace_addr \in Addr
    BY <1>1, <1>3, EntriesAreAddr DEF TypeOK
  <2> HIDE DEF t
  <2>5. /\ blocks' \subseteq Addr /\ term' \in [Addr -> Term]
        /\ bb_parents' \in [Node -> SUBSET (Node \cup {EntryBlock})]
        /\ inst_work_list' \subseteq Addr /\ DraftInv'
    BY <1>1, <1>3, <2>1, <2>3, <2>4, TerminateStep
  <2>6. b_jump_callees' \in [Addr -> SUBSET elf.entries] /\ declared' \subseteq elf.entries
    BY <1>1, <2>2, <2>4 DEF TypeOK
  <2>7. TypeOK'
    BY <1>1, <2>1, <2>5, <2>6 DEF TypeOK
  <2>8. MainInv' /\ DefsInv'
    BY <1>1, <1>3, <2>1, InsnMainInv, DefsUnchanged
  <2>9. QED
    BY <2>5, <2>7, <2>8 DEF IInv
<1>10. CASE LiftIndirectJump(a)
  <2> DEFINE t == End("indirect", {})
  <2>1. /\ Terminate(a, t) /\ term[a] = Empty /\ ~ IsOtherTrace(a)
        /\ UNCHANGED <<elf, pc, disasm_left, lift_addr, defs, trace_work_list, trace_addr,
                       lift_all_insn, b_jump_callees, declared>>
        /\ indirectbr' = TRUE
    BY <1>10 DEF LiftIndirectJump, Decoded, mainVars
  <2>2. t \in Term /\ t.kind = "indirect"
    BY DEF Term, Kind, End
  <2> HIDE DEF t
  <2>3. /\ blocks' \subseteq Addr /\ term' \in [Addr -> Term]
        /\ bb_parents' \in [Node -> SUBSET (Node \cup {EntryBlock})]
        /\ inst_work_list' \subseteq Addr /\ DraftInv'
    BY <1>1, <1>3, <2>1, <2>2, TerminateStep
  <2>4. TypeOK'
    BY <1>1, <2>1, <2>3 DEF TypeOK
  <2>5. MainInv' /\ DefsInv'
    BY <1>1, <1>3, <2>1, InsnMainInv, DefsUnchanged
  <2>6. QED
    BY <2>3, <2>4, <2>5 DEF IInv
<1>11. CASE LiftDirectCall(a)
  <2>1. PICK decl \in SUBSET elf.entries :
          /\ declared' = declared \cup decl
          /\ trace_work_list' = trace_work_list \cup (decl \ {a + 1})
          /\ Terminate(a, Branch({a + 1}, decl \ {a + 1}))
          /\ decl \subseteq {elf.insn[a].taken}
    BY <1>11 DEF LiftDirectCall, TraceDecl, IsFunctionEntry
  <2> DEFINE t == Branch({a + 1}, decl \ {a + 1})
  <2>2. /\ term[a] = Empty /\ ~ IsOtherTrace(a) /\ ReadInstructionBytes(a)
        /\ UNCHANGED <<elf, pc, disasm_left, lift_addr, defs, trace_addr, indirectbr,
                       lift_all_insn, b_jump_callees>>
    BY <1>11 DEF LiftDirectCall, Decoded, mainVars
  <2>3. a + 1 \in Addr
    BY <1>1, <2>2, NextIsAddr
  <2>4. t \in Term /\ t.kind = "branch"
    BY <1>4, <2>1, <2>3 DEF Term, Kind, Branch
  <2>5. indirectbr \in BOOLEAN /\ Terminate(a, t)
    BY <1>1, <2>1 DEF TypeOK
  <2> HIDE DEF t
  <2>6. /\ blocks' \subseteq Addr /\ term' \in [Addr -> Term]
        /\ bb_parents' \in [Node -> SUBSET (Node \cup {EntryBlock})]
        /\ inst_work_list' \subseteq Addr /\ DraftInv'
    BY <1>1, <1>3, <2>2, <2>4, <2>5, TerminateStep
  <2>7. TypeOK'
    BY <1>1, <2>1, <2>2, <2>6 DEF TypeOK
  <2>8. MainInv' /\ DefsInv'
    BY <1>1, <1>3, <2>1, <2>2, InsnMainInv, DefsUnchanged
  <2>9. QED
    BY <2>6, <2>7, <2>8 DEF IInv
<1>12. QED
  BY <1>2, <1>5, <1>6, <1>7, <1>8, <1>9, <1>10, <1>11
-----------------------------------------------------------------------------
(***************************************************************************)
(* The trace loop: a function starts with one empty block, on the work     *)
(* list.                                                                   *)
(***************************************************************************)
LEMMA StartTraceStep ==
  ASSUME IInv, StartTrace
  PROVE  IInv'
<1>1. TypeOK /\ MainInv /\ DefsInv
  BY DEF IInv
<1>2. PICK f \in elf.entries :
        /\ ~ Lifted(f)
        /\ trace_work_list' = trace_work_list \ {f}
        /\ trace_addr' = f
        /\ declared' = declared \cup {f}
        /\ blocks' = {f}
        /\ term' = [a \in Addr |-> Empty]
        /\ bb_parents' = [b \in Node |-> IF b = f THEN {EntryBlock} ELSE {}]
        /\ inst_work_list' = {f}
  BY DEF StartTrace, IsFunctionEntry
<1>3. /\ pc = "trace" /\ pc' = "inst" /\ indirectbr' = FALSE /\ lift_all_insn' = FALSE
      /\ UNCHANGED <<elf, disasm_left, lift_addr, defs, b_jump_callees>>
  BY DEF StartTrace, mainVars
<1>4. f \in Addr
  BY <1>1, EntriesAreAddr
<1>5. TypeOK'
  BY <1>1, <1>2, <1>3, <1>4, EmptyTerm DEF TypeOK, Node
<1>6. DraftInv'
  <2>1. Empty.succ = {} /\ Empty.kind = "empty" /\ Targets(Empty) = {}
    BY DEF Empty, End, Targets
  <2>2. WorkListInv' /\ OverrunInv' /\ ParentsInv' /\ IndirectInv'
    BY <1>2, <1>3, <1>4, <2>1 DEF WorkListInv, OverrunInv, ParentsInv, IndirectInv
  <2>3. QED
    BY <1>2, <1>3, <2>2 DEF DraftInv
<1>7. MainInv'
  BY <1>1, <1>2, <1>3 DEF MainInv, Lifted
<1>8. DefsInv'
  BY <1>1, <1>3, DefsUnchanged
<1>9. QED
  BY <1>5, <1>6, <1>7, <1>8 DEF IInv

(* The second pass only queues instructions. *)
LEMMA LiftAllInsnsStep ==
  ASSUME IInv, LiftAllInsns
  PROVE  IInv'
<1>1. TypeOK /\ DraftInv /\ MainInv /\ DefsInv
  BY DEF IInv
<1>2. /\ pc = "inst" /\ inst_work_list = {} /\ lift_all_insn' = TRUE
      /\ inst_work_list' = (trace_addr .. FuncVMA_E(trace_addr) - 1) \ blocks
      /\ UNCHANGED <<elf, pc, declared, defs, trace_work_list, trace_addr, disasm_left,
                     lift_addr, blocks, term, bb_parents, indirectbr, b_jump_callees>>
  BY DEF LiftAllInsns, UnliftedInsns, mainVars
<1>3. trace_addr \in elf.entries
  BY <1>1, <1>2 DEF DraftInv
<1>4. inst_work_list' \subseteq Addr
  BY <1>1, <1>2, <1>3, EntriesAreAddr
<1>5. TypeOK'
  BY <1>1, <1>2, <1>4 DEF TypeOK
<1>6. DraftInv'
  <2>1. WorkListInv' /\ OverrunInv' /\ ParentsInv'
    BY <1>1, <1>2 DEF DraftInv, WorkListInv, OverrunInv, ParentsInv, IsOtherTrace,
          IsFunctionEntry, ReadInstructionBytes
  <2>2. IndirectInv'
    BY <1>1, <1>2 DEF DraftInv, IndirectInv, FuncVMA_E
  <2>3. QED
    BY <1>2, <1>3, <2>1, <2>2 DEF DraftInv
<1>7. MainInv' /\ DefsInv'
  BY <1>1, <1>2, InsnMainInv, DefsUnchanged
<1>8. QED
  BY <1>5, <1>6, <1>7 DEF IInv

(***************************************************************************)
(* A function is finished when its work list is empty, so by WorkListInv   *)
(* no block is empty: the sweep changes nothing, and the draft is a        *)
(* definition with all that DefsInv asks for.                              *)
(***************************************************************************)
LEMMA FinishTraceStep ==
  ASSUME IInv, FinishTrace
  PROVE  IInv' /\ term' = term
<1>1. TypeOK /\ DraftInv /\ MainInv /\ DefsInv
  BY DEF IInv
<1>2. /\ pc = "inst" /\ pc' = "trace" /\ inst_work_list = {}
      /\ indirectbr => lift_all_insn
      /\ defs' = [defs EXCEPT ![trace_addr] =
                    [blocks |-> blocks, term |-> term', parents |-> bb_parents',
                     indirect |-> indirectbr]]
      /\ UNCHANGED <<elf, disasm_left, lift_addr, declared, trace_work_list,
                     inst_work_list, trace_addr, blocks, indirectbr,
                     lift_all_insn, b_jump_callees>>
  BY DEF FinishTrace, SetLiftedTraceDefinition, mainVars
<1>3. /\ trace_addr \in elf.entries /\ WorkListInv /\ OverrunInv
      /\ IndirectInv /\ ParentsInv
  BY <1>1, <1>2 DEF DraftInv
<1>4. term' = term
  <2>1. \A a \in blocks : term[a] # Empty
    BY <1>2, <1>3 DEF WorkListInv
  <2>2. term' = [a \in Addr |-> term[a]]
    BY <2>1 DEF FinishTrace
  <2>3. QED
    BY <2>2, <1>1 DEF TypeOK
<1>16. bb_parents' \in [Node -> SUBSET (Node \cup {EntryBlock})]
  BY <1>1 DEF FinishTrace, SaveIndirectParents, TypeOK, Node
<1>5. trace_addr \in Addr /\ defs \in [Addr -> Def] /\ Draft \in Def
  BY <1>1, <1>3, <1>16, EntriesAreAddr DEF TypeOK, Def, Draft
<1>6. /\ defs' = [defs EXCEPT ![trace_addr] = Draft]
      /\ defs' \in [Addr -> Def]
  BY <1>2, <1>4, <1>5 DEF Draft
<1>7. /\ Draft.blocks = blocks /\ Draft.term = term /\ Draft.parents = bb_parents'
      /\ Draft.indirect = indirectbr
  BY DEF Draft
<1>8. TypeOK'
  BY <1>1, <1>2, <1>4, <1>6, <1>16 DEF TypeOK
<1>9. \A f \in Addr : f # trace_addr => defs'[f] = defs[f]
  BY <1>5, <1>6
<1>10. defs'[trace_addr] = Draft /\ Draft.blocks # {}
  BY <1>3, <1>5, <1>6, <1>7 DEF WorkListInv
<1>11. \A f \in Addr : Lifted(f)' <=> (Lifted(f) \/ f = trace_addr)
  BY <1>9, <1>10 DEF Lifted
<1>12. MainInv'
  <2>1. \A f \in elf.entries : Lifted(f)' <=> (Lifted(f) \/ f = trace_addr)
    BY <1>1, <1>11, EntriesAreAddr
  <2>2. lift_addr \in elf.entries
    BY <1>1, <1>2 DEF MainInv
  <2>3. QED
    BY <1>1, <1>2, <2>1, <2>2 DEF MainInv
<1>13. DefsInv'
  <2>1. ASSUME NEW f \in Addr, f # trace_addr
        PROVE  defs'[f] = defs[f] /\ (Lifted(f)' <=> Lifted(f))
    BY <2>1, <1>9, <1>11
  <2>2. /\ \A a : ReadInstructionBytes(a)' <=> ReadInstructionBytes(a)
        /\ \A a : IsFunctionEntry(a)' <=> IsFunctionEntry(a)
        /\ \A f : FuncVMA_E(f)' = FuncVMA_E(f)
    BY <1>2 DEF ReadInstructionBytes, IsFunctionEntry, FuncVMA_E
  <2>3. DefinitionsHaveNoHoles'
    <3>1. NoHoles(trace_addr, Draft)
      BY <1>2, <1>3, <1>7 DEF NoHoles, WorkListInv
    <3>2. \A f \in Addr : Lifted(f)' => NoHoles(f, defs'[f])
      BY <1>1, <1>10, <2>1, <3>1 DEF DefsInv, DefinitionsHaveNoHoles
    <3>3. QED
      BY <3>2, <2>2 DEF DefinitionsHaveNoHoles, NoHoles
  <2>4. BranchTableIsComplete'
    <3>1. indirectbr => trace_addr .. FuncVMA_E(trace_addr) - 1 \subseteq blocks
      BY <1>2, <1>3 DEF IndirectInv
    <3>2. (\E a \in blocks : term[a].kind = "indirect") => indirectbr
      BY <1>3 DEF IndirectInv
    <3>3. QED
      BY <1>1, <1>7, <1>10, <2>1, <2>2, <3>1, <3>2 DEF DefsInv, BranchTableIsComplete
  <2>5. ParentsAreBranches'
    <3> DEFINE T == {a \in blocks : term[a].kind = "indirect"}
               R(b) == {a \in blocks : b \in Targets(term[a])}
                         \cup (IF b = trace_addr THEN {EntryBlock} ELSE {})
               X(b) == IF indirectbr /\ b \in blocks \cup {BrToFunc} THEN {IndirectBr} ELSE {}
    <3>1. \A f \in Addr, b \in Node : f = trace_addr => BranchesTo(f, b)' = R(b) \cup X(b)
      BY <1>7, <1>10 DEF BranchesTo
    <3>2. \A b \in Node : bb_parents[b] = R(b)
      BY <1>3 DEF ParentsInv
    <3>3. R(BrToFunc) = {}
      <4>1. \A a \in blocks : term[a].succ \subseteq Addr
        BY <1>1 DEF TypeOK, Term
      <4>2. BrToFunc \notin Addr /\ BrToFunc # IndirectBr
        BY MarkersAssumption
      <4>3. QED
        BY <4>1, <4>2, <1>5 DEF Targets
    <3>4. ASSUME NEW b \in Node
          PROVE  /\ bb_parents'[b] \subseteq R(b) \cup X(b)
                 /\ (R(b) \cup X(b)) \ bb_parents'[b] \subseteq {IndirectBr}
                 /\ b = BrToFunc => bb_parents'[b] = R(b) \cup X(b)
      <4>1. CASE ~ indirectbr
        <5>1. bb_parents'[b] = R(b) /\ X(b) = {}
          BY <4>1, <3>2 DEF FinishTrace, SaveIndirectParents
        <5> HIDE DEF R, X
        <5>2. QED
          BY <5>1
      <4>2. CASE indirectbr /\ b = BrToFunc
        <5>1. bb_parents'[b] = {IndirectBr} /\ X(b) = {IndirectBr} /\ R(b) = {}
          BY <4>2, <3>3 DEF FinishTrace, SaveIndirectParents
        <5> HIDE DEF R, X
        <5>2. QED
          BY <5>1
      <4>3. CASE indirectbr /\ b # BrToFunc
        <5>1. bb_parents'[b] = R(b) \cup (IF b \in T THEN {IndirectBr} ELSE {})
          BY <4>3, <3>2 DEF FinishTrace, SaveIndirectParents
        <5>2. X(b) = IF b \in blocks THEN {IndirectBr} ELSE {}
          BY <4>3
        <5>3. T \subseteq blocks
          OBVIOUS
        <5> HIDE DEF R, X, T
        <5>4. QED
          BY <4>3, <5>1, <5>2, <5>3
      <4>4. QED
        BY <4>1, <4>2, <4>3
    <3> HIDE DEF R, X, T
    <3>5. \A f \in Addr : f # trace_addr => \A b : BranchesTo(f, b)' = BranchesTo(f, b)
      BY <2>1 DEF BranchesTo
    <3>6. ASSUME NEW f \in Addr, Lifted(f)', NEW b \in Node
          PROVE  /\ defs'[f].parents[b] \subseteq BranchesTo(f, b)'
                 /\ BranchesTo(f, b)' \ defs'[f].parents[b] \subseteq {IndirectBr}
                 /\ b = BrToFunc => defs'[f].parents[b] = BranchesTo(f, b)'
      <4>1. CASE f = trace_addr
        <5>1. BranchesTo(f, b)' = R(b) \cup X(b) /\ defs'[f].parents = bb_parents'
          BY <4>1, <1>7, <1>10, <3>1
        <5>2. QED
          BY <5>1, <3>4
      <4>2. CASE f # trace_addr
        BY <4>2, <3>6, <1>1, <2>1, <3>5 DEF DefsInv, ParentsAreBranches
      <4>3. QED
        BY <4>1, <4>2
    <3>7. QED
      BY <3>6 DEF ParentsAreBranches
  <2>6. TracesDoNotOverrun'
    <3>1. \A a \in blocks :
            (a # trace_addr /\ IsFunctionEntry(a)) <=> term[a].kind = "tail"
      BY <1>2, <1>3 DEF OverrunInv, WorkListInv, IsOtherTrace
    <3>2. QED
      BY <1>1, <1>7, <1>10, <2>1, <2>2, <3>1 DEF DefsInv, TracesDoNotOverrun
  <2>7. QED
    BY <2>3, <2>4, <2>5, <2>6 DEF DefsInv
<1>14. DraftInv'
  BY <1>2 DEF DraftInv
<1>15. QED
  BY <1>4, <1>8, <1>12, <1>13, <1>14 DEF IInv

(* The steps that touch neither the draft nor a definition. *)
LEMMA MainStep ==
  ASSUME IInv,
         \/ SkipTrace \/ LiftReturn \/ Finish
         \/ \E f \in Addr : LiftCall(f)
         \/ UNCHANGED vars
  PROVE  IInv'
<1>1. TypeOK /\ DraftInv /\ MainInv /\ DefsInv
  BY DEF IInv
<1>2. CASE SkipTrace
  BY <1>1, <1>2, DefsUnchanged
     DEF SkipTrace, mainVars, funcVars, IInv, TypeOK, DraftInv, MainInv, Lifted
<1>3. CASE LiftReturn
  BY <1>1, <1>3, DefsUnchanged
     DEF LiftReturn, mainVars, funcVars, IInv, TypeOK, DraftInv, MainInv, Lifted
<1>4. CASE Finish
  BY <1>1, <1>4, DefsUnchanged
     DEF Finish, mainVars, funcVars, IInv, TypeOK, DraftInv, MainInv, Lifted
<1>5. ASSUME NEW f \in Addr, LiftCall(f)
      PROVE  IInv'
  <2>1. f \in elf.entries /\ defs' = defs /\ elf' = elf
    BY <1>1, <1>5 DEF LiftCall, TypeOK
  <2>2. TypeOK' /\ DraftInv'
    BY <1>1, <1>5, <2>1 DEF LiftCall, TypeOK, DraftInv
  <2>3. MainInv'
    BY <1>1, <1>5, <2>1 DEF LiftCall, MainInv, Lifted
  <2>4. QED
    BY <1>1, <2>1, <2>2, <2>3, DefsUnchanged DEF IInv
<1>6. CASE UNCHANGED vars
  <2>1. TypeOK' /\ MainInv' /\ DefsInv'
    BY <1>1, <1>6, DefsUnchanged DEF vars, TypeOK, MainInv, Lifted
  <2>2. DraftInv'
    BY <1>1, <1>6 DEF vars, DraftInv, WorkListInv, OverrunInv, IndirectInv, ParentsInv,
          IsOtherTrace, IsFunctionEntry, ReadInstructionBytes, FuncVMA_E
  <2>3. QED
    BY <2>1, <2>2 DEF IInv
<1>7. QED
  BY <1>2, <1>3, <1>4, <1>5, <1>6

LEMMA NextIInv == IInv /\ [Next]_vars => IInv'
<1> SUFFICES ASSUME IInv, [Next]_vars PROVE IInv'
  OBVIOUS
<1>1. CASE LiftInsn
  BY <1>1, LiftInsnStep
<1>2. CASE StartTrace
  BY <1>2, StartTraceStep
<1>3. CASE LiftAllInsns
  BY <1>3, LiftAllInsnsStep
<1>4. CASE FinishTrace
  BY <1>4, FinishTraceStep
<1>5. CASE SkipTrace \/ LiftReturn \/ Finish \/ (\E f \in Addr : LiftCall(f))
           \/ UNCHANGED vars
  BY <1>5, MainStep
<1>6. QED
  BY <1>1, <1>2, <1>3, <1>4, <1>5 DEF Next, Lift, Done
-----------------------------------------------------------------------------
(* The inductive invariant holds in every reachable state. *)
THEOREM Invariance == Spec => []IInv
BY InitIInv, NextIInv, PTL DEF Spec

(* Every variable of the lifter keeps its type, for every binary. *)
THEOREM TypeCorrect == Spec => []TypeOK
<1>1. IInv => TypeOK
  BY DEF IInv
<1>2. QED
  BY <1>1, Invariance, PTL

(***************************************************************************)
(* Whatever the binary, a finished function has every block it branches    *)
(* to, and none of them is empty.                                          *)
(***************************************************************************)
THEOREM NoHolesTheorem == Spec => []DefinitionsHaveNoHoles
<1>1. IInv => DefinitionsHaveNoHoles
  BY DEF IInv, DefsInv
<1>2. QED
  BY <1>1, Invariance, PTL

(* The block address table of a function with a BR misses no instruction. *)
THEOREM BranchTableTheorem == Spec => []BranchTableIsComplete
<1>1. IInv => BranchTableIsComplete
  BY DEF IInv, DefsInv
<1>2. QED
  BY <1>1, Invariance, PTL

(***************************************************************************)
(* The parents recorded of a function without a BR, which is what the      *)
(* register analysis reads, are exactly the branches; with a BR only       *)
(* branches out of indirectbr_block are missing.                           *)
(***************************************************************************)
THEOREM ParentsTheorem == Spec => []ParentsAreBranches
<1>1. IInv => ParentsAreBranches
  BY DEF IInv, DefsInv
<1>2. QED
  BY <1>1, Invariance, PTL

(* Tail calls are exactly the entries of other functions. *)
THEOREM NoOverrunTheorem == Spec => []TracesDoNotOverrun
<1>1. IInv => TracesDoNotOverrun
  BY DEF IInv, DefsInv
<1>2. QED
  BY <1>1, Invariance, PTL

(* Everything lifted code refers to is defined when the lifter is done. *)
THEOREM DeclaredTheorem == Spec => []DeclaredAreDefined
<1>1. IInv => DeclaredAreDefined
  BY DEF IInv, TypeOK, MainInv, DeclaredAreDefined
<1>2. QED
  BY <1>1, Invariance, PTL

(* Lift never returns to main() without the definition main() renames. *)
THEOREM LiftDefinesTheorem == Spec => []LiftDefinesItsFunction
<1>1. IInv => LiftDefinesItsFunction
  BY DEF IInv, MainInv, LiftDefinesItsFunction
<1>2. QED
  BY <1>1, Invariance, PTL

(* No step replaces a definition. *)
THEOREM NeverReliftedTheorem == Spec => NeverRelifted
<1>1. IInv /\ [Next]_vars => [\A f \in Addr : Lifted(f) => defs'[f] = defs[f]]_vars
  <2> SUFFICES ASSUME IInv, Next, NEW f \in Addr, Lifted(f)
               PROVE  defs'[f] = defs[f]
    OBVIOUS
  <2>1. CASE FinishTrace
    <3>1. ~ Lifted(trace_addr)
      BY <2>1 DEF IInv, MainInv, FinishTrace
    <3>2. QED
      BY <2>1, <3>1 DEF FinishTrace, SetLiftedTraceDefinition, IInv, TypeOK
  <2>2. CASE UNCHANGED defs
    BY <2>2
  <2>3. QED
    BY <2>1, <2>2 DEF Next, Lift, LiftCall, SkipTrace, StartTrace, LiftInsn, LiftAllInsns,
          LiftReturn, Finish, Done, SkipInsn, TailCallTrace, MissingBlock, LiftPlain,
          LiftDirectJump, LiftIndirectJump, LiftDirectCall, vars
<1>2. QED
  BY <1>1, Invariance, PTL DEF Spec, NeverRelifted
-----------------------------------------------------------------------------
(***************************************************************************)
(* The lifting loop implements LifterSpec, for every binary.  Every block  *)
(* is given the terminator its instruction asks for, so the finished       *)
(* blocks are closed under the flow of control; and nothing enters the     *)
(* work list that control cannot reach, so they are the least closed set.  *)
(***************************************************************************)
(* How the block of a in function f ends, if the instruction is honoured.  *)
Honoured(f, a, t) ==
  IF a # f /\ a \in elf.entries THEN t = End("tail", {a})
  ELSE IF a \notin elf.memory THEN t = End("missing", {})
  ELSE LET i == elf.insn[a]
       IN  /\ i.cat = "normal" => t = Branch({a + 1}, {})
           /\ i.cat = "blr" => t = Branch({a + 1}, {})
           /\ i.cat = "cond" => t = Branch({i.taken, a + 1}, {})
           /\ i.cat = "jump" => t = Branch({i.taken}, {})
           /\ i.cat = "ret" => t = End("return", {})
           /\ i.cat = "invalid" => t = End("error", {})
           /\ i.cat = "br" => t = End("indirect", {})
           /\ i.cat = "svc" => IF a + 1 \in elf.entries THEN t = End("return", {})
                                                       ELSE t = Branch({a + 1}, {})
           /\ i.cat = "bl" =>
                t = Branch({a + 1}, {g \in elf.entries : g = i.taken /\ g # a + 1})

DraftHonours ==
  pc = "inst" => \A a \in Addr : term[a] # Empty => Honoured(trace_addr, a, term[a])

DefsHonour ==
  \A f \in Addr : Lifted(f) => \A a \in defs[f].blocks : Honoured(f, a, defs[f].term[a])

HInv == DraftHonours /\ DefsHonour
-----------------------------------------------------------------------------
LEMMA HonouredUnchanged ==
  ASSUME elf' = elf
  PROVE  \A f, a, t : Honoured(f, a, t)' <=> Honoured(f, a, t)
BY DEF Honoured

LEMMA InsnHonours ==
  ASSUME IInv, NEW a \in Addr,
         \/ TailCallTrace(a) \/ MissingBlock(a) \/ LiftPlain(a)
         \/ LiftDirectJump(a) \/ LiftIndirectJump(a) \/ LiftDirectCall(a)
  PROVE  \E t : /\ Honoured(trace_addr, a, t)
                /\ pc = "inst" /\ a \in inst_work_list
                /\ term' = [term EXCEPT ![a] = t]
                /\ blocks' = blocks \cup {a} \cup t.succ
                /\ inst_work_list' = (inst_work_list \ {a}) \cup t.succ
                /\ indirectbr' => indirectbr \/ t.kind = "indirect"
                /\ indirectbr => indirectbr'
                /\ UNCHANGED <<elf, pc, trace_addr, defs, lift_all_insn>>
<1>1. elf.insn[a].cat \in Category
  BY DEF IInv, TypeOK, WellFormed, Insn
<1>2. CASE TailCallTrace(a)
  BY <1>2 DEF TailCallTrace, Popped, Terminate, IsOtherTrace, IsFunctionEntry, mainVars, Honoured
<1>3. CASE MissingBlock(a)
  BY <1>3 DEF MissingBlock, Popped, Terminate, IsOtherTrace, IsFunctionEntry, mainVars, Honoured,
              ReadInstructionBytes
<1>4. CASE LiftPlain(a)
  <2>1. Honoured(trace_addr, a, PlainTerm(a))
    BY <1>4 DEF LiftPlain, PlainTerm, Decoded, IsOtherTrace, IsFunctionEntry, Honoured,
                ReadInstructionBytes
  <2>2. QED
    BY <1>4, <2>1 DEF LiftPlain, Decoded, Popped, Terminate, mainVars
<1>5. CASE LiftDirectJump(a)
  BY <1>5 DEF LiftDirectJump, Decoded, Popped, Terminate, IsOtherTrace, IsFunctionEntry, mainVars,
              Honoured, ReadInstructionBytes
<1>6. CASE LiftIndirectJump(a)
  BY <1>6 DEF LiftIndirectJump, Decoded, Popped, Terminate, IsOtherTrace, IsFunctionEntry,
              mainVars, Honoured, ReadInstructionBytes, End
<1>7. CASE LiftDirectCall(a)
  <2> DEFINE t == Branch({a + 1}, TraceDecl(elf.insn[a].taken) \ {a + 1})
  <2>1. TraceDecl(elf.insn[a].taken) \ {a + 1}
          = {g \in elf.entries : g = elf.insn[a].taken /\ g # a + 1}
    BY DEF TraceDecl, IsFunctionEntry
  <2>2. Honoured(trace_addr, a, t)
    BY <1>7, <2>1 DEF LiftDirectCall, Decoded, IsOtherTrace, IsFunctionEntry, Honoured,
                ReadInstructionBytes
  <2>3. Terminate(a, t)
    BY <1>7 DEF LiftDirectCall
  <2> HIDE DEF t
  <2>4. QED
    BY <1>7, <2>2, <2>3 DEF LiftDirectCall, Decoded, Popped, Terminate, mainVars
<1>8. QED
  BY <1>2, <1>3, <1>4, <1>5, <1>6, <1>7

LEMMA InitHInv == Init => HInv
BY DEF Init, HInv, DraftHonours, DefsHonour, Lifted, NoDef

LEMMA NextHInv == IInv /\ HInv /\ [Next]_vars => HInv'
<1> SUFFICES ASSUME IInv, HInv, [Next]_vars PROVE HInv'
  OBVIOUS
<1>1. term \in [Addr -> Term] /\ defs \in [Addr -> Def]
  BY DEF IInv, TypeOK
<1>2. ASSUME NEW a \in Addr,
             \/ TailCallTrace(a) \/ MissingBlock(a) \/ LiftPlain(a)
             \/ LiftDirectJump(a) \/ LiftIndirectJump(a) \/ LiftDirectCall(a)
      PROVE  HInv'
  <2>1. PICK t : /\ Honoured(trace_addr, a, t)
                 /\ term' = [term EXCEPT ![a] = t]
                 /\ UNCHANGED <<elf, pc, trace_addr, defs>>
    BY <1>2, InsnHonours
  <2>2. \A b \in Addr : term'[b] = IF b = a THEN t ELSE term[b]
    BY <2>1, <1>1
  <2>3. DraftHonours'
    BY <2>1, <2>2, HonouredUnchanged DEF HInv, DraftHonours
  <2>4. DefsHonour'
    BY <2>1, HonouredUnchanged DEF HInv, DefsHonour, Lifted
  <2>5. QED
    BY <2>3, <2>4 DEF HInv
<1>3. CASE FinishTrace
  <2>1. term' = term /\ elf' = elf /\ pc' = "trace" /\ pc = "inst" /\ blocks' = blocks
    BY <1>3, FinishTraceStep DEF FinishTrace, mainVars
  <2>2. trace_addr \in Addr
    BY <2>1, EntriesAreAddr DEF IInv, DraftInv
  <2>3. \A f \in Addr : defs'[f] = IF f = trace_addr
                                   THEN [blocks |-> blocks, term |-> term, parents |-> bb_parents',
                                         indirect |-> indirectbr]
                                   ELSE defs[f]
    BY <1>3, <1>1, <2>1, <2>2 DEF FinishTrace, SetLiftedTraceDefinition
  <2>4. \A a \in blocks : a \in Addr /\ term[a] # Empty
    BY <1>3, <2>1 DEF FinishTrace, IInv, DraftInv, WorkListInv, TypeOK
  <2>5. DefsHonour'
    BY <2>1, <2>3, <2>4, HonouredUnchanged DEF HInv, DraftHonours, DefsHonour, Lifted
  <2>6. QED
    BY <2>1, <2>5 DEF HInv, DraftHonours
<1>4. CASE StartTrace
  BY <1>4, HonouredUnchanged DEF StartTrace, mainVars, HInv, DraftHonours, DefsHonour, Lifted
<1>5. CASE UNCHANGED <<elf, defs, term, trace_addr>> /\ (pc' = "inst" => pc = "inst")
  BY <1>5, HonouredUnchanged DEF HInv, DraftHonours, DefsHonour, Lifted
<1>6. QED
  <2>1. CASE LiftInsn
    BY <2>1, <1>2, <1>5 DEF LiftInsn, SkipInsn, mainVars, funcVars
  <2>2. CASE ~ LiftInsn
    BY <2>2, <1>3, <1>4, <1>5 DEF Next, Lift, LiftCall, SkipTrace, LiftAllInsns, LiftReturn,
              Finish, Done, vars, mainVars, funcVars
  <2>3. QED
    BY <2>1, <2>2

(***************************************************************************)
(* Every block of a finished function ends as its instruction says.        *)
(***************************************************************************)
THEOREM TranslationTheorem == Spec => []DefsHonour
<1>1. HInv => DefsHonour
  BY DEF HInv
<1>2. QED
  BY <1>1, InitHInv, NextHInv, Invariance, PTL DEF Spec
-----------------------------------------------------------------------------
(***************************************************************************)
(* Reachability.  Reach(f, S) is closed, contains S, and is contained in   *)
(* every closed set that contains S.                                       *)
(***************************************************************************)
LEMMA AddrIsAddr == Promise!Addr = Addr
BY DEF Promise!Addr, Addr

LEMMA ReachContains ==
  ASSUME NEW f, NEW S, S \subseteq Addr
  PROVE  S \subseteq Promise!Reach(f, S) /\ Promise!Reach(f, S) \subseteq Addr
BY AddrIsAddr DEF Promise!Reach

LEMMA ReachIsLeast ==
  ASSUME NEW f, NEW S, NEW C \in SUBSET Addr, S \subseteq C,
         \A a \in C : Promise!Flow(f, a) \subseteq C
  PROVE  Promise!Reach(f, S) \subseteq C
BY AddrIsAddr DEF Promise!Reach, Promise!Closed

LEMMA ReachIsClosed ==
  ASSUME NEW f, NEW S, NEW a \in Promise!Reach(f, S), Promise!Flow(f, a) \subseteq Addr
  PROVE  Promise!Flow(f, a) \subseteq Promise!Reach(f, S)
BY AddrIsAddr DEF Promise!Reach, Promise!Closed

LEMMA ReachGrows ==
  ASSUME NEW f, NEW S, NEW T, S \subseteq T
  PROVE  Promise!Reach(f, S) \subseteq Promise!Reach(f, T)
BY DEF Promise!Reach

(* A terminator branches to where control flows. *)
LEMMA SuccIsFlow ==
  ASSUME NEW f, NEW a \in Addr, NEW t, Honoured(f, a, t), elf.insn[a].cat \in Category
  PROVE  /\ t.succ = Promise!Flow(f, a)
         /\ t.kind = "indirect" <=> /\ a \in elf.memory /\ ~ (a # f /\ a \in elf.entries)
                                    /\ elf.insn[a].cat = "br"
<1>1. CASE a # f /\ a \in elf.entries
  BY <1>1 DEF Honoured, End, Promise!Flow
<1>2. CASE ~ (a # f /\ a \in elf.entries) /\ a \notin elf.memory
  BY <1>2 DEF Honoured, End, Promise!Flow
<1>3. CASE ~ (a # f /\ a \in elf.entries) /\ a \in elf.memory
  <2>1. CASE elf.insn[a].cat = "svc"
    <3>1. Promise!Flow(f, a) = {a + 1} \ elf.entries
      BY <1>3, <2>1 DEF Promise!Flow
    <3>2. IF a + 1 \in elf.entries THEN t = End("return", {}) ELSE t = Branch({a + 1}, {})
      BY <1>3, <2>1 DEF Honoured
    <3>3. QED
      BY <1>3, <2>1, <3>1, <3>2 DEF End, Branch
  <2>2. CASE elf.insn[a].cat \in {"normal", "blr", "bl", "cond", "jump"}
    <3>1. Promise!Flow(f, a) = IF elf.insn[a].cat = "jump" THEN {elf.insn[a].taken}
                               ELSE IF elf.insn[a].cat = "cond" THEN {elf.insn[a].taken, a + 1}
                               ELSE {a + 1}
      BY <1>3, <2>2 DEF Promise!Flow
    <3>2. t.kind = "branch" /\ t.succ = Promise!Flow(f, a)
      BY <1>3, <2>2, <3>1 DEF Honoured, Branch
    <3>3. QED
      BY <2>2, <3>2
  <2>3. CASE elf.insn[a].cat \in {"ret", "invalid", "br"}
    <3>1. Promise!Flow(f, a) = {}
      BY <1>3, <2>3 DEF Promise!Flow
    <3>2. t.succ = {} /\ (t.kind = "indirect" <=> elf.insn[a].cat = "br")
      BY <1>3, <2>3 DEF Honoured, End
    <3>3. QED
      BY <1>3, <3>1, <3>2
  <2>4. QED
    BY <2>1, <2>2, <2>3 DEF Category
<1>4. QED
  BY <1>1, <1>2, <1>3

(***************************************************************************)
(* The function being lifted holds nothing control cannot reach.           *)
(***************************************************************************)
Whole(f) == {f} \cup f .. FuncVMA_E(f) - 1

ReachInv ==
  pc = "inst" =>
    /\ indirectbr => Promise!Jumps(trace_addr)
    /\ lift_all_insn => indirectbr
    /\ ~ lift_all_insn =>
         blocks \cup inst_work_list \subseteq Promise!Reach(trace_addr, {trace_addr})
    /\ lift_all_insn =>
         blocks \cup inst_work_list \subseteq Promise!Reach(trace_addr, Whole(trace_addr))

(* What a definition is for LifterSpec. *)
AsGraph(d) ==
  [nodes |-> d.blocks, edges |-> UNION {{a} \X d.term[a].succ : a \in d.blocks}]

LEMMA AddressesOfFlow ==
  ASSUME IInv, NEW f, NEW a \in Addr
  PROVE  Promise!Flow(f, a) \subseteq Addr
<1>1. elf.insn[a].cat \in Category /\ elf.insn[a].taken \in Addr
  BY DEF IInv, TypeOK, WellFormed, Insn
<1>2. a \in elf.memory => a + 1 \in Addr
  BY NextIsAddr DEF IInv, ReadInstructionBytes
<1>3. QED
  BY <1>1, <1>2 DEF Promise!Flow, Category

LEMMA FlowUnchanged ==
  ASSUME elf' = elf
  PROVE  /\ \A f, S : Promise!Reach(f, S)' = Promise!Reach(f, S)
         /\ \A f : Promise!Jumps(f)' <=> Promise!Jumps(f)
         /\ \A f : Whole(f)' = Whole(f)
BY DEF Promise!Reach, Promise!Closed, Promise!Flow, Promise!Jumps, Whole, FuncVMA_E

(* Lifting one instruction of a reachable block reaches its successors. *)
LEMMA InsnReach ==
  ASSUME IInv, ReachInv, NEW a \in Addr,
         \/ TailCallTrace(a) \/ MissingBlock(a) \/ LiftPlain(a)
         \/ LiftDirectJump(a) \/ LiftIndirectJump(a) \/ LiftDirectCall(a)
  PROVE  ReachInv'
<1>1. PICK t : /\ Honoured(trace_addr, a, t)
               /\ pc = "inst" /\ a \in inst_work_list
               /\ blocks' = blocks \cup {a} \cup t.succ
               /\ inst_work_list' = (inst_work_list \ {a}) \cup t.succ
               /\ indirectbr' => indirectbr \/ t.kind = "indirect"
               /\ indirectbr => indirectbr'
               /\ UNCHANGED <<elf, pc, trace_addr, lift_all_insn>>
  BY InsnHonours
<1>2. elf.insn[a].cat \in Category
  BY DEF IInv, TypeOK, WellFormed, Insn
<1>3. t.succ = Promise!Flow(trace_addr, a) /\ t.succ \subseteq Addr
  BY <1>1, <1>2, SuccIsFlow, AddressesOfFlow
<1>4. ASSUME NEW S, blocks \cup inst_work_list \subseteq Promise!Reach(trace_addr, S)
      PROVE  blocks' \cup inst_work_list' \subseteq Promise!Reach(trace_addr, S)
  <2>1. a \in Promise!Reach(trace_addr, S)
    BY <1>1, <1>4
  <2>2. t.succ \subseteq Promise!Reach(trace_addr, S)
    BY <1>3, <2>1, ReachIsClosed
  <2>3. QED
    BY <1>1, <1>4, <2>1, <2>2
<1>5. ASSUME indirectbr', ~ indirectbr
      PROVE  Promise!Jumps(trace_addr)
  <2>1. t.kind = "indirect" /\ ~ lift_all_insn
    BY <1>1, <1>5 DEF ReachInv
  <2>2. a \in Promise!Reach(trace_addr, {trace_addr})
    BY <1>1, <2>1 DEF ReachInv
  <2>3. a \in elf.memory /\ ~ (a # trace_addr /\ a \in elf.entries) /\ elf.insn[a].cat = "br"
    BY <1>1, <1>2, <2>1, SuccIsFlow
  <2>4. QED
    BY <2>2, <2>3 DEF Promise!Jumps
<1>6. /\ \A S : Promise!Reach(trace_addr, S)' = Promise!Reach(trace_addr, S)
      /\ Promise!Jumps(trace_addr)' <=> Promise!Jumps(trace_addr)
      /\ Whole(trace_addr)' = Whole(trace_addr)
  BY <1>1, FlowUnchanged
<1>7. QED
  BY <1>1, <1>4, <1>5, <1>6 DEF ReachInv

LEMMA StepReach ==
  ASSUME IInv, ReachInv, [Next]_vars
  PROVE  ReachInv'
<1>1. ASSUME NEW a \in Addr,
             \/ TailCallTrace(a) \/ MissingBlock(a) \/ LiftPlain(a)
             \/ LiftDirectJump(a) \/ LiftIndirectJump(a) \/ LiftDirectCall(a)
      PROVE  ReachInv'
  BY <1>1, InsnReach
<1>2. CASE StartTrace
  <2>1. /\ blocks' = {trace_addr'} /\ inst_work_list' = {trace_addr'}
        /\ indirectbr' = FALSE /\ lift_all_insn' = FALSE /\ trace_addr' \in elf.entries
        /\ elf' = elf
    BY <1>2 DEF StartTrace, IsFunctionEntry, mainVars
  <2>2. trace_addr' \in Addr
    BY <2>1, EntriesAreAddr DEF IInv
  <2>3. QED
    BY <2>1, <2>2, AddrIsAddr DEF ReachInv, Promise!Reach
<1>3. CASE LiftAllInsns
  <2>1. /\ pc = "inst" /\ indirectbr /\ ~ lift_all_insn /\ lift_all_insn' = TRUE
        /\ inst_work_list = {}
        /\ inst_work_list' = (trace_addr .. FuncVMA_E(trace_addr) - 1) \ blocks
        /\ UNCHANGED <<elf, pc, trace_addr, blocks, indirectbr>>
    BY <1>3 DEF LiftAllInsns, UnliftedInsns, mainVars
  <2>2. trace_addr \in elf.entries
    BY <2>1 DEF IInv, DraftInv
  <2>3. trace_addr \in Addr /\ FuncVMA_E(trace_addr) \in Addr
    BY <2>2, EntriesAreAddr DEF IInv
  <2>4. Whole(trace_addr) \subseteq Addr
    BY <2>3 DEF Whole, Addr
  <2>5. Promise!Reach(trace_addr, {trace_addr}) \subseteq Promise!Reach(trace_addr, Whole(trace_addr))
    BY ReachGrows DEF Whole
  <2>6. inst_work_list' \subseteq Promise!Reach(trace_addr, Whole(trace_addr))
    BY <2>1, <2>4, ReachContains DEF Whole
  <2>7. blocks' \subseteq Promise!Reach(trace_addr, Whole(trace_addr))
    BY <2>1, <2>5 DEF ReachInv
  <2>8. QED
    BY <2>1, <2>6, <2>7, FlowUnchanged DEF ReachInv
<1>4. CASE pc' # "inst"
  BY <1>4 DEF ReachInv
<1>5. CASE /\ UNCHANGED <<elf, pc, trace_addr, blocks, indirectbr, lift_all_insn>>
           /\ inst_work_list' \subseteq inst_work_list
  BY <1>5, FlowUnchanged DEF ReachInv
<1>6. QED
  <2>1. CASE LiftInsn
    BY <2>1, <1>1, <1>5 DEF LiftInsn, SkipInsn, mainVars, funcVars
  <2>2. CASE ~ LiftInsn
    BY <2>2, <1>2, <1>3, <1>4, <1>5 DEF Next, Lift, LiftCall, SkipTrace, FinishTrace, LiftReturn,
              Finish, Done, vars, mainVars, funcVars
  <2>3. QED
    BY <2>1, <2>2
-----------------------------------------------------------------------------
(***************************************************************************)
(* A finished function is the translation LifterSpec asks for.             *)
(***************************************************************************)
LEMMA FinishIsTranslation ==
  ASSUME IInv, HInv, ReachInv, FinishTrace
  PROVE  AsGraph(Draft) = Promise!Translation(trace_addr)
<1>1. pc = "inst" /\ inst_work_list = {} /\ (indirectbr => lift_all_insn)
  BY DEF FinishTrace
<1>2. /\ trace_addr \in elf.entries /\ WorkListInv /\ IndirectInv
  BY <1>1 DEF IInv, DraftInv
<1>3. trace_addr \in Addr /\ FuncVMA_E(trace_addr) \in Addr /\ blocks \subseteq Addr
  BY <1>2, EntriesAreAddr DEF IInv, TypeOK
<1>4. ASSUME NEW a \in blocks
      PROVE  /\ term[a].succ = Promise!Flow(trace_addr, a)
             /\ term[a].succ \subseteq blocks
             /\ term[a].kind = "indirect" <=>
                  /\ a \in elf.memory /\ ~ (a # trace_addr /\ a \in elf.entries)
                  /\ elf.insn[a].cat = "br"
  <2>1. term[a] # Empty /\ a \in Addr
    BY <1>1, <1>2, <1>3 DEF WorkListInv
  <2>2. Honoured(trace_addr, a, term[a])
    BY <1>1, <2>1 DEF HInv, DraftHonours
  <2>3. elf.insn[a].cat \in Category
    BY <2>1 DEF IInv, TypeOK, WellFormed, Insn
  <2> DEFINE t == term[a]
  <2>4. a \in Addr /\ Honoured(trace_addr, a, t)
    BY <2>1, <2>2
  <2> HIDE DEF t
  <2>5. /\ t.succ = Promise!Flow(trace_addr, a)
        /\ t.kind = "indirect" <=> /\ a \in elf.memory /\ ~ (a # trace_addr /\ a \in elf.entries)
                                   /\ elf.insn[a].cat = "br"
    BY <2>3, <2>4, SuccIsFlow
  <2>6. term[a].succ \subseteq blocks
    BY <1>2 DEF WorkListInv
  <2>7. QED
    BY <2>5, <2>6 DEF t
<1>5. ASSUME NEW S, S \subseteq blocks
      PROVE  Promise!Reach(trace_addr, S) \subseteq blocks
  BY <1>3, <1>4, <1>5, ReachIsLeast
<1>6. trace_addr \in blocks
  BY <1>2 DEF WorkListInv
<1>7. blocks = Promise!Nodes(trace_addr)
  <2>1. CASE indirectbr
    <3>1. Promise!Jumps(trace_addr) /\ lift_all_insn
      BY <1>1, <2>1 DEF ReachInv
    <3>2. Whole(trace_addr) \subseteq blocks
      BY <1>1, <1>2, <1>6, <3>1 DEF IndirectInv, Whole
    <3>3. blocks \subseteq Promise!Reach(trace_addr, Whole(trace_addr))
      BY <1>1, <3>1 DEF ReachInv
    <3>4. blocks = Promise!Reach(trace_addr, Whole(trace_addr))
      BY <1>5, <3>2, <3>3
    <3>5. QED
      BY <3>1, <3>4 DEF Promise!Nodes, Whole, FuncVMA_E
  <2>2. CASE ~ indirectbr
    <3>1. ~ lift_all_insn
      BY <1>1, <2>2 DEF ReachInv
    <3>2. blocks \subseteq Promise!Reach(trace_addr, {trace_addr})
      BY <1>1, <3>1 DEF ReachInv
    <3>3. blocks = Promise!Reach(trace_addr, {trace_addr})
      BY <1>5, <1>6, <3>2
    <3>4. \A a \in blocks : term[a].kind # "indirect"
      BY <1>2, <2>2 DEF IndirectInv
    <3>5. ~ Promise!Jumps(trace_addr)
      BY <1>4, <3>3, <3>4 DEF Promise!Jumps
    <3>6. QED
      BY <3>3, <3>5 DEF Promise!Nodes
  <2>3. QED
    BY <2>1, <2>2
<1>8. UNION {{a} \X term[a].succ : a \in blocks}
        = UNION {{a} \X Promise!Flow(trace_addr, a) : a \in blocks}
  BY <1>4
<1>9. QED
  BY <1>7, <1>8 DEF AsGraph, Draft, Promise!Translation

LInv == IInv /\ HInv /\ ReachInv

LEMMA InitLInv == Init => LInv
BY InitIInv, InitHInv DEF LInv, ReachInv, Init

LEMMA NextLInv == LInv /\ [Next]_vars => LInv'
BY NextIInv, NextHInv, StepReach DEF LInv

Graph == [f \in Addr |-> AsGraph(defs[f])]

LEMMA UnliftedIsNoGraph ==
  ASSUME NEW f \in Addr, ~ Lifted(f)
  PROVE  AsGraph(defs[f]) = Promise!NoGraph
BY DEF Lifted, AsGraph, Promise!NoGraph

LEMMA FinishTranslates ==
  ASSUME LInv, FinishTrace
  PROVE  Promise!Next
<1>1. IInv /\ HInv /\ ReachInv
  BY DEF LInv
<1>2. /\ pc = "inst" /\ elf' = elf /\ term' = term
      /\ defs' = [defs EXCEPT ![trace_addr] = Draft]
  BY <1>1, FinishTraceStep DEF FinishTrace, SetLiftedTraceDefinition, Draft, mainVars
<1>3. trace_addr \in elf.entries /\ ~ Lifted(trace_addr)
  BY <1>1, <1>2 DEF IInv, DraftInv, MainInv
<1>4. trace_addr \in Addr /\ defs \in [Addr -> Def]
  BY <1>1, <1>3, EntriesAreAddr DEF IInv, TypeOK
<1>5. Graph' = [Graph EXCEPT ![trace_addr] = Promise!Translation(trace_addr)]
  <2>1. \A f \in Addr : defs'[f] = IF f = trace_addr THEN Draft ELSE defs[f]
    BY <1>2, <1>4
  <2>2. \A f \in Addr :
          Graph'[f] = IF f = trace_addr THEN Promise!Translation(trace_addr) ELSE Graph[f]
    <3>1. AsGraph(Draft) = Promise!Translation(trace_addr)
      BY <1>1, FinishIsTranslation
    <3>2. \A f \in Addr : Graph'[f] = AsGraph(defs'[f]) /\ Graph[f] = AsGraph(defs[f])
      BY DEF Graph, AsGraph
    <3>3. QED
      BY <2>1, <3>1, <3>2
  <2>3. Graph' = [f \in Addr |-> Graph'[f]] /\ Graph = [f \in Addr |-> Graph[f]]
    BY DEF Graph
  <2>4. QED
    BY <2>2, <2>3
<1>6. Graph[trace_addr] = Promise!NoGraph
  BY <1>3, <1>4, UnliftedIsNoGraph DEF Graph
<1>7. QED
  BY <1>2, <1>3, <1>4, <1>5, <1>6, AddrIsAddr DEF Promise!Next, Promise!Translate, Graph, AsGraph

(***************************************************************************)
(* Whatever the binary and the order of the functions, the lifting loop    *)
(* translates every function once, into the graph of the instructions that *)
(* control reaches in it.                                                  *)
(***************************************************************************)
THEOREM KeepsThePromiseTheorem == Spec => KeepsThePromise
<1>1. Init => Promise!Init
  <2> SUFFICES ASSUME Init PROVE Promise!Init
    OBVIOUS
  <2>1. \A f \in Addr : AsGraph(defs[f]) = Promise!NoGraph
    BY UnliftedIsNoGraph DEF Init, Lifted, NoDef
  <2>2. QED
    BY <2>1, AddrIsAddr DEF Promise!Init, AsGraph
<1>2. LInv /\ [Next]_vars => [Promise!Next]_<<elf, Graph>>
  <2> SUFFICES ASSUME LInv, [Next]_vars PROVE [Promise!Next]_<<elf, Graph>>
    OBVIOUS
  <2>1. CASE FinishTrace
    BY <2>1, FinishTranslates
  <2>2. CASE UNCHANGED <<elf, defs>>
    BY <2>2 DEF Graph, AsGraph
  <2>3. QED
    BY <2>1, <2>2 DEF Next, Lift, LiftCall, SkipTrace, StartTrace, LiftInsn, LiftAllInsns,
       LiftReturn, Finish, Done, SkipInsn, TailCallTrace, MissingBlock, LiftPlain,
       LiftDirectJump, LiftIndirectJump, LiftDirectCall, vars, mainVars
<1>3. QED
  BY <1>1, <1>2, InitLInv, NextLInv, PTL DEF Spec, KeepsThePromise, Promise!Spec, Graph, AsGraph
-----------------------------------------------------------------------------
(***************************************************************************)
(* The running program.  Once it runs, the lifter does nothing any more,   *)
(* the tables are those of the finished functions, and every frame is at   *)
(* a block of its function.                                                *)
(***************************************************************************)
InFunction(f, a) == f \in elf.entries /\ a \in defs[f].blocks

OffInv ==
  machine = "off" =>
    /\ callers = <<>> /\ strayed = FALSE /\ reported = NoTrace

OnInv ==
  machine # "off" =>
    /\ pc = "done"
    /\ fn_table = elf.entries
    /\ block_table = [f \in Addr |-> IF defs[f].indirect THEN defs[f].blocks ELSE {}]
    /\ InFunction(fn, at)
    /\ \A i \in DOMAIN callers : InFunction(callers[i].fn, callers[i].at)

ReportInv == (machine = "on" => reported = NoTrace) /\ ErrorsAreJustified

ProgInv == ProgTypeOK /\ OffInv /\ OnInv /\ ReportInv

LEMMA InitProgInv == ProgInit => ProgInv
<1> SUFFICES ASSUME ProgInit PROVE ProgInv
  OBVIOUS
<1>1. callers \in Seq(Frame) /\ Len(callers) <= StackSize
  BY StackSizeAssumption DEF ProgInit
<1>2. ProgTypeOK /\ OffInv /\ OnInv
  BY <1>1 DEF ProgInit, ProgTypeOK, Machine, OffInv, OnInv
<1>3. ReportInv
  BY DEF ProgInit, ReportInv, ErrorsAreJustified
<1>4. QED
  BY <1>2, <1>3 DEF ProgInv

(* What the lifter leaves behind when it is done. *)
LEMMA DoneFacts ==
  ASSUME LInv, pc = "done"
  PROVE  /\ elf.entries \subseteq Addr /\ elf.memory \subseteq Addr
         /\ \A f \in elf.entries : Lifted(f) /\ f \in defs[f].blocks
         /\ \A f \in elf.entries : defs[f].blocks \subseteq Addr
         /\ \A f \in elf.entries : \A a \in defs[f].blocks :
              /\ Honoured(f, a, defs[f].term[a])
              /\ defs[f].term[a].succ \subseteq defs[f].blocks
              /\ defs[f].term[a].calls \subseteq Addr
<1>1. TypeOK /\ MainInv /\ DefsInv /\ DefsHonour
  BY DEF LInv, IInv, HInv
<1>2. elf.entries \subseteq Addr /\ elf.memory \subseteq Addr
  BY <1>1, EntriesAreAddr DEF TypeOK, WellFormed, Addr
<1>3. \A f \in elf.entries : Lifted(f)
  BY <1>1 DEF MainInv
<1>4. \A f \in elf.entries : NoHoles(f, defs[f])
  BY <1>1, <1>2, <1>3 DEF DefsInv, DefinitionsHaveNoHoles
<1>5. \A f \in elf.entries : defs[f] \in Def
  BY <1>1, <1>2 DEF TypeOK
<1>6. \A f \in elf.entries : defs[f].blocks \subseteq Addr /\ defs[f].term \in [Addr -> Term]
  BY <1>5 DEF Def
<1>7. QED
  BY <1>1, <1>2, <1>3, <1>4, <1>6 DEF NoHoles, DefsHonour, Term

-----------------------------------------------------------------------------
(***************************************************************************)
(* The guest's stack is the callers' stack without the functions.          *)
(***************************************************************************)
Stack(s) == [i \in DOMAIN s |-> s[i].at]

LEMMA EmptyStack == Stack(<<>>) = <<>>
BY DEF Stack

LEMMA StackIsSeq ==
  ASSUME NEW s \in Seq(Frame)
  PROVE  /\ Stack(s) \in Seq(Addr)
         /\ Len(Stack(s)) = Len(s) /\ Len(s) \in Nat
         /\ \A i \in 1 .. Len(s) : s[i] \in Frame /\ Stack(s)[i] = s[i].at
<1>1. Len(s) \in Nat /\ s \in [1 .. Len(s) -> Frame] /\ DOMAIN s = 1 .. Len(s)
  BY LenProperties
<1>2. \A i \in 1 .. Len(s) : s[i].at \in Addr
  BY <1>1 DEF Frame
<1>3. Stack(s) \in [1 .. Len(s) -> Addr]
  BY <1>1, <1>2 DEF Stack
<1>4. Stack(s) \in Seq(Addr) /\ Len(Stack(s)) = Len(s)
  BY <1>1, <1>3
<1>5. QED
  BY <1>1, <1>4 DEF Stack

LEMMA PushStack ==
  ASSUME NEW s \in Seq(Frame), NEW f \in Frame
  PROVE  /\ <<f>> \o s \in Seq(Frame)
         /\ Len(<<f>> \o s) = Len(s) + 1
         /\ Stack(<<f>> \o s) = <<f.at>> \o Stack(s)
         /\ \A i \in 1 .. Len(s) + 1 :
              (<<f>> \o s)[i] = IF i = 1 THEN f ELSE s[i - 1]
<1> DEFINE p == <<f>> \o s
<1>1. <<f>> \in Seq(Frame) /\ Len(<<f>>) = 1 /\ <<f>>[1] = f
  OBVIOUS
<1>2. p \in Seq(Frame) /\ Len(p) = Len(s) + 1 /\ Len(s) \in Nat
  BY <1>1, ConcatProperties, StackIsSeq
<1>3. \A i \in 1 .. Len(s) + 1 : p[i] = IF i = 1 THEN f ELSE s[i - 1]
  BY <1>1, <1>2, ConcatProperties
<1> HIDE DEF p
<1>4. f.at \in Addr
  BY DEF Frame
<1> DEFINE q == <<f.at>> \o Stack(s)
<1>5. <<f.at>> \in Seq(Addr) /\ Len(<<f.at>>) = 1 /\ <<f.at>>[1] = f.at
  BY <1>4
<1>6. Stack(s) \in Seq(Addr) /\ Len(Stack(s)) = Len(s)
  BY StackIsSeq
<1>7. q \in Seq(Addr) /\ Len(q) = Len(s) + 1
  BY <1>5, <1>6, ConcatProperties
<1>8. \A i \in 1 .. Len(s) + 1 : q[i] = IF i = 1 THEN f.at ELSE Stack(s)[i - 1]
  BY <1>2, <1>5, <1>6, ConcatProperties
<1> HIDE DEF q
<1>9. Stack(p) \in Seq(Addr) /\ Len(Stack(p)) = Len(s) + 1
  BY <1>2, StackIsSeq
<1>10. \A i \in 1 .. Len(s) + 1 : Stack(p)[i] = p[i].at
  BY <1>2, StackIsSeq
<1>11. \A i \in 1 .. Len(s) : Stack(s)[i] = s[i].at
  BY StackIsSeq
<1>12. ASSUME NEW i \in 1 .. Len(s) + 1
       PROVE  Stack(p)[i] = q[i]
  <2>1. CASE i = 1
    BY <2>1, <1>2, <1>3, <1>8, <1>10
  <2>2. CASE i # 1
    <3>1. i - 1 \in 1 .. Len(s)
      BY <2>2, <1>2
    <3>2. QED
      BY <2>2, <3>1, <1>3, <1>8, <1>10, <1>11
  <2>3. QED
    BY <2>1, <2>2
<1>13. Stack(p) = q
  BY <1>7, <1>9, <1>12, SeqEqual
<1>14. QED
  BY <1>2, <1>3, <1>13 DEF p, q

LEMMA PopStack ==
  ASSUME NEW s \in Seq(Frame), s # <<>>
  PROVE  /\ Tail(s) \in Seq(Frame)
         /\ Len(Tail(s)) = Len(s) - 1 /\ Len(s) \in Nat \ {0}
         /\ \A i \in 1 .. Len(s) - 1 : Tail(s)[i] = s[i + 1]
         /\ Head(s) = s[1] /\ Head(s) \in Frame
         /\ Stack(s) # <<>>
         /\ Head(Stack(s)) = Head(s).at
         /\ Tail(Stack(s)) = Stack(Tail(s))
<1>1. /\ Tail(s) \in Seq(Frame) /\ Len(Tail(s)) = Len(s) - 1 /\ Len(s) \in Nat \ {0}
      /\ \A i \in 1 .. Len(s) - 1 : Tail(s)[i] = s[i + 1]
      /\ Head(s) = s[1] /\ Head(s) \in Frame
  BY HeadTailProperties, EmptySeq
<1>2. Stack(s) \in Seq(Addr) /\ Len(Stack(s)) = Len(s)
  BY StackIsSeq
<1>3. Stack(s) # <<>>
  BY <1>1, <1>2
<1>4. /\ Tail(Stack(s)) \in Seq(Addr) /\ Len(Tail(Stack(s))) = Len(s) - 1
      /\ \A i \in 1 .. Len(s) - 1 : Tail(Stack(s))[i] = Stack(s)[i + 1]
      /\ Head(Stack(s)) = Stack(s)[1]
  BY <1>2, <1>3, HeadTailProperties
<1>5. \A i \in 1 .. Len(s) : Stack(s)[i] = s[i].at
  BY StackIsSeq
<1>6. /\ Stack(Tail(s)) \in Seq(Addr) /\ Len(Stack(Tail(s))) = Len(s) - 1
      /\ \A i \in 1 .. Len(s) - 1 : Stack(Tail(s))[i] = Tail(s)[i].at
  BY <1>1, StackIsSeq
<1>7. \A i \in 1 .. Len(s) - 1 : Tail(Stack(s))[i] = Stack(Tail(s))[i]
  BY <1>1, <1>4, <1>5, <1>6
<1>8. Tail(Stack(s)) = Stack(Tail(s))
  BY <1>4, <1>6, <1>7, SeqEqual
<1>9. QED
  BY <1>1, <1>3, <1>4, <1>5, <1>8
-----------------------------------------------------------------------------
(***************************************************************************)
(* The steps of the running program.                                       *)
(***************************************************************************)
LEMMA OnFacts ==
  ASSUME LInv, ProgInv, machine = "on"
  PROVE  /\ fn \in elf.entries /\ fn \in Addr
         /\ at \in defs[fn].blocks /\ at \in Addr
         /\ Honoured(fn, at, Terminator)
         /\ elf.insn[at].cat \in Category
         /\ elf.entries \subseteq Addr /\ elf.memory \subseteq Addr
         /\ Terminator.succ \subseteq defs[fn].blocks
         /\ \A f \in elf.entries : f \in defs[f].blocks
         /\ \A f \in elf.entries : defs[f].blocks \subseteq Addr
         /\ fn_table = elf.entries
         /\ block_table[fn] \subseteq defs[fn].blocks
         /\ reported = NoTrace
         /\ callers \in Seq(Frame) /\ Len(callers) <= StackSize
         /\ \A i \in 1 .. Len(callers) : InFunction(callers[i].fn, callers[i].at)
<1>1. pc = "done" /\ OnInv /\ ProgTypeOK /\ reported = NoTrace
  BY DEF ProgInv, OnInv, ReportInv
<1>2. InFunction(fn, at) /\ fn_table = elf.entries
  BY <1>1 DEF OnInv
<1>3. elf.insn[at].cat \in Category
  <2>1. at \in Addr
    BY <1>1, <1>2, DoneFacts DEF InFunction
  <2>2. QED
    BY <2>1 DEF LInv, IInv, TypeOK, WellFormed, Insn
<1>4. fn \in Addr
  BY <1>1, <1>2, DoneFacts DEF InFunction
<1>5. block_table[fn] \subseteq defs[fn].blocks
  BY <1>1, <1>4 DEF OnInv
<1>6. \A i \in 1 .. Len(callers) : InFunction(callers[i].fn, callers[i].at)
  BY <1>1 DEF OnInv, ProgTypeOK
<1>7. QED
  BY <1>1, <1>2, <1>3, <1>4, <1>5, <1>6, DoneFacts DEF InFunction, Terminator, ProgTypeOK

(* What the kind of a terminator says of its instruction. *)
LEMMA KindFacts ==
  ASSUME NEW f, NEW a, NEW t, Honoured(f, a, t), elf.insn[a].cat \in Category
  PROVE  /\ t.kind \in {"branch", "return", "indirect", "error"} => a \in elf.memory
         /\ t.kind = "tail" => t.calls = {a} /\ a \in elf.entries
         /\ t.kind = "missing" => a \notin elf.memory
         /\ t.kind = "error" => elf.insn[a].cat = "invalid"
         /\ t.kind = "indirect" => elf.insn[a].cat = "br"
         /\ t.kind = "return" => elf.insn[a].cat \in {"ret", "svc"}
         /\ t.kind = "return" /\ elf.insn[a].cat = "svc" => a + 1 \in elf.entries
         /\ t.kind = "branch" =>
              /\ elf.insn[a].cat = "normal" => t.succ = {a + 1} /\ t.calls = {}
              /\ elf.insn[a].cat = "blr" => t.succ = {a + 1} /\ t.calls = {}
              /\ elf.insn[a].cat = "svc" =>
                   t.succ = {a + 1} /\ t.calls = {} /\ a + 1 \notin elf.entries
              /\ elf.insn[a].cat = "jump" => t.succ = {elf.insn[a].taken} /\ t.calls = {}
              /\ elf.insn[a].cat = "cond" =>
                   t.succ = {elf.insn[a].taken, a + 1} /\ t.calls = {}
              /\ elf.insn[a].cat = "bl" =>
                   /\ t.succ = {a + 1}
                   /\ t.calls = {g \in elf.entries : g = elf.insn[a].taken /\ g # a + 1}
              /\ elf.insn[a].cat \in {"normal", "blr", "svc", "jump", "cond", "bl"}
<1>1. CASE a # f /\ a \in elf.entries
  BY <1>1 DEF Honoured, End
<1>2. CASE ~ (a # f /\ a \in elf.entries) /\ a \notin elf.memory
  BY <1>2 DEF Honoured, End
<1>3. CASE ~ (a # f /\ a \in elf.entries) /\ a \in elf.memory
  BY <1>3 DEF Honoured, End, Branch, Category
<1>4. QED
  BY <1>1, <1>2, <1>3

(* The program goes on in a block of a lifted function. *)
LEMMA Moves ==
  ASSUME LInv, ProgInv, machine = "on", UNCHANGED vars,
         UNCHANGED <<machine, tableVars, reported>>,
         strayed' \in BOOLEAN, InFunction(fn', at'),
         callers' \in Seq(Frame), Len(callers') <= StackSize,
         \A i \in 1 .. Len(callers') : InFunction(callers'[i].fn, callers'[i].at)
  PROVE  ProgInv'
<1>1. defs' = defs /\ elf' = elf /\ pc' = pc
  BY DEF vars
<1>2. fn' \in Addr /\ at' \in Addr
  BY DoneFacts DEF InFunction, ProgInv, OnInv
<1>3. ProgTypeOK'
  BY <1>2 DEF ProgInv, ProgTypeOK, tableVars
<1>4. OnInv'
  BY <1>1, <1>3 DEF ProgInv, OnInv, tableVars, InFunction, ProgTypeOK
<1>5. OffInv' /\ ReportInv'
  BY DEF ProgInv, OffInv, ReportInv, ErrorsAreJustified
<1>6. QED
  BY <1>3, <1>4, <1>5 DEF ProgInv

(* The program ends. *)
LEMMA StopsStep ==
  ASSUME LInv, ProgInv, machine = "on", UNCHANGED vars,
         machine' \in Machine \ {"on", "off"}, UNCHANGED <<tableVars, fn, at, callers>>,
         strayed' \in BOOLEAN, reported' \in Addr \cup {NoTrace}, ErrorsAreJustified'
  PROVE  ProgInv'
<1>1. defs' = defs /\ elf' = elf /\ pc' = pc
  BY DEF vars
<1>2. ProgTypeOK'
  BY DEF ProgInv, ProgTypeOK, tableVars
<1>3. OnInv'
  BY <1>1 DEF ProgInv, OnInv, tableVars, InFunction
<1>4. OffInv' /\ ReportInv'
  BY DEF OffInv, ReportInv, Machine
<1>5. QED
  BY <1>2, <1>3, <1>4 DEF ProgInv

(* Once control has strayed, nothing is promised. *)
LEMMA StrayedStutters ==
  ASSUME strayed = TRUE, strayed' = TRUE, elf' = elf
  PROVE  UNCHANGED Guest!guestVars
BY DEF Guest!guestVars

GuestStep == [Guest!Next]_(Guest!guestVars)

(* Control strays only behind an instruction nothing is promised of. *)
LEMMA StrayStep ==
  ASSUME machine = "on", elf' = elf, strayed \in BOOLEAN, strayed' = TRUE,
         ~ strayed => Guest!Unpromised
  PROVE  GuestStep
<1>1. CASE strayed
  BY <1>1, StrayedStutters DEF GuestStep
<1>2. CASE ~ strayed
  <2>1. Guest!Lose
    BY <1>2 DEF Guest!Lose
  <2>2. QED
    BY <2>1 DEF Guest!Next, GuestStep
<1>3. QED
  BY <1>1, <1>2

(* A block branches: Guest!Step, or Guest!Lose behind an ignored call. *)
LEMMA BranchesStep ==
  ASSUME LInv, ProgInv, Branches, UNCHANGED vars
  PROVE  ProgInv' /\ GuestStep
<1>1. PICK a \in Terminator.succ :
        /\ machine = "on" /\ Terminator.kind = "branch" /\ Terminator.calls = {} /\ ~ At({"blr"})
        /\ at' = a /\ UNCHANGED <<machine, tableVars, fn, callers, reported>>
        /\ strayed' = (strayed \/ IgnoredCall)
  BY DEF Branches, Reached
<1>2. InFunction(fn', at')
  BY <1>1, OnFacts DEF InFunction, vars
<1>3. strayed \in BOOLEAN /\ strayed' \in BOOLEAN /\ elf' = elf
  BY <1>1 DEF ProgInv, ProgTypeOK, vars, IgnoredCall, At
<1>4. ProgInv'
  BY <1>1, <1>2, <1>3, OnFacts, Moves DEF vars, InFunction, ProgInv, ProgTypeOK
<1>5. /\ at \in elf.memory /\ at \in Addr
      /\ elf.insn[at].cat \in {"normal", "svc", "jump", "cond", "bl"}
  BY <1>1, OnFacts, KindFacts DEF At
<1>6. CASE strayed \/ IgnoredCall
  <2>1. strayed' = TRUE
    BY <1>1, <1>3, <1>6
  <2>2. ASSUME ~ strayed PROVE Guest!Unpromised
    BY <1>1, <1>3, <1>6, <2>2 DEF IgnoredCall, IsFunctionEntry, At, Guest!Unpromised, Guest!Fetched
  <2>3. QED
    BY <1>1, <1>3, <1>4, <2>1, <2>2, StrayStep
<1>7. CASE ~ strayed /\ ~ IgnoredCall
  <2>1. strayed = FALSE /\ strayed' = FALSE
    BY <1>1, <1>3, <1>7
  <2>2. CASE elf.insn[at].cat \in {"normal", "svc", "jump", "cond"}
    <3>1. \/ at' = at + 1 /\ elf.insn[at].cat \in {"normal", "cond", "svc"}
          \/ at' = elf.insn[at].taken /\ elf.insn[at].cat \in {"jump", "cond"}
      BY <1>1, <2>2, OnFacts, KindFacts
    <3>2. Guest!Step
      BY <1>1, <1>3, <1>5, <2>1, <3>1 DEF Guest!Step, Guest!Fetched, Guest!Goto
    <3>3. QED
      BY <1>4, <3>2 DEF Guest!Next, Guest!Run, GuestStep
  <2>3. CASE elf.insn[at].cat = "bl"
    <3>1. at' = at + 1 /\ ~ (elf.insn[at].taken \in elf.entries /\ elf.insn[at].taken # at + 1)
      BY <1>1, <2>3, OnFacts, KindFacts
    <3>2. elf.insn[at].taken = at + 1
      BY <1>5, <1>7, <2>3, <3>1 DEF IgnoredCall, IsFunctionEntry, At
    <3>3. Guest!ReadPC
      BY <1>1, <1>3, <1>5, <2>1, <2>3, <3>1, <3>2 DEF Guest!ReadPC, Guest!Fetched, Guest!Goto
    <3>4. QED
      BY <1>4, <3>3 DEF Guest!Next, Guest!Run, GuestStep
  <2>4. QED
    BY <1>5, <2>2, <2>3
<1>8. QED
  BY <1>3, <1>4, <1>6, <1>7

(* A function is called that has to come back to the next instruction. *)
LEMMA CallStep ==
  ASSUME LInv, ProgInv, UNCHANGED vars, machine = "on",
         Terminator.kind = "branch", elf.insn[at].cat \in {"bl", "blr"},
         NEW f \in elf.entries, NEW a \in Terminator.succ, CallAndContinue(f, a),
         elf.insn[at].cat = "bl" => f = elf.insn[at].taken /\ f # at + 1
  PROVE  ProgInv' /\ GuestStep
<1>1. /\ Len(callers) < StackSize /\ fn' = f /\ at' = f
      /\ callers' = <<[fn |-> fn, at |-> a]>> \o callers
      /\ UNCHANGED <<machine, tableVars, strayed, reported>>
  BY DEF CallAndContinue
<1>2. a = at + 1 /\ at \in elf.memory
  BY OnFacts, KindFacts
<1>3. a \in Addr /\ [fn |-> fn, at |-> a] \in Frame /\ InFunction(fn, a)
  BY OnFacts DEF Frame, InFunction
<1>4. callers \in Seq(Frame)
  BY OnFacts
<1> DEFINE r == [fn |-> fn, at |-> a]
<1>5. r \in Frame /\ r.at = a /\ r.fn = fn /\ callers' = <<r>> \o callers
  BY <1>1, <1>3
<1> HIDE DEF r
<1>6. /\ callers' \in Seq(Frame)
      /\ Len(callers') = Len(callers) + 1
      /\ Stack(callers') = <<a>> \o Stack(callers)
      /\ \A i \in 1 .. Len(callers) + 1 : callers'[i] = IF i = 1 THEN r ELSE callers[i - 1]
  <2>1. r \in Frame
    BY <1>5
  <2>2. /\ <<r>> \o callers \in Seq(Frame)
        /\ Len(<<r>> \o callers) = Len(callers) + 1
        /\ Stack(<<r>> \o callers) = <<r.at>> \o Stack(callers)
        /\ \A i \in 1 .. Len(callers) + 1 :
             (<<r>> \o callers)[i] = IF i = 1 THEN r ELSE callers[i - 1]
    BY <1>4, <2>1, PushStack
  <2>3. QED
    BY <1>5, <2>2
<1>7. Len(callers) \in Nat /\ StackSize \in Nat
  BY <1>4, StackIsSeq, StackSizeAssumption
<1>8. ASSUME NEW i \in 1 .. Len(callers')
      PROVE  InFunction(callers'[i].fn, callers'[i].at)
  <2>1. CASE i = 1
    BY <2>1, <1>3, <1>5, <1>6, <1>7
  <2>2. CASE i # 1
    <3>1. i - 1 \in 1 .. Len(callers) /\ callers'[i] = callers[i - 1]
      BY <2>2, <1>6, <1>7
    <3>2. QED
      BY <3>1, OnFacts
  <2>3. QED
    BY <2>1, <2>2
<1>9. InFunction(fn', at')
  BY <1>1, OnFacts DEF InFunction, vars
<1>10. ProgInv'
  <2>1. strayed' \in BOOLEAN
    BY <1>1 DEF ProgInv, ProgTypeOK
  <2>2. Len(callers') <= StackSize
    BY <1>1, <1>6, <1>7
  <2>3. QED
    BY <1>1, <1>6, <1>8, <1>9, <2>1, <2>2, Moves
<1>11. GuestStep
  <2>1. CASE strayed
    BY <1>1, <2>1, StrayedStutters DEF ProgInv, ProgTypeOK, vars, GuestStep
  <2>2. CASE ~ strayed
    <3>1. strayed = FALSE /\ strayed' = FALSE /\ elf' = elf
      BY <1>1, <2>2 DEF ProgInv, ProgTypeOK, vars
    <3>2. Guest!Enter(f)
      BY <1>1, <1>2, <1>6, <3>1 DEF Guest!Enter, Stack
    <3>3. Guest!Fetched({elf.insn[at].cat})
      BY <1>2, <3>1 DEF Guest!Fetched
    <3>4. CASE elf.insn[at].cat = "bl"
      <4>1. Guest!Call
        BY <3>1, <3>2, <3>3, <3>4 DEF Guest!Call, Guest!Enter
      <4>2. QED
        BY <4>1 DEF Guest!Next, Guest!Run, GuestStep
    <3>5. CASE elf.insn[at].cat = "blr"
      <4>1. f \in Guest!Addr
        BY OnFacts DEF Guest!Addr, Addr
      <4>3. Guest!IndirectCall
        BY <3>2, <3>3, <3>5, <4>1 DEF Guest!IndirectCall
      <4>2. QED
        BY <4>3 DEF Guest!Next, Guest!Run, GuestStep
    <3>6. QED
      BY <3>4, <3>5
  <2>3. QED
    BY <2>1, <2>2
<1>12. QED
  BY <1>10, <1>11

LEMMA DirectCallStep ==
  ASSUME LInv, ProgInv, DirectCall, UNCHANGED vars
  PROVE  ProgInv' /\ GuestStep
<1>1. PICK f \in Terminator.calls, a \in Terminator.succ :
        machine = "on" /\ Terminator.kind = "branch" /\ CallAndContinue(f, a)
  BY DEF DirectCall, Reached
<1>2. /\ elf.insn[at].cat = "bl" /\ f \in elf.entries
      /\ f = elf.insn[at].taken /\ f # at + 1
  BY <1>1, OnFacts, KindFacts
<1>3. QED
  BY <1>1, <1>2, CallStep

(* Stopping where the guest faults, exits or runs out of room. *)
LEMMA StopGuest ==
  ASSUME strayed \in BOOLEAN, machine = "on", elf' = elf,
         UNCHANGED <<at, callers, strayed>>,
         \/ machine' = "overflow"
         \/ machine' = "aborted" /\ at \in elf.memory
              /\ elf.insn[at].cat \in {"invalid", "blr", "br"}
         \/ machine' = "exited" /\ at \in elf.memory /\ elf.insn[at].cat = "svc"
  PROVE  GuestStep
<1>1. CASE strayed
  BY <1>1, StrayedStutters DEF GuestStep
<1>2. CASE ~ strayed
  <2>1. strayed = FALSE /\ strayed' = FALSE
    BY <1>2
  <2>2. CASE machine' = "overflow"
    <3>1. Guest!Overflow
      BY <2>1, <2>2 DEF Guest!Overflow, Guest!Ends
    <3>2. QED
      BY <3>1 DEF Guest!Next, GuestStep
  <2>3. CASE machine' = "aborted" /\ at \in elf.memory
              /\ elf.insn[at].cat \in {"invalid", "blr", "br"}
    <3>1. Guest!Fault
      BY <2>1, <2>3 DEF Guest!Fault, Guest!Fetched, Guest!Ends
    <3>2. QED
      BY <3>1 DEF Guest!Next, Guest!Run, GuestStep
  <2>4. CASE machine' = "exited" /\ at \in elf.memory /\ elf.insn[at].cat = "svc"
    <3>1. Guest!Exit
      BY <2>1, <2>4 DEF Guest!Exit, Guest!Fetched, Guest!Ends
    <3>2. QED
      BY <3>1 DEF Guest!Next, Guest!Run, GuestStep
  <2>5. QED
    BY <2>2, <2>3, <2>4
<1>3. QED
  BY <1>1, <1>2

LEMMA FunctionCallStep ==
  ASSUME LInv, ProgInv, UNCHANGED vars, NEW x \in Addr, FunctionCall(x)
  PROVE  ProgInv' /\ GuestStep
<1>1. /\ machine = "on" /\ Terminator.kind = "branch"
      /\ at \in elf.memory /\ elf.insn[at].cat = "blr" /\ elf' = elf
  BY DEF FunctionCall, Reached, At, vars
<1>2. CASE x \in fn_table
  <2>1. PICK a \in Terminator.succ : CallAndContinue(x, a)
    BY <1>2 DEF FunctionCall
  <2>2. x \in elf.entries
    BY <1>1, <1>2, OnFacts
  <2>3. QED
    BY <1>1, <2>1, <2>2, CallStep
<1>3. CASE x \notin fn_table
  <2>1. /\ machine' = "aborted" /\ reported' = x
        /\ UNCHANGED <<tableVars, fn, at, callers, strayed>>
    BY <1>3 DEF FunctionCall, RuntimeError, Stops
  <2>2. ErrorsAreJustified'
    BY <1>1, <1>3, <2>1, OnFacts DEF ErrorsAreJustified, IsFunctionEntry
  <2>3. ProgInv'
    BY <1>1, <2>1, <2>2, StopsStep DEF Machine, ProgInv, ProgTypeOK
  <2>4. GuestStep
    BY <1>1, <2>1, StopGuest DEF ProgInv, ProgTypeOK
  <2>5. QED
    BY <2>3, <2>4
<1>4. QED
  BY <1>2, <1>3

(* The current block changes, and nobody new waits. *)
LEMMA JumpStep ==
  ASSUME LInv, ProgInv, machine = "on", UNCHANGED vars, InFunction(fn', at'),
         UNCHANGED <<machine, tableVars, callers, strayed, reported>>
  PROVE  ProgInv'
BY OnFacts, Moves DEF vars, InFunction, ProgInv, ProgTypeOK

(* BR. *)
LEMMA IndirectJumpStep ==
  ASSUME LInv, ProgInv, UNCHANGED vars, NEW x \in Addr, IndirectJump(x)
  PROVE  ProgInv' /\ GuestStep
<1>1. /\ machine = "on" /\ Terminator.kind = "indirect" /\ elf' = elf
  BY DEF IndirectJump, Reached, vars
<1>2. at \in elf.memory /\ elf.insn[at].cat = "br" /\ fn \in elf.entries
  BY <1>1, OnFacts, KindFacts
<1>3. \/ /\ x \in block_table[fn] /\ Jump(x)
      \/ /\ x \in fn_table /\ CallAndReturn(x)
      \/ /\ x \notin block_table[fn] /\ (block_table[fn] = {} \/ x \notin fn_table)
         /\ RuntimeError(x)
  BY DEF IndirectJump
<1>4. fn .. FuncVMA_E(fn) - 1 \subseteq block_table[fn]
  <2>1. BranchTableIsComplete /\ Lifted(fn) /\ pc = "done" /\ fn \in Addr
    BY <1>1, <1>2, DoneFacts, OnFacts DEF LInv, IInv, DefsInv, ProgInv, OnInv
  <2>2. defs[fn].indirect /\ fn .. FuncVMA_E(fn) - 1 \subseteq defs[fn].blocks
    BY <1>1, <2>1, OnFacts DEF BranchTableIsComplete, Terminator
  <2>3. block_table[fn] = defs[fn].blocks
    BY <1>1, <2>1, <2>2 DEF ProgInv, OnInv
  <2>4. QED
    BY <2>2, <2>3
<1>5. fn \in block_table[fn]
  <2>1. fn < FuncVMA_E(fn) /\ fn \in Addr /\ FuncVMA_E(fn) \in Addr
    BY <1>2, EntriesAreAddr DEF LInv, IInv
  <2>2. fn \in fn .. FuncVMA_E(fn) - 1
    BY <2>1 DEF Addr
  <2>3. QED
    BY <1>4, <2>2
<1>6. CASE /\ at' = x /\ InFunction(fn', x)
           /\ UNCHANGED <<machine, tableVars, callers, strayed, reported>>
  <2>1. ProgInv'
    BY <1>1, <1>6, JumpStep
  <2>2. CASE strayed
    BY <1>1, <1>6, <2>1, <2>2, StrayedStutters DEF ProgInv, ProgTypeOK, GuestStep
  <2>3. CASE ~ strayed
    <3>1. Guest!IndirectJump
      BY <1>1, <1>2, <1>6, <2>3 DEF Guest!IndirectJump, Guest!Fetched, Guest!Goto, Guest!Addr, Addr
    <3>2. QED
      BY <2>1, <3>1 DEF Guest!Next, Guest!Run, GuestStep
  <2>4. QED
    BY <2>2, <2>3
<1>7. CASE x \in block_table[fn] /\ Jump(x)
  <2>1. InFunction(fn', x)
    BY <1>1, <1>2, <1>7, OnFacts DEF Jump, InFunction, vars
  <2>2. QED
    BY <1>6, <1>7, <2>1 DEF Jump
<1>8. CASE x \in fn_table /\ CallAndReturn(x)
  <2>1. InFunction(fn', x)
    BY <1>1, <1>8, OnFacts DEF CallAndReturn, InFunction, vars
  <2>2. QED
    BY <1>6, <1>8, <2>1 DEF CallAndReturn
<1>9. CASE /\ x \notin block_table[fn] /\ (block_table[fn] = {} \/ x \notin fn_table)
           /\ RuntimeError(x)
  <2>1. /\ machine' = "aborted" /\ reported' = x
        /\ UNCHANGED <<tableVars, fn, at, callers, strayed>>
    BY <1>9 DEF RuntimeError, Stops
  <2>2. x \notin elf.entries
    BY <1>1, <1>5, <1>9, OnFacts
  <2>3. ~ IsWithinFunction(fn, x)
    <3>1. fn \in Addr /\ FuncVMA_E(fn) \in Addr
      BY <1>2, EntriesAreAddr DEF LInv, IInv
    <3>2. QED
      BY <1>4, <1>9, <3>1 DEF IsWithinFunction, Addr
  <2>4. ErrorsAreJustified'
    BY <1>1, <2>1, <2>2, <2>3 DEF ErrorsAreJustified, IsFunctionEntry, IsWithinFunction, FuncVMA_E
  <2>5. ProgInv'
    BY <1>1, <2>1, <2>4, StopsStep DEF Machine, ProgInv, ProgTypeOK
  <2>6. GuestStep
    BY <1>1, <1>2, <2>1, StopGuest DEF ProgInv, ProgTypeOK
  <2>7. QED
    BY <2>5, <2>6
<1>10. QED
  BY <1>3, <1>7, <1>8, <1>9

(* Control ran into another function: the guest only went on. *)
LEMMA TailCallStep ==
  ASSUME LInv, ProgInv, UNCHANGED vars, TailCall
  PROVE  ProgInv' /\ GuestStep
<1>1. PICK f \in Terminator.calls :
        machine = "on" /\ Terminator.kind = "tail" /\ CallAndReturn(f) /\ elf' = elf
  BY DEF TailCall, Reached, vars
<1>2. f = at /\ f \in elf.entries
  BY <1>1, OnFacts, KindFacts
<1>3. /\ fn' = at /\ at' = at /\ UNCHANGED <<machine, tableVars, callers, strayed, reported>>
  BY <1>1, <1>2 DEF CallAndReturn
<1>4. ProgInv'
  <2>1. InFunction(fn', at')
    BY <1>1, <1>2, <1>3, OnFacts DEF InFunction, vars
  <2>2. QED
    BY <1>1, <1>3, <2>1, JumpStep
<1>5. UNCHANGED Guest!guestVars
  BY <1>1, <1>3 DEF Guest!guestVars
<1>6. QED
  BY <1>4, <1>5 DEF GuestStep

(***************************************************************************)
(* A return, from a RET or from a missing block.                           *)
(***************************************************************************)
LEMMA ReturnInv ==
  ASSUME LInv, ProgInv, UNCHANGED vars, machine = "on", ReturnToCaller, strayed' \in BOOLEAN
  PROVE  ProgInv'
<1>1. UNCHANGED <<tableVars, reported>>
  BY DEF ReturnToCaller
<1>2. reported = NoTrace /\ callers \in Seq(Frame) /\ Len(callers) <= StackSize
  BY OnFacts
<1>3. CASE callers = <<>>
  <2>1. machine' = "exited" /\ UNCHANGED <<fn, at, callers>>
    BY <1>3 DEF ReturnToCaller
  <2>2. ErrorsAreJustified' /\ reported' \in Addr \cup {NoTrace}
    BY <1>1, <1>2 DEF ErrorsAreJustified
  <2>3. QED
    BY <1>1, <2>1, <2>2, StopsStep DEF Machine
<1>4. CASE callers # <<>>
  <2>1. /\ fn' = Head(callers).fn /\ at' = Head(callers).at /\ callers' = Tail(callers)
        /\ UNCHANGED machine
    BY <1>4 DEF ReturnToCaller
  <2>2. /\ callers' \in Seq(Frame) /\ Len(callers') = Len(callers) - 1
        /\ Len(callers) \in Nat \ {0}
        /\ \A i \in 1 .. Len(callers) - 1 : callers'[i] = callers[i + 1]
        /\ Head(callers) = callers[1]
    BY <1>2, <1>4, <2>1, PopStack
  <2>3. \A i \in 1 .. Len(callers) : InFunction(callers[i].fn, callers[i].at)
    BY OnFacts
  <2>4. ASSUME NEW i \in 1 .. Len(callers')
        PROVE  InFunction(callers'[i].fn, callers'[i].at)
    <3>1. i + 1 \in 1 .. Len(callers) /\ callers'[i] = callers[i + 1]
      BY <2>2
    <3>2. QED
      BY <3>1, <2>3
  <2>5. InFunction(fn', at')
    BY <2>1, <2>2, <2>3
  <2>6. Len(callers') <= StackSize
    BY <1>2, <2>2, StackSizeAssumption
  <2>7. QED
    BY <1>1, <2>1, <2>2, <2>4, <2>5, <2>6, Moves
<1>5. QED
  BY <1>3, <1>4

LEMMA FunctionReturnStep ==
  ASSUME LInv, ProgInv, UNCHANGED vars, FunctionReturn
  PROVE  ProgInv' /\ GuestStep
<1>1. /\ machine = "on" /\ at \in elf.memory /\ elf.insn[at].cat = "ret" /\ elf' = elf
      /\ ReturnToCaller /\ strayed' = strayed /\ strayed \in BOOLEAN
  BY DEF FunctionReturn, Reached, At, vars, ProgInv, ProgTypeOK
<1>2. ProgInv'
  BY <1>1, ReturnInv
<1>3. CASE strayed
  BY <1>1, <1>2, <1>3, StrayedStutters DEF GuestStep
<1>4. CASE ~ strayed
  <2>1. Guest!Fetched({"ret"})
    BY <1>1, <1>4 DEF Guest!Fetched
  <2>2. CASE callers = <<>>
    <3>1. machine' = "exited" /\ at' = at /\ callers' = callers
      BY <1>1, <2>2 DEF ReturnToCaller
    <3>2. Guest!Ends("exited")
      BY <1>1, <1>4, <3>1 DEF Guest!Ends
    <3>3. Stack(callers) = <<>>
      BY <2>2, EmptyStack
    <3>4. Guest!Return
      BY <1>4, <2>1, <3>2, <3>3 DEF Guest!Return, Stack
    <3>5. QED
      BY <1>2, <3>4 DEF Guest!Next, Guest!Run, GuestStep
  <2>3. CASE callers # <<>>
    <3>1. at' = Head(callers).at /\ callers' = Tail(callers) /\ machine' = machine
      BY <1>1, <2>3 DEF ReturnToCaller
    <3>2. /\ Stack(callers) # <<>> /\ Head(Stack(callers)) = Head(callers).at
          /\ Tail(Stack(callers)) = Stack(Tail(callers))
      BY <1>1, <2>3, PopStack, OnFacts
    <3>3. Stack(callers') = Tail(Stack(callers)) /\ at' = Head(Stack(callers))
      BY <3>1, <3>2
    <3>4. Guest!Return
      BY <1>1, <1>4, <2>1, <3>1, <3>2, <3>3 DEF Guest!Return, Stack
    <3>5. QED
      BY <1>2, <3>4 DEF Guest!Next, Guest!Run, GuestStep
  <2>4. QED
    BY <2>2, <2>3
<1>5. QED
  BY <1>2, <1>3, <1>4

LEMMA MissingStep ==
  ASSUME LInv, ProgInv, UNCHANGED vars, Missing
  PROVE  ProgInv' /\ GuestStep
<1>1. /\ machine = "on" /\ Terminator.kind = "missing" /\ elf' = elf
      /\ ReturnToCaller /\ strayed' = TRUE /\ strayed \in BOOLEAN
  BY DEF Missing, Reached, vars, ProgInv, ProgTypeOK
<1>2. at \notin elf.memory
  BY <1>1, OnFacts, KindFacts
<1>3. ~ strayed => Guest!Unpromised
  BY <1>2 DEF Guest!Unpromised
<1>4. QED
  BY <1>1, <1>3, ReturnInv, StrayStep

(* A system call in front of another function comes back. *)
LEMMA ReturnFromExitCallStep ==
  ASSUME LInv, ProgInv, UNCHANGED vars, ReturnFromExitCall
  PROVE  ProgInv' /\ GuestStep
<1>1. /\ machine = "on" /\ Terminator.kind = "return" /\ elf' = elf
      /\ at \in elf.memory /\ elf.insn[at].cat = "svc"
      /\ ReturnToCaller /\ strayed' = TRUE /\ strayed \in BOOLEAN
  BY DEF ReturnFromExitCall, Reached, At, vars, ProgInv, ProgTypeOK
<1>2. at + 1 \in elf.entries
  BY <1>1, OnFacts, KindFacts
<1>3. ~ strayed => Guest!Unpromised
  BY <1>1, <1>2 DEF Guest!Unpromised, Guest!Fetched
<1>4. QED
  BY <1>1, <1>3, ReturnInv, StrayStep

(* The other ends of the program. *)
LEMMA EndStep ==
  ASSUME LInv, ProgInv, UNCHANGED vars,
         ExitCall \/ Error \/ StackFull \/ TailCallsOverflow
  PROVE  ProgInv' /\ GuestStep
<1>1. /\ machine = "on" /\ machine' \in {"exited", "aborted", "overflow"}
      /\ UNCHANGED <<tableVars, fn, at, callers, strayed, reported>> /\ elf' = elf
      /\ strayed \in BOOLEAN
  BY DEF ExitCall, Error, StackFull, TailCallsOverflow, Reached, Stops, vars, ProgInv, ProgTypeOK
<1>2. \/ machine' = "overflow"
      \/ machine' = "aborted" /\ Terminator.kind = "error"
      \/ machine' = "exited" /\ At({"svc"})
  BY DEF ExitCall, Error, StackFull, TailCallsOverflow, Reached, Stops
<1>3. Terminator.kind = "error" => at \in elf.memory /\ elf.insn[at].cat = "invalid"
  BY <1>1, OnFacts, KindFacts
<1>4. ErrorsAreJustified' /\ reported' \in Addr \cup {NoTrace}
  BY <1>1, OnFacts DEF ErrorsAreJustified
<1>5. ProgInv'
  BY <1>1, <1>4, StopsStep DEF Machine
<1>6. GuestStep
  BY <1>1, <1>2, <1>3, StopGuest DEF At
<1>7. QED
  BY <1>5, <1>6

LEMMA LoadStep ==
  ASSUME LInv, ProgInv, UNCHANGED vars, NEW e \in Addr, Load(e)
  PROVE  ProgInv' /\ GuestStep
<1>1. /\ pc = "done" /\ machine = "off" /\ machine' = "on" /\ e \in elf.entries
      /\ fn' = e /\ at' = e /\ fn_table' = elf.entries
      /\ block_table' = [f \in Addr |-> IF defs[f].indirect THEN defs[f].blocks ELSE {}]
      /\ UNCHANGED <<callers, strayed, reported>>
      /\ elf' = elf /\ defs' = defs /\ pc' = pc
  BY DEF Load, vars
<1>2. callers = <<>> /\ strayed = FALSE /\ reported = NoTrace
  BY <1>1 DEF ProgInv, OffInv
<1>3. elf.entries \subseteq Addr /\ (\A f \in elf.entries : f \in defs[f].blocks)
  BY <1>1, DoneFacts
<1>4. block_table' \in [Addr -> SUBSET Addr]
  <2>1. \A f \in Addr : defs[f].blocks \subseteq Addr
    BY DEF LInv, IInv, TypeOK, Def
  <2>2. QED
    BY <1>1, <2>1
<1>5. ProgTypeOK'
  BY <1>1, <1>3, <1>4 DEF ProgInv, ProgTypeOK, Machine
<1>6. OnInv'
  BY <1>1, <1>2, <1>3 DEF OnInv, InFunction
<1>7. OffInv' /\ ReportInv'
  BY <1>1, <1>2 DEF OffInv, ReportInv, ErrorsAreJustified
<1>8. Guest!Start
  BY <1>1, <1>2 DEF Guest!Start
<1>9. QED
  BY <1>5, <1>6, <1>7, <1>8 DEF ProgInv, Guest!Next, GuestStep

(* The lifter's own steps do not concern the program. *)
LEMMA LifterStep ==
  ASSUME LInv, ProgInv, Next, UNCHANGED runVars
  PROVE  ProgInv' /\ GuestStep
<1>1. UNCHANGED <<machine, fn_table, block_table, fn, at, callers, strayed, reported>>
  BY DEF runVars, tableVars
<1>2. elf' = elf
  BY DEF Next, Lift, LiftCall, SkipTrace, StartTrace, LiftInsn, LiftAllInsns, FinishTrace,
         LiftReturn, Finish, Done, SkipInsn, TailCallTrace, MissingBlock, LiftPlain,
         LiftDirectJump, LiftIndirectJump, LiftDirectCall, vars, mainVars
<1>3. CASE pc = "done"
  <2>1. UNCHANGED <<defs, pc>>
    BY <1>3 DEF Next, Lift, LiftCall, SkipTrace, StartTrace, LiftInsn, LiftAllInsns, FinishTrace,
         LiftReturn, Finish, Done, SkipInsn, TailCallTrace, MissingBlock, LiftPlain,
         LiftDirectJump, LiftIndirectJump, LiftDirectCall, Decoded, Popped, vars
  <2>2. QED
    BY <1>1, <1>2, <2>1 DEF ProgInv, ProgTypeOK, OffInv, OnInv, ReportInv, ErrorsAreJustified,
         InFunction, IsFunctionEntry, IsWithinFunction, FuncVMA_E, GuestStep, Guest!guestVars
<1>4. CASE pc # "done"
  <2>1. machine = "off" /\ machine' = "off"
    BY <1>1, <1>4 DEF ProgInv, OnInv
  <2>2. QED
    BY <1>1, <1>2, <2>1 DEF ProgInv, ProgTypeOK, OffInv, OnInv, ReportInv, ErrorsAreJustified,
         GuestStep, Guest!guestVars
<1>5. QED
  BY <1>3, <1>4

LEMMA ProgStep ==
  ASSUME LInv, ProgInv, [ProgNext]_allVars
  PROVE  ProgInv' /\ GuestStep
<1>1. CASE Next /\ UNCHANGED runVars
  BY <1>1, LifterStep
<1>2. CASE (Advance \/ TailCallsOverflow) /\ UNCHANGED vars
  BY <1>2, LoadStep, BranchesStep, DirectCallStep, FunctionCallStep, IndirectJumpStep,
     TailCallStep, FunctionReturnStep, ReturnFromExitCallStep, MissingStep, EndStep
     DEF Advance
<1>3. CASE UNCHANGED allVars
  <2>1. UNCHANGED <<elf, defs, pc, machine, fn_table, block_table, fn, at, callers, strayed,
                    reported>>
    BY <1>3 DEF allVars, vars, runVars, tableVars
  <2>2. QED
    BY <2>1 DEF ProgInv, ProgTypeOK, OffInv, OnInv, ReportInv, ErrorsAreJustified,
         InFunction, IsFunctionEntry, IsWithinFunction, FuncVMA_E, GuestStep, Guest!guestVars
<1>4. QED
  BY <1>1, <1>2, <1>3 DEF ProgNext
-----------------------------------------------------------------------------
(* The program runs what the lifter made: ProgSpec implies its Spec. *)
THEOREM LifterFirst == ProgSpec => Spec
<1>1. ProgInit => Init
  BY DEF ProgInit
<1>2. [ProgNext]_allVars => [Next]_vars
  BY DEF ProgNext, allVars
<1>3. QED
  BY <1>1, <1>2, PTL DEF ProgSpec, Spec

(* The inductive invariant of the running program.                         *)
THEOREM ProgInvariance == ProgSpec => []ProgInv
<1>1. Spec => []LInv
  BY InitLInv, NextLInv, PTL DEF Spec
<1>2. LInv /\ ProgInv /\ [ProgNext]_allVars => ProgInv'
  BY ProgStep
<1>3. QED
  BY <1>1, <1>2, LifterFirst, InitProgInv, PTL DEF ProgSpec

(***************************************************************************)
(* Every run of a lifted program, for every binary, is a run of the guest  *)
(* program, up to an instruction Guest!Unpromised names or a full host     *)
(* stack.                                                                  *)
(***************************************************************************)
THEOREM FollowsGuestTheorem == ProgSpec => FollowsGuest
<1>1. ProgInit => Guest!Init
  BY EmptyStack DEF ProgInit, Guest!Init, Stack
<1>2. LInv /\ ProgInv /\ [ProgNext]_allVars => [Guest!Next]_(Guest!guestVars)
  BY ProgStep DEF GuestStep
<1>3. Spec => []LInv
  BY InitLInv, NextLInv, PTL DEF Spec
<1>4. QED
  BY <1>1, <1>2, <1>3, LifterFirst, ProgInvariance, PTL
     DEF ProgSpec, FollowsGuest, Guest!Safe

(* A BR or BLR fails only where the guest program could not have gone. *)
THEOREM ErrorsTheorem == ProgSpec => []ErrorsAreJustified
<1>1. ProgInv => ErrorsAreJustified
  BY DEF ProgInv, ReportInv
<1>2. QED
  BY <1>1, ProgInvariance, PTL

(* No frame is ever at a block its function does not have. *)
THEOREM OnlyLiftedTheorem == ProgSpec => []OnlyLiftedCodeRuns
<1>1. ProgInv => OnlyLiftedCodeRuns
  BY DEF ProgInv, OnInv, InFunction, OnlyLiftedCodeRuns
<1>2. QED
  BY <1>1, ProgInvariance, PTL
=============================================================================
