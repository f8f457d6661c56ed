---------------------------- MODULE VirtualRegs ----------------------------
(***************************************************************************)
(* VirtualRegsOpt::OptimizeVirtualRegsUsage with GetDrvdValue: the loads   *)
(* and stores of the State become uses of virtual registers, with phi      *)
(* nodes where drvd_rmp asks for them.  A first phase compiles one lifted  *)
(* function, the second one runs the result beside the function it was     *)
(* made from.                                                              *)
(*                                                                         *)
(* Registers are optimised one by one and do not touch each other, so one  *)
(* register is followed, whose number decides whether calls take it and    *)
(* return it.  The graph, the register maps of its blocks and drvd_rmp are *)
(* what FlattenCFG, RemoveLoop and RegBags leave, in closed form.          *)
(***************************************************************************)
EXTENDS Integers, SequencesExt

CONSTANTS
  Block,
  Entry,      \* the entry block of the LLVM function
  Reg,        \* EcvReg::number of the register
  Values,     \* values a semantics function or a callee computes
  Functions   \* the lifted functions Init chooses from

(***************************************************************************)
(* A word of 64 bits is a record of two halves.  A W access zeroes, or     *)
(* does not see, the upper one.                                            *)
(***************************************************************************)
Word == [hi : {0, 1}, lo : {0, 1}]

Cast(v, w) == IF w = 4 THEN [v EXCEPT !.hi = 0] ELSE v

(***************************************************************************)
(* A virtual value of the register: its width and, widened, the value.     *)
(* Width 0 stands for "not in the map".                                    *)
(***************************************************************************)
Value == [width : {0, 4, 8}, word : Word]
Virtual(w, v) == [width |-> w, word |-> Cast(v, w)]
Absent == [width |-> 0, word |-> [hi |-> 0, lo |-> 0]]

(***************************************************************************)
(* What the instructions of a block do with the register, in order.  A     *)
(* pair stores one of the results of a semantics function that returns     *)
(* several, as LDP does: its value is a struct, an array or a vector.      *)
(***************************************************************************)
Op == [op : {"load", "store", "pair"}, width : {4, 8}]
        \cup [op : {"call", "svc"}, width : {0}]

Function == [succ : [Block -> SUBSET Block], code : [Block -> Seq(Op)],
             is_loop : [Block -> BOOLEAN]]

(* CheckPassedArgsRegs and CheckPassedReturnRegs; x0 .. x5 and x8 for SVC.  *)
Passed(op) == IF op = "svc" THEN Reg < 6 \/ Reg = 8 ELSE Reg <= 8
Returned(op) == IF op = "svc" THEN Reg = 0 ELSE Reg <= 1

ASSUME BlockAssumption == IsFiniteSet(Block) /\ Entry \in Block
ASSUME RegAssumption == Reg \in 0 .. 30
ASSUME ValuesAssumption == Values \subseteq Word /\ Values # {}
-----------------------------------------------------------------------------
(***************************************************************************)
(* What the passes before leave of a function f.                           *)
(***************************************************************************)
Closed(f, S) == \A b \in S : f.succ[b] \subseteq S

Reaches(f, b, c) == \A S \in SUBSET Block : b \in S /\ Closed(f, S) => c \in S

Bag(f, b) == {c \in Block : Reaches(f, b, c) /\ Reaches(f, c, b)}

Before(f, b) == {a \in Block : Reaches(f, a, b)} \ Bag(f, b)

Positions(f, b, op) == {i \in DOMAIN f.code[b] : f.code[b][i].op = op}

Stores(f, b) == Positions(f, b, "store") \cup Positions(f, b, "pair")

(* bb_ld_r_mp and bb_str_r_mp of block b. *)
BlockLoad(f, b) ==
  LET loads == {i \in Positions(f, b, "load") : \A j \in Stores(f, b) : i < j}
  IN  IF loads = {} THEN 0 ELSE f.code[b][Min(loads)].width

BlockStore(f, b) ==
  IF Stores(f, b) = {} THEN 0 ELSE f.code[b][Max(Stores(f, b))].width

PresStores(f, b) == Max({0} \cup {BlockStore(f, a) : a \in Before(f, b)})

(***************************************************************************)
(* drvd_rmp.  is_loop of a bag of one block was never set: f says what the *)
(* pass read there.                                                        *)
(***************************************************************************)
NoArgs(f, b) == 0   \* Seeded fault: argument registers are not derived as such.

ArgsDerived(f, b) == IF Passed("call") THEN PresStores(f, b) ELSE 0

Derived(f, b) ==
  LET loop == IF Cardinality(Bag(f, b)) > 1 \/ f.is_loop[b]
              THEN Max({BlockLoad(f, c) : c \in Bag(f, b)}) ELSE 0
      live == IF \E c \in Block : Reaches(f, b, c) /\ BlockLoad(f, c) # 0
              THEN Max({0, PresStores(f, b)} \cup {BlockLoad(f, a) : a \in Before(f, b)})
              ELSE 0
  IN  Max({ArgsDerived(f, b), loop, live})

(* The register is always accessed as X. *)
WholeAccesses(f) ==
  \A b \in Block : \A i \in DOMAIN f.code[b] : f.code[b][i].width \in {0, 8}

HasCall(f, b) == Positions(f, b, "call") \cup Positions(f, b, "svc") # {}

(***************************************************************************)
(* An entry block without code, nothing left to join, and a way to a       *)
(* return from everywhere.  How a call brings the casts of a narrow value  *)
(* up to date is not modelled: W accesses and calls do not mix.            *)
(***************************************************************************)
WellFormed(f) ==
  /\ f \in Function
  /\ WholeAccesses(f) \/ \A b \in Block : ~ HasCall(f, b)
  /\ f.code[Entry] = <<>>
  /\ Cardinality(f.succ[Entry]) = 1
  /\ \A b \in Block : /\ Entry \notin f.succ[b]
                      /\ Reaches(f, Entry, b)
                      /\ \A c \in Block \ {Entry} :
                           f.succ[c] = {b} => \E p \in Block \ {c} : b \in f.succ[p]
                      /\ \E c \in Block : Reaches(f, b, c) /\ f.succ[c] = {}

ASSUME FunctionsAssumption == \A f \in Functions : WellFormed(f)

VARIABLES
  fn,
  pres_str_rmp, drvd_rmp,   \* of the bag of each block
  pc,             \* "compile", "run" or "returned"
  phi_bb_queue, finished,
  phis,           \* blocks that have a phi node for the register
  static,         \* branches <<p, b>> whose phi took the value p had before
                  \* p was optimised
  updated,        \* those of them that a call in p gave its result
  bb, next,       \* the block being run and the next operation in it
  reg,            \* the register in the function as it was lifted
  state,          \* the register in the State of the optimised function
  cur,            \* cur_r_inst_mp
  fresh,          \* the value r_fresh_inst_mp named before bb was optimised
  early,          \* the value of the branches in static but not in updated
  seen            \* the last thing both functions showed, and the two values

analysisVars == <<fn, pres_str_rmp, drvd_rmp>>
compileVars == <<phi_bb_queue, finished, phis, static, updated>>
runVars == <<bb, next, reg, state, cur, fresh, early, seen>>
vars == <<analysisVars, pc, compileVars, runVars>>

Branches == {e \in Block \X Block : e[2] \in fn.succ[e[1]]}

Parents(b) == {p \in Block : b \in fn.succ[p]}

Shown(what, lifted, optimised) ==
  [what |-> what, lifted |-> lifted, optimised |-> optimised]
-----------------------------------------------------------------------------
Init ==
  /\ fn \in Functions
  /\ pres_str_rmp = [b \in Block |-> PresStores(fn, b)]
  /\ drvd_rmp = [b \in Block |-> Derived(fn, b)]
  /\ pc = "compile"
  /\ phi_bb_queue = {Entry}
  /\ finished = {}
  /\ phis = {}
  /\ static = {}
  /\ updated = {}
  /\ bb = Entry
  /\ next = 1
  /\ \E v \in Values : reg = v /\ state = v
  /\ cur = Absent
  /\ fresh = Absent
  /\ early = Absent
  /\ seen = Shown("nothing", reg, reg)

(***************************************************************************)
(* GetDrvdValue makes a phi node in a block that derives the register and  *)
(* does not access it, and asks the parents of that block in turn.         *)
(***************************************************************************)
Accesses(b) == Positions(fn, b, "load") \cup Stores(fn, b) # {}

NeedsPhi(b) == b \notin finished \cup phis /\ drvd_rmp[b] # 0 /\ ~ Accesses(b)

AsksParents(S) == \A b \in S : {p \in Parents(b) : NeedsPhi(p)} \subseteq S

NewPhis(b) ==
  IF drvd_rmp[b] = 0 \/ b \in phis THEN {}
  ELSE {c \in Block : \A S \in SUBSET Block : b \in S /\ AsksParents(S) => c \in S}

(***************************************************************************)
(* The value of the register at the end of b is the one of its last access *)
(* or the phi node of b; the calls behind load the register again and      *)
(* replace that value where it is used.                                    *)
(***************************************************************************)
LastAccess(f, b) == Max({0} \cup Positions(f, b, "load") \cup Stores(f, b))

Reloads(f, b) ==
  {i \in Positions(f, b, "call") \cup Positions(f, b, "svc") :
     i > LastAccess(f, b) /\ Returned(f.code[b][i].op)}

Replaces(b) == Reloads(fn, b) # {} /\ (LastAccess(fn, b) # 0 \/ drvd_rmp[b] # 0)

(* The last access is a pair, or a load of what a pair stored: the load    *)
(* becomes an extract of the pair in front of the calls.                   *)
EndsWithPair(f, b) == LastAccess(f, b) \in Positions(f, b, "pair")

ReadsPair(f, b) ==
  \E i \in Positions(f, b, "pair") :
    /\ i < LastAccess(f, b)
    /\ \A j \in i + 1 .. LastAccess(f, b) :
         \/ f.code[b][j].op = "load"
         \/ f.code[b][j].op \in {"call", "svc"} /\ ~ Returned(f.code[b][j].op)

(***************************************************************************)
(* The branches from b, of those in early, that have the result of the     *)
(* last call in the end.  The first call replaces the extracts of a pair   *)
(* everywhere.  Of any other value, that of a load is one, a call replaces *)
(* the first use that does not lie before it, as the phi node of b itself  *)
(* does, and goes on with the uses of its own result.  It does not see the *)
(* extract a load behind a pair became.                                    *)
(***************************************************************************)
Updates(b, branches) ==
  LET behind == branches \ {<<b, b>>}
  IN  IF ~ Replaces(b) \/ ReadsPair(fn, b) THEN {{}}
      ELSE IF EndsWithPair(fn, b) /\ Cardinality(Reloads(fn, b)) = 1 THEN {branches}
      ELSE IF behind = {} THEN {{}} ELSE {{e} : e \in behind}

(***************************************************************************)
(* A block is optimised.  Blocks inserted on branches for the sake of      *)
(* other registers change the order of the queue: any order is allowed.    *)
(***************************************************************************)
Optimize(b) ==
  /\ pc = "compile"
  /\ b \in phi_bb_queue
  /\ phis' = phis \cup NewPhis(b)
  /\ static' = static \cup {e \in Branches : e[2] \in NewPhis(b) /\ e[1] \notin finished}
  /\ \E branches \in Updates(b, {e \in static' : e[1] = b}) :
       updated' = updated \cup branches
  /\ finished' = finished \cup {b}
  /\ phi_bb_queue' = (phi_bb_queue \cup fn.succ[b]) \ finished'
  /\ UNCHANGED <<analysisVars, pc, runVars>>

Compiled ==
  /\ pc = "compile"
  /\ phi_bb_queue = {}
  /\ pc' = "run"
  /\ UNCHANGED <<analysisVars, compileVars, runVars>>
-----------------------------------------------------------------------------
(***************************************************************************)
(* The optimised function, operation by operation.                         *)
(***************************************************************************)
Runs(op) ==
  /\ pc = "run"
  /\ next \in DOMAIN fn.code[bb]
  /\ fn.code[bb][next].op = op
  /\ next' = next + 1
  /\ UNCHANGED <<analysisVars, pc, compileVars, bb>>

width == fn.code[bb][next].width

(* A load is replaced by the cast of the value there is. *)
LoadedValue(w) == IF cur = Absent THEN Virtual(w, state) ELSE Virtual(w, cur.word)

(* r_fresh_inst_mp as the passes before left it: a wider value is kept.    *)
FirstAccess == \A i \in 1 .. next - 1 : fn.code[bb][i].op \in {"call", "svc"}

Load ==
  /\ Runs("load")
  /\ cur' = IF cur = Absent THEN LoadedValue(width) ELSE cur
  /\ fresh' = IF FirstAccess \/ fresh.width <= width THEN LoadedValue(width) ELSE fresh
  /\ early' = fresh'
  /\ seen' = Shown("load", Cast(reg, width), LoadedValue(width).word)
  /\ UNCHANGED <<reg, state>>

(* The store to the State is erased. *)
Store(op) ==
  /\ Runs(op)
  /\ \E v \in Values :
       /\ reg' = Cast(v, width)
       /\ cur' = Virtual(width, v)
  /\ fresh' = cur'
  /\ early' = cur'
  /\ UNCHANGED <<state, seen>>

(***************************************************************************)
(* Before a call the arguments are stored, the State at its full width;    *)
(* after it the registers a call returns are loaded again, if there is a   *)
(* value to replace.  A callee changes no other register.  The extracts    *)
(* that phi nodes took of a pair are replaced by the first result.         *)
(***************************************************************************)
NotStored(op) == state   \* Seeded fault: arguments are not stored.

StoredFor(op) == IF Passed(op) /\ cur # Absent THEN cur.word ELSE state

KeepCur(v) == cur   \* Seeded fault: the result is not loaded.

Reloaded(v) == IF cur = Absent THEN Absent ELSE Virtual(8, v)

ReplacesExtracts(i) == EndsWithPair(fn, bb) /\ Reloads(fn, bb) \cap (1 .. i) = {i}

Call(op) ==
  /\ Runs(op)
  /\ IF Returned(op)
     THEN \E v \in Values : reg' = v /\ state' = v /\ cur' = Reloaded(v)
     ELSE UNCHANGED <<reg, cur>> /\ state' = StoredFor(op)
  /\ seen' = IF Passed(op) THEN Shown("call", reg, StoredFor(op)) ELSE seen
  /\ early' = IF ReplacesExtracts(next) THEN cur' ELSE early
  /\ UNCHANGED fresh

(* Results are stored, and arguments that were stored in blocks before.    *)
NoResult == state   \* Seeded fault: results are not stored.

StoredForReturn ==
  IF cur # Absent /\ (Returned("call") \/ (Passed("call") /\ pres_str_rmp[bb] # 0))
  THEN cur.word ELSE state

Return ==
  /\ pc = "run"
  /\ next \notin DOMAIN fn.code[bb]
  /\ fn.succ[bb] = {}
  /\ state' = StoredForReturn
  /\ seen' = IF Returned("call") THEN Shown("return", reg, state') ELSE seen
  /\ pc' = "returned"
  /\ UNCHANGED <<analysisVars, compileVars, bb, next, reg, cur, fresh, early>>

FromState(b) == Virtual(drvd_rmp[b], state)   \* Seeded fault.

(***************************************************************************)
(* The extract made at the end of b for one branch is what the walk over b *)
(* meets last: the branches that ask when b is optimised get it too.       *)
(***************************************************************************)
LeavesExtract(b) == EndsWithPair(fn, b) /\ \E e \in static : e[1] = b

(* The value of the phi node of b for the branch from bb. *)
Incoming(b) ==
  LET w == drvd_rmp[b]
      from == IF <<bb, b>> \in updated THEN cur
              ELSE IF <<bb, b>> \in static THEN early
              ELSE IF LeavesExtract(bb) THEN fresh ELSE cur
  IN  IF from = Absent THEN Virtual(w, state) ELSE Virtual(w, from.word)

Jump(b) ==
  /\ pc = "run"
  /\ next \notin DOMAIN fn.code[bb]
  /\ b \in fn.succ[bb]
  /\ bb' = b
  /\ next' = 1
  /\ cur' = IF drvd_rmp[b] = 0 THEN Absent ELSE Incoming(b)
  /\ fresh' = cur'
  /\ early' = cur'
  /\ UNCHANGED <<analysisVars, pc, compileVars, reg, state, seen>>

Done == pc = "returned" /\ UNCHANGED vars

Next ==
  \/ \E b \in Block : Optimize(b) \/ Jump(b)
  \/ Compiled
  \/ Load
  \/ \E op \in {"store", "pair"} : Store(op)
  \/ \E op \in {"call", "svc"} : Call(op)
  \/ Return
  \/ Done

Spec == Init /\ [][Next]_vars
-----------------------------------------------------------------------------
(***************************************************************************)
(* Functions the optimiser is right about.  The others are what the runs   *)
(* that find a violation are about.                                        *)
(***************************************************************************)
(* Block b reads what the register holds when b is entered. *)
Reads(f, b) ==
  LET reads == Positions(f, b, "load")
                 \cup (IF Passed("call") THEN Positions(f, b, "call") ELSE {})
                 \cup (IF Passed("svc") THEN Positions(f, b, "svc") ELSE {})
  IN  \/ \E i \in reads : \A j \in Stores(f, b) : i < j
      \/ Returned("call") /\ f.succ[b] = {} /\ Stores(f, b) = {}

ReadBehind(f, b) == \E c \in Block : Reaches(f, b, c) /\ Reads(f, c)

OnCycle(f, b) == Cardinality(Bag(f, b)) > 1 \/ b \in f.succ[b]

(* A register a loop stores, and that is read in it or behind it, is one   *)
(* the loop derives.                                                       *)
LoopsDerive(f) ==
  \A b \in Block :
    /\ OnCycle(f, b)
    /\ \E c \in Bag(f, b) : BlockStore(f, c) # 0
    /\ ReadBehind(f, b)
    => Derived(f, b) # 0

Supported(f) == WholeAccesses(f) /\ LoopsDerive(f)

(***************************************************************************)
(* Branches whose phi node keeps a value from before a call of the block   *)
(* that returned the register.                                             *)
(***************************************************************************)
StaleBranches ==
  {e \in Branches :
     /\ drvd_rmp[e[2]] # 0
     /\ Replaces(e[1])
     /\ IF e \in static THEN e \notin updated ELSE LeavesExtract(e[1])}

(* Which order the blocks come in decides about these branches, unless a   *)
(* call that returns the register has an access behind it in its block, or *)
(* one branch that does not lead back.                                     *)
OneWay(f) ==
  \A b \in Block :
    Reloads(f, b) # {} =>
      ~ ReadsPair(f, b) /\ \E c \in Block \ {b} : f.succ[b] \subseteq {c}
-----------------------------------------------------------------------------
(***************************************************************************)
(* Properties.                                                             *)
(***************************************************************************)
TypeOK ==
  /\ fn \in Function
  /\ pres_str_rmp \in [Block -> {0, 4, 8}]
  /\ drvd_rmp \in [Block -> {0, 4, 8}]
  /\ pc \in {"compile", "run", "returned"}
  /\ phi_bb_queue \subseteq Block
  /\ finished \subseteq Block
  /\ phis \subseteq Block
  /\ static \subseteq Block \X Block
  /\ updated \subseteq static
  /\ bb \in Block
  /\ next \in 1 .. Len(fn.code[bb]) + 1
  /\ reg \in Word
  /\ state \in Word
  /\ cur \in Value
  /\ fresh \in Value
  /\ early \in Value
  /\ seen \in [what : {"nothing", "load", "call", "return"}, lifted : Word, optimised : Word]

(* Every load of the optimised function yields what it yielded before.     *)
LoadsAgree == seen.what = "load" => seen.lifted = seen.optimised

(* Every callee finds in the State the arguments it found before.          *)
ArgumentsAgree == seen.what = "call" => seen.lifted = seen.optimised

(* The caller finds in the State the result it found before.               *)
ResultsAgree == seen.what = "return" => seen.lifted = seen.optimised

(***************************************************************************)
(* The register is where the optimised function looks for it, in its       *)
(* virtual value or, without one, in the State; or nothing will look.      *)
(***************************************************************************)
StoredInBlock == \E i \in Stores(fn, bb) : i < next

RegisterIsKept ==
  pc = "run" =>
    \/ reg = IF cur = Absent THEN state ELSE cur.word
    \/ ~ ReadBehind(fn, bb) /\ ~ StoredInBlock

(***************************************************************************)
(* The same where no phi node was left behind by a call, which is what a   *)
(* supported function can rely on.                                         *)
(***************************************************************************)
(* Every load of the optimised function yields what it yielded before.     *)
SoundLoads == LoadsAgree \/ StaleBranches # {}

(* Every callee finds in the State the arguments it found before.          *)
SoundArguments == ArgumentsAgree \/ StaleBranches # {}

(* The caller finds in the State the result it found before.               *)
SoundResults == ResultsAgree \/ StaleBranches # {}

(* The register is where the optimised function looks for it.              *)
SoundRegister == RegisterIsKept \/ StaleBranches # {}

(***************************************************************************)
(* Before a call, a SVC and a return an argument that blocks before stored *)
(* has a virtual value: cache_map.at would throw.                          *)
(***************************************************************************)
ArgumentsAreCached ==
  pc = "run" /\ Passed("call") /\ pres_str_rmp[bb] # 0 => cur # Absent
=============================================================================
