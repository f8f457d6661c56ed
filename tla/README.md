# elfconv in TLA+

elfconv compiles an aarch64 ELF binary ahead of time: every function of the
symbol table is decoded and lifted to an LLVM function (with the semantics of
remill), the guest's registers, which live in a `State` structure, are promoted
to virtual registers, and the module is linked with a small runtime that gives
the program its memory, its dispatch of indirect jumps and its system calls.
This directory holds the models of that program, their TLC runs and their
proofs. Paths below are relative to `src/`.

## The system

| component | code | state | operations | interacts with |
|---|---|---|---|---|
| main lifter | `lifter/Lift.cpp`, `lifter/MainLifter.cpp` | the LLVM module, the list of functions | the loop over the functions, tables and names written into the module | calls Lift for every function, then Optimize |
| trace manager | `lifter/TraceManager.cpp` | `disasm_funcs`, `memory`, `traces` | SetELFData, IsFunctionEntry, GetFuncVMA_E, SetLiftedTraceDefinition, TryReadExecutableByte | filled from the ELF loader, asked by Lift |
| ELF loader | `lifter/Binary/Loader.cpp` | sections, symbols | LoadELF | read by the trace manager |
| lifting loop | `backend/remill/lib/BC/TraceLifter.cpp:299-962` | `trace_work_list`, `inst_work_list`, the blocks of the function, `bb_parents` | Lift | asks the trace manager, feeds the register analysis |
| instruction lifter | `backend/remill/lib/BC/InstructionLifter.cpp` | the loads, stores and latest value of each register in a block | LiftIntoBlock | called by Lift for each instruction |
| block joining | `TraceLifter.cpp:1677-1753`, `InstructionLifter.cpp:423-456` | `bb_queue`, `visited`, `bb_parents`, register maps | AnalyzeRegsBags (first half) | between Lift and the loop removal |
| loop removal | `TraceLifter.cpp:1014-1220` | `bag_stack`, `visited`, `finished`, `converted_bag`, the graph of bags | RemoveLoop | its bags are the nodes of the data flow |
| register data flow | `TraceLifter.cpp:1271-1520` | `pres_*`, `sucs_*` and `drvd_rmp` of each bag, work lists and counters | GetPhiRegsBags | its `drvd_rmp` decides where phi nodes are made |
| passed registers | `TraceLifter.cpp:1597-1634` | `func_stack`, `finished`, `passed_caller_reg_map` | CalPassedCallerRegForBJump | from the B instructions the lifting loop met, for the promotion |
| register promotion | `TraceLifter.cpp:1918-2810` | the latest value of each register per block, phi nodes | OptimizeVirtualRegsUsage, GetDrvdValue | replaces loads and stores of the `State` |
| runtime entry and dispatch | `runtime/Entry.cpp`, `runtime/VmIntrinsics.cpp` | function and block tables, `vma_cache`, the host's stack | main(), BLR, BR, error and missing blocks | tables written by the main lifter, called by the lifted code |
| guest memory | `runtime/Memory.cpp`, `runtime/Runtime.cpp` | areas of guest memory, `heap_cur` | TranslateVMA, stack set-up | used by memory intrinsics and system calls |
| system calls | `runtime/syscalls/*` | `heap_cur`, host files | the switches for the three platforms: brk, mmap, exit, calls passed to the host | called by the lifted SVC |
| decoders, semantics | `backend/remill/lib/Arch` | none | decoding | vendored and generated |

Everything runs on one thread. What is hard here is not concurrency but work
lists and graphs that are changed while they are walked: a function or a block
exists long before it is complete, a bag is merged into another one while
pointers to it wait on a stack, counters decide when a pass may go on, and the
results of all this are only visible as a value that a register has, or has
not, in the compiled program. What the lifter leaves behind is run much later
by a runtime that knows only its tables, and whose call stack stands for the
guest's. A test compiles a C program and compares its
output; it exercises few of the shapes a control flow graph can have. The
`hazards` of `PROJECT.json` list the places.

### What makes each component correct

* **Trace manager**: the functions it names are mapped intervals the lifter can
  use; in a file whose sections start with a symbol every instruction belongs to
  one function and has its own bytes; the entry function has the name main()
  looks for.
* **Lifting loop**: every function is lifted exactly once whatever the order;
  its graph is the graph of the instructions control reaches, without holes;
  the table of block addresses of a function with a BR is complete;
  `bb_parents`, the second copy of the edges, agrees with the branches, which in
  a function with a BR it does but for branches out of the indirectbr; the
  definition main() asks for exists.
* **Block joining**: no erased block is used again, `bb_parents` stays exact,
  nothing is lost, nothing that can be joined is left.
* **Loop removal**: the bags that are left are the strongly connected
  components; their graph is acyclic and its edges are those of the blocks;
  `bag_num` counts them; their registers are those of their blocks.
* **Data flow**: both passes end and forget no bag; a register that is live and
  was accessed before is derived.
* **Passed registers**: a function is passed what every function it leads to by
  B is passed, and the search ends.
* **Promotion**: the optimised function loads, passes and returns the values the
  lifted one does.
* **Dispatch**: the lifted program takes only steps the guest program takes, up
  to the few instructions for which the lifter promises nothing, and goes on as
  long as that one does; an address that the guest can branch to is
  found in the tables.
* **Memory and system calls**: sections, stack, break and mappings have bytes of
  their own; a system call is answered by its own case.

## The modules

| module | models | state and actions in the code |
|---|---|---|
| `GuestBinary` | a binary as the trace manager shows it to the lifter | data only |
| `FunctionTable` | `SetELFData` | `FindSection` and `Assign` are the loop over the symbols, one turn of it in two halves; `PltBlock` a turn of the loops over `.plt` and `.iplt`; `DefineWrapMain` the search for the branch to main; the loader's sections and symbols are the input |
| `TraceLifter` | main()'s loop, `TraceLifter::Impl::Lift`, the trace manager's queries | an address is the index of an instruction; `LiftCall`/`LiftReturn` are the call in main() and its return, `SkipTrace`, `StartTrace`, `FinishTrace` the outer loop, `SkipInsn`, `TailCallTrace`, `MissingBlock` the early exits of the inner one, `LiftPlain`, `LiftDirectJump`, `LiftIndirectJump`, `LiftDirectCall` the cases of its switch |
| `LifterSpec` | what the lifter promises, in one step per function: the graph of the reachable instructions | none, it is the specification |
| `LifterRefinement` | the refinement mapping from `TraceLifter` to `LifterSpec` | a definition counts when main() has it |
| `FlattenCFG` | the joining of blocks in `AnalyzeRegsBags`, `join_reg_info_node` | `Keep` and `Join` are the two ways through the body of the loop over `bb_queue` |
| `RemoveLoop` | `PhiRegsBBBagNode::RemoveLoop` with `MergeOwnRegs`, `MergeFamilyBags`, `GetTrueBag` | one action per way through the loop over `bag_stack`, `MoveBag` per merged bag, `Normalize` for the final pass |
| `RegBags` | `GetPrecedingVirtualRegsBags`, `GetSucceedingVirtualRegsBags`, `GetPhiRegsBags` | the three passes one after another, an action per way through each loop |
| `PassedRegs` | `CalPassedCallerRegForBJump` | one action per way through the loop over `func_stack`; the stack may outgrow memory |
| `VirtualRegs` | `OptimizeVirtualRegsUsage`, `GetDrvdValue`, `GetRegValueFromCacheMap`, `CastFromInst` | `Optimize` is one round of the loop over `phi_bb_queue`; then the lifted and the optimised function are run side by side, an action per operation that touches the register |
| `Program` | the lifting loop, then `Entry.cpp` and the dispatch of `VmIntrinsics.cpp` over what it has left | `Load` is the start of main() up to the call of the entry function; `Branches`, `DirectCall`, `FunctionCall`, `IndirectJump`, `TailCall`, `FunctionReturn`, `ExitCall`, `ReturnFromExitCall`, `Error`, `Missing` are the ends a lifted block can have |
| `GuestControl` | what a guest program does with its program counter, read from its instructions | none, it is the specification of `Program` |
| `SystemCalls` | `SVCNativeCall`, `SVCWasiCall`, `SVCBrowserCall`, TranslateVMA, brk and mmap | one step per `case`, so that a case without `break` runs into the next one |

`MC*` modules hold the instances TLC checks, `*_proofs` modules the theorems.
The modules follow one another as the code does. `FunctionTable` ends with a
table of which `LifterCanUseIt` says that it is `WellFormed`, and `WellFormed`
is what `TraceLifter` assumes of its binaries. `TraceLifter` leaves blocks,
`bb_parents` and the B instructions of each function; `PassedRegs` follows the
B instructions; `FlattenCFG` joins the blocks, `RemoveLoop` turns them into
bags, `RegBags` computes `drvd_rmp`, `VirtualRegs` uses it. These passes do not
share variables, because none goes back to an earlier one, and what a module
assumes of its input is what the module before it shows of its output: graphs
whose parents are exact (`ParentsAreBranches`, `ParentsAreExact`; only functions
without a BR are analysed, TraceLifter.cpp:944), acyclic bags
behind one root (`BagsAreLoops`, `BagGraphIsAcyclic`), register maps that are
exact (`BlockRegsAreExact`, `OwnRegsAreTheBlocks`). `VirtualRegs` uses the
results of the passes before it in closed form, so that a function with real
register contents stays small enough to be run. `Program` is a composition in
the proper sense: it extends the lifting loop with the runtime, shares its
`defs`, and the same behaviour lifts the binary and then runs it.

There are two abstract specifications. `LifterSpec` says what a lifted function
is; `Program` implements it while it lifts (`KeepsThePromise`). `GuestControl`
says what the program does that was lifted; `Program` implements it while it
runs (`FollowsGuest`), with `PC <- at` and the guest's open calls as the
mapping of the host's frames.

`GuestControl` is read from the instructions alone, so it shows where the
lifted program does something else. Its promise ends at the instructions
`Unpromised` names, and nowhere else:

* code that is not mapped (a missing block returns to the caller);
* a BL to what is no function, which the lifter takes for a `nop`
  (TraceLifter.cpp:619-622), and a BL to a function right behind it, whose call
  is left out by the same test;
* a system call in front of another function, which the lifter takes for one
  that does not come back (TraceLifter.cpp:550-553): if it does, the lifted
  function returns to its caller. `exit_group` with another host's number is
  such a call.

The ghost variable `strayed` of `Program` is set by the three steps that do not
do what the guest does (`IgnoredCall` in `Branches`, `ReturnFromExitCall`,
`Missing`). `FollowsGuest` maps a program that strayed to the status "lost",
which the guest can reach only at an unpromised instruction; to set it anywhere
else would violate the property. A full host stack may end the guest at any
call or jump, and a BR or BLR to what is no address of code ends it (`Fault`),
where `ErrorsAreJustified` says which addresses those may be.

## The runs and their bounds

| run | instances | what it shows |
|---|---|---|
| `function_table` | 6 addresses, 4 layouts of `.init`, `.text`, `.plt` and `.iplt` (one with a hole, one with overlapping sections), every set of symbols with at most one alias, 3 patterns of code, 3 entry points; 132,996 states | the table is fit for the lifter, names the entry function, gives each instruction to one function; it fails or reads out of bounds only for the reasons in `EndsAreJustified` |
| `trace_lifter` | all binaries of 4 instructions in 3 layouts (two functions side by side, one nested in another, a gap between them); 186,032 states | no holes, complete tables, parents that are branches, each function lifted once, whatever order the unordered map gives; lifting ends |
| `program` | binaries of 3 instructions (one function nested in another, a gap, three functions of one instruction that call and leave to each other), room for 2 open calls; 145,937 states | the lifting loop implements `LifterSpec`; the program it leaves implements `GuestControl` up to `Unpromised`, goes on as long as the guest does, and fails only on addresses that are not there |
| `flatten_cfg` | all graphs of 4 blocks of out-degree at most 2, 2 registers, 2 widths; 152,379 states | what is joined, what it leaves in the maps, no erased block in the queue |
| `remove_loop` | the 3148 graphs of 4 blocks of out-degree 1 or 2 between an entry and an exit; 52,730 states | the bags that are left are exactly the loops |
| `reg_bags` | all acyclic graphs of 4 bags behind the entry whose loops have an exit, 3 profiles of accesses, 2 registers, widths 4 and 8; 183,456 states | both passes end, no bag is forgotten, what is live is derived |
| `passed_regs` | all maps of three callers with at most two B each among 4 functions, in every order, a stack of 10; 83,217 states | a finished function has the registers of all it leads to; only a circle of B instructions makes the search endless |
| `virtual_regs` | 8 shapes of graphs, 5 kinds of blocks, or 4 with results of several values in front of calls, a register that is argument and result, 2 values; 352,354 states | the optimised function loads, passes and returns what the lifted one does, unless a call left a phi node behind |
| `system_calls` | a heap of 4 units, 2 tables of sections (one with `.tbss`), lengths 1 and 2, at most 2 calls of mmap, three platforms; 348,388 states | areas keep apart until brk follows mmap; a call is answered by its own case except where a `break` or a number is missing |
| `virtual_regs_narrow`, `virtual_regs_loop`, `system_calls_brk` | one more kind of input each | the findings below |

Four instructions are enough for two functions with a branch into, over and out
of each other, a conditional branch with both sides, a BR with a block that is
only in its table, and a nested function that is reached from both sides. Three
are enough for a running program: a call, a tail call into a third function and
a return need one instruction each, and two open calls tell the innermost from
the others. Four
blocks between entry and exit hold two overlapping loops, a loop in a loop, an
irreducible loop and a diamond; three levels of merges occur. A pass over bags
needs a diamond with a bag behind it, which four bags have. Four functions have
a circle with a way in and a way out, and each push adds at most two entries to
the stack, so ten are reached only by going round. The word of
`VirtualRegs` has two bits, one per half, because W and X accesses are the only
ones that tell the halves apart. A heap of four units holds a break and two
mappings of different lengths, and the addresses of all areas, which is where
the comparisons of TranslateVMA can be off by one.

The bounds are in the `MC` modules and the `.cfg` files. Three bounds are
constants of the modules: `StackSize` of `Program` (the host's stack is finite;
any value), `MaxStack` of `PassedRegs` (so is memory), `MaxMaps` of
`SystemCalls` (the number of mmap calls). No run uses symmetry: blocks and
functions are told apart by the graph.

## Fairness

elfconv is one thread and no step waits for anything outside, so a pass takes
its next step if it has one: weak fairness of the next-state relation is all
there is, and `LiftingEnds`, `SearchEnds` and `FlatteningEnds` say that the
passes end; `AnalysisEnds` says it of both passes of the data flow. `Program`
has two parts, the compiler and the program it makes, each one thread with its
own weak fairness. A lifted program goes on by itself: no step of the runtime
waits, and an overflow of the host's stack is not something that has to happen,
so `Advance` without `TailCallsOverflow` is what is fair. `GoesOn` says that the
abstract guest program's own fairness (`Live` of `GuestControl`: it starts, and
it takes a step whenever it can) is implemented. `VirtualRegs`, `PassedRegs`,
`FunctionTable` and `SystemCalls` state no liveness: a program may loop for
ever, a search may not end (which is `OnlyLoopsAreEndless`), a walk over
symbols or a PLT gets shorter with each turn. Deadlock is checked in every run;
passes that are done stutter in `Done`, a program that has ended in the step for
its end.

## What the runs found

1. `virtual_regs_narrow`: a register that is first read as W is carried on with
   32 bits, and a later read as X gets zeros for the upper half.
2. `virtual_regs_loop`: a register that is stored at the top of a loop, which is
   left at its end, is read behind it from the `State`, whose store is gone.
3. `system_calls_brk`: `brk` and `mmap` move the same `heap_cur`. A guest that
   moves its break after an mmap has the break over its mapping.

Other places where the code does less than one would wish are conditions of the
passing runs, each named where it is stated:

* A call that returns a register can leave a phi node with the value from before
  it. `StaleBranches` of `VirtualRegs` names the branches this happens on, and
  `SoundLoads`, `SoundArguments`, `SoundResults` and `SoundRegister` say what holds
  when there are none. There are four ways:
  a phi node of the block itself lies before the call and is passed over
  (TraceLifter.cpp:2123-2126); the loop over the users goes on with the uses of
  the new value once it has rewritten one, so that of several phi nodes that took
  the old value early one is brought up to date (2159-2164; the comment at 2119
  says "run every user instruction"); the extract of a result of several values
  that was made early stays behind the call (its erasure at 2134 is a comment)
  and becomes the current value again, which later branches take (2030-2037,
  2625-2657); and a load behind such a result becomes an extract in front of the
  call (1894-1910), which the call does not see. An example: block 1 has `ldp
  x0, x1` and then a call, 1 branches to 2 and 3, 2 to 3 and 3 back to 1. Block 3
  takes its value early; 2 asks when 1 is optimised, and gets the pair's result
  instead of the call's. With `LoadsAgree` in the place of `SoundLoads` the run
  `virtual_regs` shows it. `OneWay` says in which functions there are no such
  branches, whatever order the blocks come in: behind the last call that returns
  the register, its block goes on in one way, and not to itself.
* `GetSucceedingVirtualRegsBags` merges a bag's own loads into its successors'
  once per child. A merged loop without exit has no child and loses the loads of
  all its blocks but the one it started from; `RegBags` is run on the graphs
  whose loops have an exit.
* The comment at `TraceLifter.h:159` gives a formula for `drvd_rmp` that is not
  the one computed; `LiveRegsAreDerived` in `RegBags` says what holds.
* `CalPassedCallerRegForBJump` does not end when functions B to each other.
* In a section that does not start with a symbol, the walk of `SetELFData`
  leaves the section; `EndsAreJustified` and `EveryInsnHasItsFunction` say what
  remains true.
* `dup`, `ioctl`, `getrusage` and `wait4` have no `break` on some platforms, and
  exit_group reaches another host call where numbers differ; `AnswersItself`
  names them.

## What is proved

The theorems hold for every value of the constants: all binaries and layouts,
all ELF files, all control flow graphs, any number of blocks, registers,
functions, sections and mappings. Each rests only on the assumptions its module
names (`ASSUME`), which TLC evaluates in the runs.

**`Program_proofs`, the lifting loop**, from `Spec` and the assumptions of `TraceLifter` (at
least one address; every binary well formed; two markers that are no
addresses). The invariants speak of finished functions, so they are not
inductive: a function becomes a definition in the one step `FinishTrace`, and
what it then is was decided many steps before. `IInv` is `TypeOK`, `DraftInv`,
`MainInv` and `DefsInv`. `DraftInv` is about the function being lifted: a block
without a terminator is on `inst_work_list`, successors are blocks, only a tail
call stands at another function's first instruction, once a BR was met every
instruction of the function is a block or waits to become one, and `bb_parents`
is the inverse of the edges so far; `FinishTrace` adds to it what it records of
the indirectbr, and `ParentsTheorem` says what is then missing. `MainInv` says where the function main()
asked for stands in the trace loop, and `DefsInv` is the conjunction of the
invariants about definitions. At `FinishTrace` the work list is empty, and
`DraftInv` becomes `DefsInv` for the new definition.
`TypeCorrect`, `NoHolesTheorem`, `BranchTableTheorem`, `ParentsTheorem`,
`DeclaredTheorem`, `NoOverrunTheorem`, `LiftDefinesTheorem` and the action
property `NeverReliftedTheorem` follow from it. `DeclaredAreDefined` and
`LiftDefinesItsFunction` are proved only.

**`Program_proofs`, the refinement of `LifterSpec`** adds to `IInv` that every block that has a
terminator has the one its instruction asks for (`Honoured`), in the function
being lifted and in the finished ones, and that nothing is on `inst_work_list`
that control does not reach. Finished blocks are therefore closed under the
flow of control and part of the least closed set: they are that set
(`TranslationTheorem`, `FinishIsTranslation`). Each step of the loop maps to a
stutter or, where main() gets a definition, to a step of `LifterSpec`, which
states no fairness: that every function gets its turn is `LiftingEnds`.

**`Program_proofs`, the running program**, stands on both. `ProgInv` is `ProgTypeOK`, `OffInv` (before
the program runs there is no frame), `OnInv` (once it runs the lifter is done,
the tables are those of the finished functions, and the running block and every
waiting one are blocks of their functions) and `ReportInv`. With `Honoured`, the
block that runs ends as the instruction at `PC` says, and one lemma per action
shows the step of `GuestControl` it is, or that it is none: a tail call keeps
the guest's stack, because the frame it leaves has nothing to do. The steps that
set `strayed` are shown to be taken at an instruction `Unpromised` names.
`FollowsGuestTheorem`, `ErrorsTheorem` and `OnlyLiftedTheorem` follow.
`LifterFirst` carries what is proved of `TraceLifter` over to `Program`.

**`FunctionTable_proofs`**, for all files the loader can hand on. `TInv` says
that the symbols that are left lie below the last function, that functions are
not empty and their bytes are mapped, and that nothing is mapped at the top;
`LifterCanUseItTheorem` follows. `EntryIsNamedTheorem` needs `EntryIsFound`,
which follows the entry point's symbol through the walk; `EndsAreJustifiedTheorem`
needs `HInv`, what the walk has behind it in each section; `EveryInsnTheorem`
needs `OInv`, that the functions so far own each instruction once and that those
that are not owned yet lie below the walk.

**`PassedRegs_proofs`**, from `Spec` and the assumptions of `PassedRegs` (finitely
many functions). `PInv` is the type, `FinishedIsClosed` and
`PassedIsWhatIsReached`. A function is finished only when all it jumps to is, so
the finished functions are closed under B, and what one of them reaches is
itself and what its callees reach (`ReachStep`); with circles too, since a
circle is never finished. That only a circle makes the search endless
(`EndlessTheorem`) is a matter of counting. A position of the stack is opened
when the callees of its function were pushed above it; all that is above an
opened position is reached from its function. Without a circle no function is
opened at two positions, and above an opened one there are at most its own B
instructions before the next, so the stack is never longer than the callers
plus `K` entries for each of them, `K` being the longest list (`OpenedInv`). The
theorem asks for a stack with that room (`EnoughMemory`): with less, the search
could run out of it without a circle. The instance of `passed_regs` has it
(three callers and two entries each fit in ten). In the other direction no
function on a circle is ever finished, so that a search that is done met none.

**`SystemCalls_proofs`**. `SInv` is the type of the memory and, until brk follows
mmap (`mixed`), `BreakIsBelow` and `MapsAreStacked`: the mappings lie one above
the other between the break and `heap_cur`. The lemmas `AddressesAreApart` and
`AddressHasItsByte` show that TranslateVMA takes different addresses to different
bytes, whatever the sections are; `BytesTheorem` follows. `AnswersTheorem` needs
only that the switch is at the case of the call or went on from one without a
`break` (`AnswerInv`).

**`RemoveLoop_proofs`**, from `Spec` and the assumptions of `RemoveLoop` (finitely
many bags with their numbers, a control flow graph). `IInv` is `TypeOK`,
`StackInv` and `MergeInv` (of every entry of the stack, and of the merge under
way: the bags on the path reach the next ones and the entry's bag in the
control flow graph, and what the entry has visited is on its path), `EdgesInv`
(an edge of the graph of bags stands for a path of the control flow graph),
`PartitionInv` (the bags that are left partition the blocks, and `GetTrueBag`
finds the one a block is in), `OwnRegsAreTheBlocks`, `BagNumCounts` and
`MergedBlocksAreLoops`. The entries of the stack name bags that are merged away
while they wait; the invariant is therefore stated of the blocks the bags
started from, whose graph never changes. From it follow that only blocks on a
common cycle are merged (`MergesAreSound`), that a merge finds its target on the
path (`PathTheorem`: the `CHECK` in the code cannot fail), that the registers of
a bag are those of its blocks at every moment (`OwnRegsTheorem`) and that
`bag_num` is right (`BagNumTheorem`).

That no loop is missed is the other half, and the one that is not obvious,
because a bag is finished although it is not pushed again behind its children:
it is finished when it is met again. `CInv` says that what a finished bag leads
to is finished and that the bag is a whole strongly connected component
(`FinishedInv`), that the edges of the bags, followed through `true_bag`, are
exactly those of the blocks (`ExactInv`), and that every block the entry reaches
is in a complete bag or reached from a bag that still waits on the stack
(`SearchedInv`). With an empty stack every bag is complete. `LoopsTheorem` and
`AcyclicTheorem` have the condition `EveryBlockIsReached`, since nothing can be
said of blocks the search never sees; the lifter makes blocks only for
instructions that control reaches (`KeepsThePromiseTheorem`), and joining keeps it so (`FitTheorem` of
`FlattenCFG_proofs`). `FitTheorem` of `RemoveLoop_proofs` says that the result is
a graph as `RegBags` assumes it.

**`FlattenCFG_proofs`**, from `Spec` and the assumptions of `FlattenCFG` (finitely
many blocks, control flow graphs in which the entry block has one successor and
nothing leads back to it). `IInv` is `TypeOK`, `ParentsAreExact`, `QueueInv`,
`EndsInv`, `JoinsAreSound` and `RegsInv`. The code erases blocks while it holds
others in `bb_queue`, and a queued block that had been erased would be used after
its end; that it is not takes `QueueInv`: no queued block is the only successor
of its only parent. A block gets into the queue only in the turn of a parent,
and in that turn a block that can be joined is joined and not queued. `EndsInv`
says that a block is named for its first instruction and branches where its
last one does, which ties the graph of blocks to the one before the pass. The
maps are proved exact through three predicates over the sequence of a block
(`Loaded`, `Stored`, `Latest`) that are preserved by concatenation
(`JoinedLoads`, `JoinedStores`, `JoinedFresh`). `TypeCorrect`, `ParentsTheorem`,
`QueueTheorem`, `JoinsTheorem`, `RegsTheorem` and `FreshTheorem` follow. That
nothing is left to join (`NothingLeftTheorem`) adds `VisitInv`: a visited block
that is not queued again cannot be joined, and what it branches to was visited or
is queued. `FitTheorem` says what is handed on: the entry block still reaches every block.

**`RegBags_proofs`**, from `Spec` and the assumptions of `RegBags` (finitely many
bags in the order of their addresses, acyclic graphs behind the root). The code
counts finished parents and finished children; `CountInv` says what is counted,
so a bag is finished after all its parents (`OrderInv`; in the second pass, after
all its children), and its own registers and theirs, which are complete
(`PrecedingInv`, `SucceedingInv`), make its registers complete, because what is
before a bag are its parents and what is before them (`BeforeIs`). `WorkInv` is
why no work list is empty too early: in the first pass a bag that is not finished
but whose parents are is in the queue, and in an acyclic graph there is always
one (`FirstUnfinished`, from the well-foundedness of finite sets); in the second
one the root is on the stack until it is finished, and then its children are, and
theirs. `PrecedingTheorem`, `NoBagTheorem` and `TypeCorrect` follow. `SeenTheorem` is
about every graph: the only loads that are missed are those of a loop without
exit, in the bags before it (a bag that is merged into a loop and has no child
keeps the loads of its first block, `KeepsLoads`). `LiveTheorem` follows from it
under `LoopsAreLeft`, the condition `reg_bags` puts on its graphs.

**`VirtualRegs_proofs`**, from `Spec` and the assumptions of `VirtualRegs` (well
formed functions). That `cache_map.at` finds its argument (`CachedTheorem`) holds
of every function: an argument register that a block before stores is derived.
The rest is about the functions `Supported` describes, which access the register
as X and whose loops derive what they store and what is read behind them; the
others are what the findings are about. `SInv` is about such a function once it
is compiled and has no stale branch: virtual values are whole (`WholeInv`),
`r_fresh_inst_mp` names the current value until a call replaces it (`FreshInv`),
a block that neither derives the register nor has accessed it yet has no value
(`AbsentInv`), and the
`State` is out of date only behind a block that stores (`DirtyInv`). Two steps
matter. On a branch to a block that derives the register, the phi node has the
value of before the calls only if the branch is stale. On a branch to one that
does not: if a store came before it, nothing behind it reads the register, or it
would be derived (`NotDerivedNotRead`). So wherever the register is still looked
for, it is in its virtual value or the `State` holds it (`KeptTheorem`), from
which `LoadsTheorem`, `ArgumentsTheorem` and `ResultsTheorem` follow; each is
about `SoundRegister` and its companions.

Whether a branch is stale depends on the order in which the blocks are
optimised. `OneWayTheorem` gives a condition on the function alone: if it is
`Supported` and `OneWay`, then `LoadsAgree`, `ArgumentsAgree`, `ResultsAgree` and
`RegisterIsKept` hold as they stand. Its proof needs `UpdatedInv`, that the one
branch that took the value early was brought up to date when its block was
optimised, and `QueueInv`, that an unfinished block with a finished parent is
still queued.

Only model-checked: all liveness (`LiftingEnds`, `SearchEnds`, `AnalysisEnds`,
`FlatteningEnds`, `GoesOn`), which the proof system cannot do, and the three
violations of the findings. Every invariant and every other action property of
the passing runs is stated by a theorem. What is proved and not run: `TypeOK` of
the modules with proofs, `OneWayTheorem`, `DeclaredAreDefined`, `LiftDefinesItsFunction`,
`MergedBlocksAreLoops`, `JoinsAreSound`, `SeenRegsAreDerived`, and the two
`FitTheorem`s.

The proof system cannot look into `SelectSeq`, nor use an induction theorem of its
library that takes an operator. Where the code filters a list (`PassedRegs`), the
model therefore says which positions are kept and in which order (`Pending`,
`InOrder`); the inductions over sets are done with the smallest set of a family
(`MinimalSet`).

## What is not modelled

* The semantics and decoding of instructions (`backend/remill/lib/Arch`): an
  instruction is its category and its targets, and the registers it loads and
  stores. This is nearly all of the code by size: tables generated from the
  architecture's manual (`Extract.cpp`, `Decode.cpp`, `Decode.h`), the vendored
  semantics of aarch64, x86 and SPARC, and their helpers. They are functions
  from an encoding to a record, or from operands to results, without state or
  control of their own; a model would copy them. The program that elfconv adds
  to remill, some 8,500 lines, is what the modules are about.
* `InstructionLifter` appears as `InsnFresh` and as the operations of a block;
  the rest of it builds LLVM calls.
* LLVM. Inserting, splicing and erasing instructions do what their names say.
* The debug output (`WARNING_OUTPUT`, `OPT_*_DEBUG`) and the maps kept for it.
* `VirtualRegs` follows one general register. Registers do not touch one
  another in the code, except that blocks inserted on branches for one of them
  (`relay_bb`) change the order in which blocks are optimised; the model allows
  every order. Vector registers have more widths and the same rules. A call
  brings the casts of a narrow value up to date with a search through its
  users that the model does not have, so W accesses and calls are in different
  functions.
* The passes' own parts of main() besides the loop and the tables: declarations,
  names and section data that `MainLifter.cpp` writes into the LLVM module.
* Reading the ELF file with libbfd. What the loader hands on is the input of
  `FunctionTable`.
* `vma_cache`, which never answers (the first access inserts an empty entry);
  the memory and floating point intrinsics, which have no control of their own.
* Registers at run time: `Program` lets a BR, a BLR and a condition take any
  value. Calls and returns are balanced, as the lifted code assumes.
* What a call of the host answers, and the contents of the guest's files and of
  its initial stack. `SystemCalls` knows only which case wrote X0 last.

## What could follow

* The hand-over between the passes as one specification: the theorems named
  `FitTheorem` say of each result what the next module assumes, in terms of its
  own variables.
* Functions that mix W and X accesses: which of them the promotion is right
  about, beyond those `Supported` describes.
* The contents of the initial stack against what a guest's start-up code reads.
