------------------------------ MODULE Program ------------------------------
(***************************************************************************)
(* From the binary to the running program: the lifting loop, then what the *)
(* tables it leaves behind do at run time.  runtime/Entry.cpp loads the    *)
(* function table and the block address tables and calls the entry         *)
(* function; BLR goes through __remill_function_call, BR through           *)
(* __g_get_indirectbr_block_address and, for another function,             *)
(* __remill_jump (runtime/VmIntrinsics.cpp).                               *)
(*                                                                         *)
(* The code that runs is the translation the lifting loop has left in      *)
(* defs.  A host frame that has nothing to do any more but to return (its  *)
(* function ended with a tail call) is dropped with the call.              *)
(***************************************************************************)
EXTENDS LifterRefinement, Sequences

CONSTANT StackSize  \* open calls the host stack has room for

ASSUME StackSizeAssumption == StackSize \in Nat

VARIABLES
  machine,      \* "off", "on", "exited", "aborted" or "overflow"
  fn_table,     \* addr_fn_map: addresses of functions that can be called
  block_table,  \* addr_block_addrs_map: blocks a BR of a function can reach
  fn,           \* the lifted function that runs
  at,           \* the block of it that runs
  callers,      \* the functions that wait for it, the innermost first
  strayed,      \* whether control has left the way of the guest's (ghost)
  reported      \* the address named by the error message of a BR or BLR

tableVars == <<fn_table, block_table>>
runVars   == <<machine, tableVars, fn, at, callers, strayed, reported>>
allVars   == <<vars, runVars>>

Machine == {"off", "on", "exited", "aborted", "overflow"}

Frame == [fn : Addr, at : Addr]

ProgInit ==
  /\ Init
  /\ machine = "off"
  /\ fn_table = {}
  /\ block_table = [f \in Addr |-> {}]
  /\ fn = NoTrace
  /\ at = NoTrace
  /\ callers = <<>>
  /\ strayed = FALSE
  /\ reported = NoTrace
-----------------------------------------------------------------------------
(***************************************************************************)
(* The runtime loads the tables and calls the entry function.              *)
(***************************************************************************)
Load(e) ==
  /\ pc = "done"
  /\ machine = "off"
  /\ e \in elf.entries
  /\ fn_table' = elf.entries
  /\ block_table' = [f \in Addr |-> IF defs[f].indirect THEN defs[f].blocks ELSE {}]
  /\ machine' = "on"
  /\ fn' = e
  /\ at' = e
  /\ UNCHANGED <<callers, strayed, reported>>

(***************************************************************************)
(* The block that runs ends with a terminator of one of these kinds.       *)
(***************************************************************************)
Terminator == defs[fn].term[at]

Reached(kinds) == machine = "on" /\ Terminator.kind \in kinds

At(cats) == at \in elf.memory /\ elf.insn[at].cat \in cats

Stops(m) == machine' = m /\ UNCHANGED <<tableVars, fn, at, callers, strayed>>

(* elfconv_runtime_error: the message names the address. *)
RuntimeError(a) == Stops("aborted") /\ reported' = a

Jump(a) == at' = a /\ UNCHANGED <<machine, tableVars, fn, callers, strayed, reported>>

(* A lifted function is entered by a call that has to come back to block a. *)
CallAndContinue(f, a) ==
  /\ Len(callers) < StackSize
  /\ fn' = f
  /\ at' = f
  /\ callers' = <<[fn |-> fn, at |-> a]>> \o callers
  /\ UNCHANGED <<machine, tableVars, strayed, reported>>

(* Seeded fault: a tail call takes the function that waits off as well. *)
CallAndForget(f) ==
  /\ fn' = f
  /\ at' = f
  /\ callers' = IF callers = <<>> THEN callers ELSE Tail(callers)
  /\ UNCHANGED <<machine, tableVars, strayed, reported>>

(* The lifted function is entered by a tail call. *)
CallAndReturn(f) ==
  /\ fn' = f
  /\ at' = f
  /\ UNCHANGED <<machine, tableVars, callers, strayed, reported>>

ReturnToCaller ==
  /\ IF callers = <<>>
     THEN machine' = "exited" /\ UNCHANGED <<fn, at, callers>>
     ELSE /\ fn' = Head(callers).fn
          /\ at' = Head(callers).at
          /\ callers' = Tail(callers)
          /\ UNCHANGED machine
  /\ UNCHANGED <<tableVars, reported>>
-----------------------------------------------------------------------------
(***************************************************************************)
(* The branch of a block that calls nothing; a system call comes back.  A  *)
(* BL to what is no function, or to a function right behind it, is none.   *)
(***************************************************************************)
IgnoredCall ==
  At({"bl"}) /\ (elf.insn[at].taken = at + 1) = IsFunctionEntry(elf.insn[at].taken)

Branches ==
  /\ Reached({"branch"})
  /\ Terminator.calls = {}
  /\ ~ At({"blr"})
  /\ at' \in Terminator.succ
  /\ strayed' = (strayed \/ IgnoredCall)
  /\ UNCHANGED <<machine, tableVars, fn, callers, reported>>

(* BL: the call before the branch. *)
DirectCall ==
  /\ Reached({"branch"})
  /\ \E f \in Terminator.calls, a \in Terminator.succ : CallAndContinue(f, a)

(* BLR: the address is looked up in the function table. *)
FunctionCall(x) ==
  /\ Reached({"branch"})
  /\ At({"blr"})
  /\ \/ x \in fn_table /\ \E a \in Terminator.succ : CallAndContinue(x, a)
     \/ x \notin fn_table /\ RuntimeError(x)

(***************************************************************************)
(* BR: a block of the function if its table has the address; otherwise the *)
(* block behind the table calls the function at that address and returns.  *)
(***************************************************************************)
(* Seeded fault: only functions are looked up. *)
JumpToFunction(x) ==
  /\ Reached({"indirect"})
  /\ IF x \in fn_table THEN CallAndReturn(x) ELSE RuntimeError(x)

IndirectJump(x) ==
  /\ Reached({"indirect"})
  /\ \/ x \in block_table[fn] /\ Jump(x)
     \/ x \in fn_table \ block_table[fn] /\ block_table[fn] # {} /\ CallAndReturn(x)
     \/ /\ x \notin block_table[fn]
        /\ block_table[fn] = {} \/ x \notin fn_table
        /\ RuntimeError(x)

(* Seeded fault: the callee is looked for among the next blocks. *)
TailCallToBlock == Reached({"tail"}) /\ \E f \in Terminator.succ : CallAndReturn(f)

(* Control ran into another function. *)
TailCall == Reached({"tail"}) /\ \E f \in Terminator.calls : CallAndReturn(f)

FunctionReturn ==
  /\ Reached({"return"})
  /\ At({"ret"})
  /\ ReturnToCaller
  /\ UNCHANGED strayed

(* A system call ends the program. *)
ExitCall ==
  /\ Reached({"branch", "return"})
  /\ At({"svc"})
  /\ Stops("exited")
  /\ UNCHANGED reported

(***************************************************************************)
(* Lift takes a system call in front of another function for one that ends *)
(* the program.  One that comes back returns to the caller.                *)
(***************************************************************************)
ReturnFromExitCall ==
  /\ Reached({"return"})
  /\ At({"svc"})
  /\ ReturnToCaller
  /\ strayed' = TRUE

(* __remill_error aborts. *)
Error == Reached({"error"}) /\ Stops("aborted") /\ UNCHANGED reported

(* __remill_missing_block prints a warning, and the function returns. *)
Missing == Reached({"missing"}) /\ ReturnToCaller /\ strayed' = TRUE

(* The host stack is full. *)
StackFull ==
  /\ Reached({"branch"})
  /\ Terminator.calls # {} \/ At({"blr"})
  /\ Len(callers) = StackSize
  /\ Stops("overflow")
  /\ UNCHANGED reported

(* The frames of functions that left by tail calls fill the host stack. *)
TailCallsOverflow ==
  /\ Reached({"indirect", "tail"})
  /\ Stops("overflow")
  /\ UNCHANGED reported

Advance ==
  \/ \E e \in Addr : Load(e)
  \/ Branches
  \/ DirectCall
  \/ \E x \in Addr : FunctionCall(x)
  \/ \E x \in Addr : IndirectJump(x)
  \/ TailCall
  \/ FunctionReturn
  \/ ExitCall
  \/ ReturnFromExitCall
  \/ Error
  \/ Missing
  \/ StackFull

ProgNext ==
  \/ Next /\ UNCHANGED runVars
  \/ (Advance \/ TailCallsOverflow) /\ UNCHANGED vars

ProgSpec == ProgInit /\ [][ProgNext]_allVars

(* The lifter, and then the lifted program, is one thread; it goes on as   *)
(* long as it has stack.                                                   *)
FairProgSpec ==
  /\ ProgSpec
  /\ WF_allVars(Next /\ UNCHANGED runVars)
  /\ WF_allVars(Advance /\ UNCHANGED vars)
-----------------------------------------------------------------------------
ProgTypeOK ==
  /\ machine \in Machine
  /\ fn_table \subseteq Addr
  /\ block_table \in [Addr -> SUBSET Addr]
  /\ fn \in Addr \cup {NoTrace}
  /\ at \in Addr \cup {NoTrace}
  /\ callers \in Seq(Frame)
  /\ Len(callers) <= StackSize
  /\ strayed \in BOOLEAN
  /\ reported \in Addr \cup {NoTrace}

(***************************************************************************)
(* The lifted program follows the guest program: whatever binary was       *)
(* lifted, in whatever order, the blocks that run are those the            *)
(* instructions lead to, every return goes back behind its call, and the   *)
(* program stops only where the guest's stops; until it comes to an        *)
(* instruction that is not promised to be followed (Guest!Unpromised), or  *)
(* the host stack is full.                                                 *)
(***************************************************************************)
Guest == INSTANCE GuestControl WITH
  status <- IF strayed THEN "lost" ELSE IF machine = "on" THEN "running" ELSE machine,
  PC <- IF strayed THEN NoTrace ELSE at,
  stack <- IF strayed THEN <<>> ELSE [i \in DOMAIN callers |-> callers[i].at],
  Nowhere <- NoTrace

FollowsGuest == Guest!Safe

(***************************************************************************)
(* The lifter ends, the program starts, and as long as the guest program   *)
(* has a next step the lifted one comes to take it: no chain of blocks and *)
(* tail calls goes round without one.                                      *)
(***************************************************************************)
GoesOn == Guest!Live

(***************************************************************************)
(* A BR or BLR fails only on an address the program could not have meant:  *)
(* one that is no function and, for a BR, no instruction of its function.  *)
(***************************************************************************)
ErrorsAreJustified ==
  reported # NoTrace =>
    /\ ~ IsFunctionEntry(reported)
    /\ elf.insn[at].cat = "br" => ~ IsWithinFunction(fn, reported)

(***************************************************************************)
(* The program runs only code that was lifted: a block of the running      *)
(* function, and every function that waits has the block it continues at.  *)
(***************************************************************************)
OnlyLiftedCodeRuns ==
  machine # "off" =>
    /\ at \in defs[fn].blocks
    /\ \A i \in DOMAIN callers : callers[i].at \in defs[callers[i].fn].blocks
=============================================================================
