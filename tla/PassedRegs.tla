----------------------------- MODULE PassedRegs -----------------------------
(***************************************************************************)
(* VirtualRegsOpt::CalPassedCallerRegForBJump: a function that leaves with *)
(* a B to another function passes on the registers that one is passed, so  *)
(* passed_caller_reg_map of the callee is added to the one of the caller,  *)
(* callees first.  b_jump_callees_map is what the lifting loop collected   *)
(* (b_jump_callees of TraceLifter).                                        *)
(***************************************************************************)
EXTENDS Integers, Sequences, SequencesExt

CONSTANTS
  Func,      \* the lifted functions
  Reg,
  CalleeMaps, \* the values of b_jump_callees_map that Init chooses from
  OwnRegs,   \* passed_caller_reg_map of each function before this pass
  MaxStack   \* bound: memory ends when func_stack is longer

ASSUME FuncAssumption == IsFiniteSet(Func)
ASSUME CalleesAssumption ==
  \A m \in CalleeMaps : DOMAIN m \subseteq Func /\ \A f \in DOMAIN m : m[f] \in Seq(Func)
ASSUME OwnRegsAssumption == OwnRegs \in [Func -> SUBSET Reg]
ASSUME MaxStackAssumption == MaxStack \in Nat

VARIABLES
  b_jump_callees_map,
  func_stack,              \* the top is the last element
  finished,
  passed_caller_reg_map,
  pc                       \* "search", "done" or "exhausted"

vars == <<b_jump_callees_map, func_stack, finished, passed_caller_reg_map, pc>>

-----------------------------------------------------------------------------
IsCaller(f) == f \in DOMAIN b_jump_callees_map

FirstCallee(f) ==   \* Seeded fault: only the first callee has to be finished.
  {b_jump_callees_map[f][i] : i \in {1} \cap DOMAIN b_jump_callees_map[f]}

Callees(f) == Range(b_jump_callees_map[f])

Unfinished(f) == Callees(f) \ finished

(* The callers come out of an unordered map. *)
Init ==
  /\ b_jump_callees_map \in CalleeMaps
  /\ func_stack \in SetToSeqs(DOMAIN b_jump_callees_map)
  /\ finished = {}
  /\ passed_caller_reg_map = OwnRegs
  /\ pc = "search"

Popped(f) ==
  /\ pc = "search"
  /\ func_stack # <<>>
  /\ f = Last(func_stack)

AlreadyFinished(f) ==
  /\ Popped(f)
  /\ f \in finished
  /\ func_stack' = Front(func_stack)
  /\ UNCHANGED <<b_jump_callees_map, finished, passed_caller_reg_map, pc>>

(* A function that no B leaves. *)
FinishLeaf(f) ==
  /\ Popped(f)
  /\ f \notin finished /\ ~IsCaller(f)
  /\ func_stack' = Front(func_stack)
  /\ finished' = finished \cup {f}
  /\ UNCHANGED <<b_jump_callees_map, passed_caller_reg_map, pc>>

FinishCaller(f) ==
  /\ Popped(f)
  /\ f \notin finished /\ IsCaller(f) /\ Unfinished(f) = {}
  /\ passed_caller_reg_map' =
       [passed_caller_reg_map EXCEPT
          ![f] = @ \cup UNION {passed_caller_reg_map[g] : g \in Callees(f)}]
  /\ func_stack' = Front(func_stack)
  /\ finished' = finished \cup {f}
  /\ UNCHANGED <<b_jump_callees_map, pc>>

(* The caller stays under those of its callees that are not finished yet,  *)
(* one entry for each B in the order of the list, whether or not they are  *)
(* on the stack already.                                                   *)
Pending(f) == {i \in DOMAIN b_jump_callees_map[f] : b_jump_callees_map[f][i] \notin finished}

InOrder(S) == {at \in [1 .. Cardinality(S) -> S] : \A i, j \in DOMAIN at : i < j => at[i] < at[j]}

(* These are sets of one sequence. *)
ToFinishFirst(f) ==
  {[i \in DOMAIN at |-> b_jump_callees_map[f][at[i]]] : at \in InOrder(Pending(f))}

OnlyCallees(f) ==   \* Seeded fault: the caller is not pushed again.
  {Front(func_stack) \o s : s \in ToFinishFirst(f)}

StackAfter(f) == {func_stack \o s : s \in ToFinishFirst(f)}

PushCallees(f) ==
  /\ Popped(f)
  /\ f \notin finished /\ IsCaller(f) /\ Unfinished(f) # {}
  /\ \E s \in StackAfter(f) : Len(s) <= MaxStack /\ func_stack' = s
  /\ UNCHANGED <<b_jump_callees_map, finished, passed_caller_reg_map, pc>>

OutOfMemory(f) ==
  /\ Popped(f)
  /\ f \notin finished /\ IsCaller(f) /\ Unfinished(f) # {}
  /\ \E s \in StackAfter(f) : Len(s) > MaxStack
  /\ pc' = "exhausted"
  /\ UNCHANGED <<b_jump_callees_map, func_stack, finished, passed_caller_reg_map>>

SearchDone ==
  /\ pc = "search"
  /\ func_stack = <<>>
  /\ pc' = "done"
  /\ UNCHANGED <<b_jump_callees_map, func_stack, finished, passed_caller_reg_map>>

Stopped == pc # "search" /\ UNCHANGED vars

Next ==
  \/ \E f \in Func : AlreadyFinished(f) \/ FinishLeaf(f) \/ FinishCaller(f)
                       \/ PushCallees(f) \/ OutOfMemory(f)
  \/ SearchDone
  \/ Stopped

Spec == Init /\ [][Next]_vars
-----------------------------------------------------------------------------
TypeOK ==
  /\ b_jump_callees_map \in CalleeMaps
  /\ func_stack \in Seq(Func)
  /\ finished \subseteq Func
  /\ passed_caller_reg_map \in [Func -> SUBSET Reg]
  /\ pc \in {"search", "done", "exhausted"}

Jumps(f) == IF IsCaller(f) THEN Range(b_jump_callees_map[f]) ELSE {}

Closed(S) == \A f \in S : Jumps(f) \subseteq S

(* The functions control can get to from f by B instructions, f included. *)
Reached(f) == {g \in Func : \A S \in SUBSET Func : f \in S /\ Closed(S) => g \in S}

OnLoop(f) == \E g \in Jumps(f) : f \in Reached(g)

(* When a function is finished, it is passed exactly the registers that    *)
(* the functions which control can reach from it by B instructions are     *)
(* passed, whatever the order in which callers and callees are visited.    *)
PassedIsWhatIsReached ==
  \A f \in Func : passed_caller_reg_map[f] =
    IF f \in finished THEN UNION {OwnRegs[g] : g \in Reached(f)} ELSE OwnRegs[f]

(* The search takes ever more memory only if functions B to each other in  *)
(* a circle, and then it never succeeds; without a circle, every caller is *)
(* finished when it is done.                                               *)
OnlyLoopsAreEndless ==
  /\ pc = "exhausted" => \E f \in DOMAIN b_jump_callees_map : OnLoop(f)
  /\ pc = "done" => /\ DOMAIN b_jump_callees_map \subseteq finished
                    /\ ~\E f \in DOMAIN b_jump_callees_map : OnLoop(f)
=============================================================================
