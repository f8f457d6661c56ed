-------------------------- MODULE PassedRegs_proofs --------------------------
(***************************************************************************)
(* PassedIsWhatIsReached for all functions, registers and maps of callees. *)
(* A function is finished when all it jumps to is finished, so the set of  *)
(* finished functions is closed, and what a function reaches is itself and *)
(* what its callees reach.                                                 *)
(***************************************************************************)
EXTENDS PassedRegs, FiniteSetTheorems, SequenceTheorems, TLAPS

PassedType ==
  /\ b_jump_callees_map \in CalleeMaps
  /\ finished \subseteq Func
  /\ passed_caller_reg_map \in [Func -> SUBSET Reg]

(* What a finished function jumps to is finished. *)
FinishedIsClosed == Closed(finished)

PInv == PassedType /\ FinishedIsClosed /\ PassedIsWhatIsReached

-----------------------------------------------------------------------------
(* The callees of a function are functions. *)
LEMMA JumpsAreFunctions ==
  ASSUME b_jump_callees_map \in CalleeMaps, NEW f
  PROVE  Jumps(f) \subseteq Func
<1>1. CASE ~IsCaller(f)
  BY <1>1 DEF Jumps
<1>2. CASE IsCaller(f)
  <2>1. b_jump_callees_map[f] \in Seq(Func)
    BY <1>2, CalleesAssumption DEF IsCaller
  <2> QED  BY <2>1, <1>2 DEF Jumps, Range
<1> QED  BY <1>1, <1>2

(* Every function reaches itself. *)
LEMMA ReachesItself ==
  ASSUME NEW f \in Func
  PROVE  f \in Reached(f)
BY DEF Reached

(* What is reached leads nowhere else. *)
LEMMA ReachedIsClosed ==
  ASSUME b_jump_callees_map \in CalleeMaps, NEW f \in Func, NEW g \in Reached(f)
  PROVE  Jumps(g) \subseteq Reached(f)
<1> SUFFICES ASSUME NEW h \in Jumps(g)
             PROVE  h \in Reached(f)
  OBVIOUS
<1>1. h \in Func
  BY JumpsAreFunctions
<1>2. ASSUME NEW S \in SUBSET Func, f \in S, Closed(S)
      PROVE  h \in S
  <2>1. g \in S
    BY <1>2 DEF Reached
  <2> QED  BY <2>1, <1>2 DEF Closed
<1> QED  BY <1>1, <1>2 DEF Reached

(* A function reaches itself and what the functions it jumps to reach. *)
LEMMA ReachStep ==
  ASSUME b_jump_callees_map \in CalleeMaps, NEW f \in Func
  PROVE  Reached(f) = {f} \cup UNION {Reached(g) : g \in Jumps(f)}
<1> DEFINE S == {f} \cup UNION {Reached(g) : g \in Jumps(f)}
<1>1. Jumps(f) \subseteq Func
  BY JumpsAreFunctions
<1>2. S \in SUBSET Func
  BY DEF Reached
<1>3. Closed(S)
  <2> SUFFICES ASSUME NEW x \in S, NEW y \in Jumps(x)
               PROVE  y \in S
    BY DEF Closed
  <2>1. CASE x = f
    <3>1. y \in Jumps(f) /\ y \in Reached(y)
      BY <2>1, <1>1, ReachesItself
    <3> QED  BY <3>1
  <2>2. CASE \E g \in Jumps(f) : x \in Reached(g)
    <3>1. PICK g \in Jumps(f) : x \in Reached(g)
      BY <2>2
    <3>2. y \in Reached(g)
      BY <3>1, <1>1, ReachedIsClosed
    <3> QED  BY <3>2
  <2> QED  BY <2>1, <2>2
<1>4. Reached(f) \subseteq S
  BY <1>2, <1>3 DEF Reached
<1>5. ASSUME NEW g \in Jumps(f), NEW x \in Reached(g)
      PROVE  x \in Reached(f)
  <2>1. x \in Func
    BY DEF Reached
  <2>2. ASSUME NEW T \in SUBSET Func, f \in T, Closed(T)
        PROVE  x \in T
    <3>1. g \in T
      BY <2>2 DEF Closed
    <3> QED  BY <3>1, <2>2 DEF Reached
  <2> QED  BY <2>1, <2>2 DEF Reached
<1> QED  BY <1>4, <1>5, ReachesItself

-----------------------------------------------------------------------------
(* The callees never change, so neither does what is reached. *)
LEMMA SameReach ==
  ASSUME UNCHANGED b_jump_callees_map
  PROVE  /\ \A f : Jumps(f)' = Jumps(f)
         /\ \A f : Reached(f)' = Reached(f)
<1>1. \A f : Jumps(f)' = Jumps(f)
  BY DEF Jumps, IsCaller
<1>2. \A S : Closed(S)' <=> Closed(S)
  BY <1>1 DEF Closed
<1>3. \A f : Reached(f)' = Reached(f)
  BY <1>2 DEF Reached
<1> QED  BY <1>1, <1>3

(* A function is finished: its registers are those of its callees as well. *)
LEMMA FinishStep ==
  ASSUME PInv, NEW f \in Func, f \notin finished,
         UNCHANGED b_jump_callees_map,
         Jumps(f) \subseteq finished,
         finished' = finished \cup {f},
         passed_caller_reg_map' =
           [passed_caller_reg_map EXCEPT
              ![f] = @ \cup UNION {passed_caller_reg_map[g] : g \in Jumps(f)}]
  PROVE  PInv'
<1> USE DEF PInv, PassedType
<1>1. PassedType'
  BY JumpsAreFunctions
<1>2. FinishedIsClosed'
  BY SameReach DEF FinishedIsClosed, Closed
<1>3. ASSUME NEW h \in Func
      PROVE  passed_caller_reg_map'[h] =
               IF h \in finished' THEN UNION {OwnRegs[g] : g \in Reached(h)} ELSE OwnRegs[h]
  <2>1. CASE h # f
    BY <2>1 DEF PassedIsWhatIsReached
  <2>2. CASE h = f
    <3>1. passed_caller_reg_map'[f]
            = OwnRegs[f] \cup UNION {passed_caller_reg_map[g] : g \in Jumps(f)}
      BY DEF PassedIsWhatIsReached
    <3>2. \A g \in Jumps(f) : passed_caller_reg_map[g] = UNION {OwnRegs[k] : k \in Reached(g)}
      BY JumpsAreFunctions DEF PassedIsWhatIsReached
    <3>3. Reached(f) = {f} \cup UNION {Reached(g) : g \in Jumps(f)}
      BY ReachStep
    <3>4. UNION {OwnRegs[k] : k \in Reached(f)}
            = OwnRegs[f] \cup UNION {passed_caller_reg_map[g] : g \in Jumps(f)}
      BY <3>2, <3>3
    <3> QED  BY <3>1, <3>4, <2>2
  <2> QED  BY <2>1, <2>2
<1>4. PassedIsWhatIsReached'
  <2>1. \A h : Reached(h)' = Reached(h)
    BY SameReach
  <2> SUFFICES ASSUME NEW h \in Func
               PROVE  passed_caller_reg_map'[h] =
                        IF h \in finished' THEN UNION {OwnRegs[g] : g \in Reached(h)'}
                        ELSE OwnRegs[h]
    BY DEF PassedIsWhatIsReached
  <2> QED  BY <1>3, <2>1
<1> QED  BY <1>1, <1>2, <1>4

(* The steps that finish no function. *)
LEMMA OtherStep ==
  ASSUME PInv, UNCHANGED <<b_jump_callees_map, finished, passed_caller_reg_map>>
  PROVE  PInv'
<1>1. \A h : Reached(h)' = Reached(h)
  BY SameReach
<1>2. \A h : Jumps(h)' = Jumps(h)
  BY SameReach
<1>3. PassedType'
  BY DEF PInv, PassedType
<1>4. FinishedIsClosed'
  BY <1>2 DEF PInv, FinishedIsClosed, Closed
<1>5. PassedIsWhatIsReached'
  BY <1>1 DEF PInv, PassedIsWhatIsReached
<1> QED  BY <1>3, <1>4, <1>5 DEF PInv

LEMMA PassedInit == Init => PInv
<1> SUFFICES ASSUME Init PROVE PInv
  OBVIOUS
<1>1. PassedType
  BY OwnRegsAssumption DEF Init, PassedType
<1>2. FinishedIsClosed /\ PassedIsWhatIsReached
  BY DEF Init, FinishedIsClosed, Closed, PassedIsWhatIsReached
<1> QED  BY <1>1, <1>2 DEF PInv

LEMMA PassedStep == PInv /\ [Next]_vars => PInv'
<1> SUFFICES ASSUME PInv, [Next]_vars PROVE PInv'
  OBVIOUS
<1>1. ASSUME NEW f \in Func, AlreadyFinished(f)
      PROVE  PInv'
  BY <1>1, OtherStep DEF AlreadyFinished
<1>2. ASSUME NEW f \in Func, FinishLeaf(f)
      PROVE  PInv'
  <2>1. Jumps(f) = {}
    BY <1>2 DEF FinishLeaf, Jumps
  <2>2. passed_caller_reg_map' =
          [passed_caller_reg_map EXCEPT
             ![f] = @ \cup UNION {passed_caller_reg_map[g] : g \in Jumps(f)}]
    BY <1>2, <2>1 DEF FinishLeaf, PInv, PassedType
  <2> QED  BY <1>2, <2>1, <2>2, FinishStep DEF FinishLeaf
<1>3. ASSUME NEW f \in Func, FinishCaller(f)
      PROVE  PInv'
  <2>1. Jumps(f) = Callees(f) /\ Jumps(f) \subseteq finished
    BY <1>3 DEF FinishCaller, Jumps, Callees, Unfinished
  <2> QED  BY <1>3, <2>1, FinishStep DEF FinishCaller
<1>4. ASSUME NEW f \in Func, PushCallees(f)
      PROVE  PInv'
  BY <1>4, OtherStep DEF PushCallees
<1>5. ASSUME NEW f \in Func, OutOfMemory(f)
      PROVE  PInv'
  BY <1>5, OtherStep DEF OutOfMemory
<1>6. CASE SearchDone
  BY <1>6, OtherStep DEF SearchDone
<1>7. CASE Stopped
  BY <1>7, OtherStep DEF Stopped, vars
<1>8. CASE UNCHANGED vars
  BY <1>8, OtherStep DEF vars
<1> QED  BY <1>1, <1>2, <1>3, <1>4, <1>5, <1>6, <1>7, <1>8 DEF Next

(* A finished function is passed exactly the registers of the functions    *)
(* that control reaches from it by B instructions: the result of           *)
(* CalPassedCallerRegForBJump does not depend on the order of the maps.    *)
THEOREM PassedTheorem == Spec => []PassedIsWhatIsReached
<1>1. PInv => PassedIsWhatIsReached
  BY DEF PInv
<1> QED  BY <1>1, PassedInit, PassedStep, PTL DEF Spec
-----------------------------------------------------------------------------
(***************************************************************************)
(* OnlyLoopsAreEndless.  A position of the stack is opened when the        *)
(* callees of its function were pushed above it.  All that is above an     *)
(* opened position is reached from its function, so without a circle no    *)
(* function is opened twice at a time, and the stack is never longer than  *)
(* the callers and, for each of them, its B instructions.                  *)
(***************************************************************************)
Callers == DOMAIN b_jump_callees_map

NoLoop == \A f \in Callers : ~ OnLoop(f)

(* Control gets from f to g by one B instruction or more. *)
Leads(f, g) == \E h \in Jumps(f) : g \in Reached(h)

StackType == func_stack \in Seq(Func) /\ pc \in {"search", "done", "exhausted"}

(* A finished function is on no circle, and no caller is forgotten. *)
FinishedInv ==
  /\ \A f \in finished : ~ OnLoop(f)
  /\ Callers \subseteq finished \cup Range(func_stack)
  /\ pc = "done" => func_stack = <<>>

Opened(P) ==
  /\ P \subseteq DOMAIN func_stack
  /\ \A p \in P :
       /\ func_stack[p] \in Callers \ finished
       /\ \A q \in DOMAIN func_stack : p < q => Leads(func_stack[p], func_stack[q])
       /\ \A g \in Jumps(func_stack[p]) :
            g \in finished \/ \E q \in DOMAIN func_stack : p < q /\ func_stack[q] = g

Below(P, p) == {q \in P : q < p}

(* No caller has more than K B instructions. *)
Bounded(P, K) ==
  /\ \A p \in P : p <= Cardinality(Callers) + K * Cardinality(Below(P, p))
  /\ Len(func_stack) <= Cardinality(Callers) + K * Cardinality(P)

(* The stack has room for every caller once, and for all its callees. *)
Room(K) ==
  \A m \in CalleeMaps :
    /\ \A f \in DOMAIN m : Len(m[f]) <= K
    /\ Cardinality(DOMAIN m) + K * Cardinality(DOMAIN m) <= MaxStack

EnoughMemory == \E K \in Nat : Room(K)

OpenedInv ==
  \A K \in Nat : Room(K) /\ NoLoop =>
    /\ pc # "exhausted"
    /\ \E P : Opened(P) /\ Bounded(P, K)

EInv == StackType /\ FinishedInv /\ OpenedInv

-----------------------------------------------------------------------------
LEMMA FrontOfStack ==
  ASSUME NEW S, NEW s \in Seq(S), s # <<>>
  PROVE  /\ Len(s) \in Nat \ {0} /\ DOMAIN s = 1 .. Len(s)
         /\ Front(s) \in Seq(S)
         /\ Len(Front(s)) = Len(s) - 1
         /\ DOMAIN Front(s) = 1 .. Len(s) - 1
         /\ \A i \in 1 .. Len(s) - 1 : Front(s)[i] = s[i]
         /\ Last(s) = s[Len(s)]
<1>1. Len(s) \in Nat /\ DOMAIN s = 1 .. Len(s) /\ \A i \in 1 .. Len(s) : s[i] \in S
  BY LenProperties, ElementOfSeq
<1>2. Len(s) # 0
  BY EmptySeq
<1>3. \A i \in 1 .. Len(s) - 1 : s[i] \in S
  BY <1>1
<1>4. Len(s) - 1 \in Int /\ 1 \in Int
  BY <1>1
<1>5. /\ SubSeq(s, 1, Len(s) - 1) \in Seq(S)
      /\ Len(SubSeq(s, 1, Len(s) - 1)) = IF 1 <= Len(s) - 1 THEN (Len(s) - 1) - 1 + 1 ELSE 0
      /\ \A i \in 1 .. (Len(s) - 1) - 1 + 1 : SubSeq(s, 1, Len(s) - 1)[i] = s[1 + i - 1]
  BY <1>3, <1>4, SubSeqProperties
<1>6. Front(s) = SubSeq(s, 1, Len(s) - 1) /\ Last(s) = s[Len(s)]
  BY DEF Front, Last
<1>7. DOMAIN Front(s) = 1 .. Len(Front(s))
  BY <1>5, <1>6, LenProperties
<1> QED BY <1>1, <1>2, <1>5, <1>6, <1>7

(* An injection from 1 .. Cardinality(S) to S takes every element of S. *)
LEMMA EveryElement ==
  ASSUME NEW S, IsFiniteSet(S), NEW at \in [1 .. Cardinality(S) -> S],
         \A i, j \in 1 .. Cardinality(S) : at[i] = at[j] => i = j
  PROVE  \A x \in S : \E i \in 1 .. Cardinality(S) : at[i] = x
<1>1. Cardinality(S) \in Nat
  BY FS_CardinalityType
<1>2. IsFiniteSet(1 .. Cardinality(S)) /\ Cardinality(1 .. Cardinality(S)) = Cardinality(S)
  BY <1>1, FS_Interval
<1>3. at \in Injection(1 .. Cardinality(S), S)
  BY DEF Injection, IsInjective
<1>4. at \in Surjection(1 .. Cardinality(S), S)
  BY <1>2, <1>3, FS_Injection
<1> QED BY <1>4 DEF Surjection

(* What is pushed: every callee that is not finished, and nothing else. *)
LEMMA ToFinishFirstIs ==
  ASSUME b_jump_callees_map \in CalleeMaps, NEW f \in Callers, NEW s \in ToFinishFirst(f)
  PROVE  /\ s \in Seq(Func) /\ Len(s) <= Len(b_jump_callees_map[f])
         /\ \A i \in DOMAIN s : s[i] \in Jumps(f)
         /\ \A g \in Jumps(f) \ finished : \E i \in DOMAIN s : s[i] = g
<1> DEFINE l == b_jump_callees_map[f]
           I == Pending(f)
           n == Cardinality(I)
<1>1. l \in Seq(Func) /\ f \in Func
  BY CalleesAssumption DEF Callers
<1>2. Len(l) \in Nat /\ DOMAIN l = 1 .. Len(l) /\ \A i \in DOMAIN l : l[i] \in Func
  BY <1>1, LenProperties, ElementOfSeq
<1>3. Jumps(f) = {l[i] : i \in DOMAIN l}
  BY DEF Jumps, IsCaller, Range, Callers
<1>4. I = {i \in DOMAIN l : l[i] \notin finished}
  BY DEF Pending
<1>5. IsFiniteSet(I) /\ n \in Nat /\ n <= Len(l)
  <2>1. IsFiniteSet(1 .. Len(l)) /\ Cardinality(1 .. Len(l)) = Len(l)
    BY <1>2, FS_Interval
  <2>2. I \in SUBSET (1 .. Len(l))
    BY <1>2, <1>4
  <2> QED BY <2>1, <2>2, FS_Subset, FS_CardinalityType
<1>6. PICK at \in InOrder(I) : s = [i \in DOMAIN at |-> l[at[i]]]
  BY DEF ToFinishFirst
<1> HIDE DEF l, I
<1>7. at \in [1 .. n -> I] /\ \A i, j \in 1 .. n : i < j => at[i] < at[j]
  BY DEF InOrder
<1>8. \A i \in 1 .. n : at[i] \in I /\ at[i] \in DOMAIN l /\ at[i] \in Nat
  BY <1>2, <1>4, <1>7
<1>9. \A i, j \in 1 .. n : at[i] = at[j] => i = j
  <2> SUFFICES ASSUME NEW i \in 1 .. n, NEW j \in 1 .. n, i # j PROVE at[i] # at[j]
    OBVIOUS
  <2>1. CASE i < j
    BY <1>7, <1>8, <2>1
  <2>2. CASE j < i
    BY <1>7, <1>8, <2>2
  <2> QED BY <1>5, <2>1, <2>2
<1>10. DOMAIN s = 1 .. n /\ \A i \in 1 .. n : s[i] = l[at[i]]
  BY <1>6, <1>7
<1>11. s \in Seq(Func) /\ Len(s) = n
  <2>1. s \in [1 .. n -> Func]
    BY <1>2, <1>6, <1>7, <1>8
  <2> QED BY <1>5, <2>1
<1>12. \A i \in I : \E j \in 1 .. n : at[j] = i
  BY <1>5, <1>7, <1>9, EveryElement
<1>13. \A g \in Jumps(f) \ finished : \E i \in I : l[i] = g
  BY <1>3, <1>4
<1>14. \A i \in DOMAIN s : s[i] \in Jumps(f)
  BY <1>3, <1>8, <1>10
<1>15. \A g \in Jumps(f) \ finished : \E i \in DOMAIN s : s[i] = g
  <2> SUFFICES ASSUME NEW g \in Jumps(f) \ finished PROVE \E i \in DOMAIN s : s[i] = g
    OBVIOUS
  <2>1. PICK i \in I : l[i] = g
    BY <1>13
  <2>2. PICK j \in 1 .. n : at[j] = i
    BY <1>12
  <2> QED BY <1>10, <2>1, <2>2
<1>16. Len(s) <= Len(b_jump_callees_map[f])
  BY <1>5, <1>11 DEF l
<1> QED BY <1>11, <1>14, <1>15, <1>16

-----------------------------------------------------------------------------
(* Control that leads from f to g goes on to the callees of g. *)
LEMMA LeadsOn ==
  ASSUME b_jump_callees_map \in CalleeMaps, NEW f \in Func
  PROVE  /\ \A g \in Jumps(f) : Leads(f, g)
         /\ \A g, h : Leads(f, g) /\ h \in Jumps(g) => Leads(f, h)
<1>1. \A g \in Jumps(f) : g \in Func
  BY JumpsAreFunctions
<1>2. \A g \in Jumps(f) : Leads(f, g)
  BY <1>1, ReachesItself DEF Leads
<1>3. ASSUME NEW g, NEW h, Leads(f, g), h \in Jumps(g) PROVE Leads(f, h)
  <2>1. PICK k \in Jumps(f) : g \in Reached(k)
    BY <1>3 DEF Leads
  <2>2. h \in Reached(k)
    BY <1>1, <1>3, <2>1, ReachedIsClosed
  <2> QED BY <2>1, <2>2 DEF Leads
<1> QED BY <1>2, <1>3

LEMMA SameLoops ==
  ASSUME UNCHANGED b_jump_callees_map
  PROVE  /\ Callers' = Callers /\ NoLoop' = NoLoop
         /\ \A f : OnLoop(f)' = OnLoop(f)
         /\ \A f, g : Leads(f, g)' = Leads(f, g)
<1>1. /\ \A f : Jumps(f)' = Jumps(f)
      /\ \A f : Reached(f)' = Reached(f)
  BY SameReach
<1>2. Callers' = Callers
  BY DEF Callers
<1>3. \A f : OnLoop(f)' = OnLoop(f)
  BY <1>1 DEF OnLoop
<1>4. \A f, g : Leads(f, g)' = Leads(f, g)
  BY <1>1 DEF Leads
<1> QED BY <1>2, <1>3, <1>4 DEF NoLoop

(* The opened positions hold different callers. *)
LEMMA OpenedAreFew ==
  ASSUME StackType, b_jump_callees_map \in CalleeMaps, NoLoop,
         NEW P \in SUBSET DOMAIN func_stack,
         \A p \in P : func_stack[p] \in Callers,
         \A p, q \in P : p < q => Leads(func_stack[p], func_stack[q])
  PROVE  /\ IsFiniteSet(P) /\ Cardinality(P) \in Nat /\ Cardinality(Callers) \in Nat
         /\ Cardinality(P) <= Cardinality(Callers)
<1>1. Callers \subseteq Func /\ IsFiniteSet(Callers)
  <2>1. Callers \in SUBSET Func
    BY CalleesAssumption DEF Callers
  <2> QED BY <2>1, FuncAssumption, FS_Subset
<1>2. P \subseteq 1 .. Len(func_stack) /\ Len(func_stack) \in Nat
  BY LenProperties DEF StackType
<1> DEFINE at == [p \in P |-> func_stack[p]]
<1>3. \A p, q \in P : p < q => at[p] # at[q]
  BY DEF NoLoop, OnLoop, Leads
<1>4. \A p, q \in P : at[p] = at[q] => p = q
  <2> SUFFICES ASSUME NEW p \in P, NEW q \in P, p # q PROVE at[p] # at[q]
    OBVIOUS
  <2>1. p < q \/ q < p
    BY <1>2
  <2> QED BY <1>3, <2>1
<1>5. at \in [P -> Callers]
  OBVIOUS
<1>6. at \in Injection(P, Callers)
  BY <1>4, <1>5 DEF Injection, IsInjective
<1> QED BY <1>1, <1>6, FS_Injection, FS_CardinalityType

-----------------------------------------------------------------------------
LEMMA EInit == Init => EInv
<1> SUFFICES ASSUME Init PROVE EInv
  OBVIOUS
<1>1. /\ b_jump_callees_map \in CalleeMaps /\ finished = {} /\ pc = "search"
      /\ func_stack \in SetToSeqs(Callers)
  BY DEF Init, Callers
<1>2. Callers \subseteq Func /\ IsFiniteSet(Callers) /\ Cardinality(Callers) \in Nat
  <2>1. Callers \in SUBSET Func
    BY <1>1, CalleesAssumption DEF Callers
  <2> QED BY <2>1, FuncAssumption, FS_Subset, FS_CardinalityType
<1>3. /\ func_stack \in [1 .. Cardinality(Callers) -> Callers]
      /\ \A i, j \in 1 .. Cardinality(Callers) : i # j => func_stack[i] # func_stack[j]
  BY <1>1 DEF SetToSeqs
<1>4. func_stack \in Seq(Func) /\ Len(func_stack) = Cardinality(Callers)
  <2>1. func_stack \in [1 .. Cardinality(Callers) -> Func]
    BY <1>2, <1>3
  <2> QED BY <1>2, <2>1
<1>5. Callers \subseteq Range(func_stack)
  <2>1. \A f \in Callers : \E i \in 1 .. Cardinality(Callers) : func_stack[i] = f
    BY <1>2, <1>3, EveryElement
  <2> QED BY <1>3, <2>1 DEF Range
<1>6. ASSUME NEW K \in Nat
      PROVE  Opened({}) /\ Bounded({}, K)
  <2>1. Cardinality({}) = 0
    BY FS_EmptySet
  <2> QED BY <1>2, <1>4, <2>1 DEF Opened, Bounded
<1> QED BY <1>1, <1>4, <1>5, <1>6 DEF EInv, StackType, FinishedInv, OpenedInv

(* The step takes f from the stack: it is finished then. *)
PopStep(f) ==
  /\ Popped(f)
  /\ f \in finished \/ Jumps(f) \subseteq finished
  /\ func_stack' = Front(func_stack)
  /\ finished' = finished \cup {f}
  /\ UNCHANGED <<b_jump_callees_map, pc>>

LEMMA PopFinished ==
  ASSUME PInv, EInv, NEW f \in Func, PopStep(f)
  PROVE  FinishedInv'
<1>1. /\ func_stack \in Seq(Func) /\ func_stack # <<>> /\ f = Last(func_stack) /\ pc = "search"
      /\ finished \in SUBSET Func /\ b_jump_callees_map \in CalleeMaps /\ Closed(finished)
  BY DEF EInv, StackType, PopStep, Popped, PInv, PassedType, FinishedIsClosed
<1>2. \A g \in finished' : ~ OnLoop(g)
  <2>1. \A g \in finished : ~ OnLoop(g)
    BY DEF EInv, FinishedInv
  <2>2. ASSUME f \notin finished PROVE ~ OnLoop(f)
    <3> SUFFICES ASSUME NEW g \in Jumps(f), f \in Reached(g) PROVE FALSE
      BY DEF OnLoop
    <3>1. g \in finished
      BY <2>2 DEF PopStep
    <3> QED BY <1>1, <2>2, <3>1 DEF Reached
  <2> QED BY <2>1, <2>2 DEF PopStep
<1>3. Callers \subseteq finished' \cup Range(Front(func_stack))
  <2> SUFFICES ASSUME NEW g \in Callers, g \notin finished' PROVE g \in Range(Front(func_stack))
    OBVIOUS
  <2>1. PICK i \in DOMAIN func_stack : func_stack[i] = g
    BY DEF EInv, FinishedInv, PopStep, Range
  <2>2. i # Len(func_stack)
    BY <1>1, <2>1, FrontOfStack DEF PopStep
  <2>3. i \in DOMAIN Front(func_stack) /\ Front(func_stack)[i] = g
    BY <1>1, <2>1, <2>2, FrontOfStack
  <2> QED BY <2>3 DEF Range
<1> QED BY <1>1, <1>2, <1>3, SameLoops DEF FinishedInv, PopStep

LEMMA PopOpened ==
  ASSUME PInv, EInv, NEW f \in Func, PopStep(f)
  PROVE  OpenedInv'
<1>0. PICK n : n = Len(func_stack)
  OBVIOUS
<1>1. /\ func_stack \in Seq(Func) /\ func_stack # <<>> /\ pc = "search" /\ pc' = "search"
      /\ b_jump_callees_map \in CalleeMaps
      /\ func_stack' = Front(func_stack) /\ finished' = finished \cup {f}
  BY DEF EInv, StackType, PopStep, Popped, PInv, PassedType
<1>2. /\ n \in Nat \ {0} /\ DOMAIN func_stack = 1 .. n /\ f = func_stack[n]
      /\ Len(func_stack') = n - 1 /\ DOMAIN func_stack' = 1 .. n - 1
      /\ \A i \in 1 .. n - 1 : func_stack'[i] = func_stack[i]
  BY <1>0, <1>1, FrontOfStack DEF PopStep, Popped
<1> SUFFICES ASSUME NEW K \in Nat, Room(K), NoLoop
             PROVE  \E P : Opened(P)' /\ Bounded(P, K)'
  BY <1>1, SameLoops DEF OpenedInv, PopStep, Room
<1>3. PICK P : Opened(P) /\ Bounded(P, K)
  BY DEF EInv, OpenedInv
<1> DEFINE N == Cardinality(Callers)
<1>4. PICK Q : Q = P \ {n}
  OBVIOUS
<1>5. P \subseteq 1 .. n /\ Q \subseteq 1 .. n - 1 /\ Q \subseteq P
  BY <1>2, <1>3, <1>4 DEF Opened
<1>6. /\ IsFiniteSet(P) /\ Cardinality(P) \in Nat /\ N \in Nat
  <2>1. P \in SUBSET DOMAIN func_stack
    BY <1>3 DEF Opened
  <2>2. /\ \A p \in P : func_stack[p] \in Callers
        /\ \A p, q \in P : p < q => Leads(func_stack[p], func_stack[q])
    BY <1>3, <2>1 DEF Opened
  <2> QED BY <1>1, <2>1, <2>2, OpenedAreFew DEF EInv
<1>7. Opened(Q)'
  <2>1. ASSUME NEW p \in Q PROVE func_stack[p] # f
    <3>1. Leads(func_stack[p], f) /\ func_stack[p] \in Callers
      BY <1>2, <1>3, <1>5 DEF Opened
    <3> QED BY <3>1 DEF NoLoop, OnLoop, Leads
  <2>2. ASSUME NEW p \in Q
        PROVE  /\ func_stack'[p] \in Callers' \ finished'
               /\ \A q \in DOMAIN func_stack' : p < q => Leads(func_stack[p], func_stack[q])'
               /\ \A g \in Jumps(func_stack[p])' :
                    g \in finished' \/ \E q \in DOMAIN func_stack' : p < q /\ func_stack'[q] = g
    <3>1. p \in P /\ p \in 1 .. n - 1 /\ func_stack'[p] = func_stack[p]
      BY <1>2, <1>5
    <3>2. /\ func_stack[p] \in Callers \ finished
          /\ \A q \in 1 .. n : p < q => Leads(func_stack[p], func_stack[q])
          /\ \A g \in Jumps(func_stack[p]) :
               g \in finished \/ \E q \in 1 .. n : p < q /\ func_stack[q] = g
      BY <1>2, <1>3, <3>1 DEF Opened
    <3>3. func_stack'[p] \in Callers' \ finished'
      BY <1>1, <2>1, <3>1, <3>2, SameLoops DEF PopStep
    <3>4. \A q \in DOMAIN func_stack' : p < q => Leads(func_stack[p], func_stack[q])'
      BY <1>2, <3>1, <3>2, SameLoops DEF PopStep
    <3>5. \A g \in Jumps(func_stack[p])' :
             g \in finished' \/ \E q \in DOMAIN func_stack' : p < q /\ func_stack'[q] = g
      <4> SUFFICES ASSUME NEW g \in Jumps(func_stack[p]), g \notin finished'
                   PROVE  \E q \in 1 .. n - 1 : p < q /\ func_stack'[q] = g
        BY <1>2, <3>1, SameReach DEF PopStep
      <4>1. PICK q \in 1 .. n : p < q /\ func_stack[q] = g
        BY <1>1, <3>2
      <4>2. q # n
        BY <1>1, <1>2, <4>1
      <4>3. q \in 1 .. n - 1
        BY <1>2, <4>1, <4>2
      <4>4. func_stack'[q] = g
        BY <1>2, <4>1, <4>3
      <4> QED BY <4>1, <4>3, <4>4
    <3> QED BY <3>3, <3>4, <3>5
  <2> QED BY <1>2, <1>5, <2>2 DEF Opened
<1>8. Bounded(Q, K)'
  <2>1. Callers' = Callers
    BY SameLoops DEF PopStep
  <2>2. \A p \in Q : p <= N + K * Cardinality(Below(Q, p))
    <3> SUFFICES ASSUME NEW p \in Q PROVE p <= N + K * Cardinality(Below(Q, p))
      OBVIOUS
    <3>1. p \in 1 .. n - 1 /\ ~ n < p
      BY <1>2, <1>5
    <3>2. Below(Q, p) = Below(P, p)
      BY <1>4, <3>1 DEF Below
    <3> QED BY <1>3, <1>5, <3>2 DEF Bounded
  <2>3. n - 1 <= N + K * Cardinality(Q)
    <3>1. CASE n \in P
      <4>1. Below(P, n) = Q
        <5>1. \A q \in P : q # n <=> q < n
          BY <1>2, <1>5
        <5> QED BY <1>4, <5>1 DEF Below
      <4>2. n <= N + K * Cardinality(Q)
        BY <1>3, <3>1, <4>1 DEF Bounded
      <4>3. IsFiniteSet(Q) /\ Cardinality(Q) \in Nat
        BY <1>5, <1>6, FS_Subset, FS_CardinalityType
      <4>4. N + K * Cardinality(Q) \in Nat
        BY <1>6, <4>3
      <4> QED BY <1>2, <4>2, <4>4
    <3>2. CASE n \notin P
      <4>1. Q = P
        BY <1>4, <3>2
      <4>2. n <= N + K * Cardinality(P)
        BY <1>0, <1>3 DEF Bounded
      <4>3. N + K * Cardinality(P) \in Nat
        BY <1>6
      <4>4. n - 1 <= N + K * Cardinality(P)
        BY <1>2, <4>2, <4>3
      <4> QED BY <4>1, <4>4
    <3> QED BY <3>1, <3>2
  <2> QED BY <1>2, <2>1, <2>2, <2>3 DEF Bounded, Below
<1> QED BY <1>7, <1>8

(* Only the callees of f are pushed, above f. *)
LEMMA PushFacts ==
  ASSUME PInv, EInv, NEW f \in Func, NEW s \in StackAfter(f), f \in Callers
  PROVE  \E t \in ToFinishFirst(f) :
           /\ s = func_stack \o t /\ s \in Seq(Func)
           /\ DOMAIN s = 1 .. Len(func_stack) + Len(t) /\ Len(s) = Len(func_stack) + Len(t)
           /\ \A i \in 1 .. Len(func_stack) : s[i] = func_stack[i]
           /\ \A i \in DOMAIN s : i > Len(func_stack) => s[i] \in Jumps(f)
           /\ \A g \in Jumps(f) \ finished : \E i \in DOMAIN s : i > Len(func_stack) /\ s[i] = g
<1>1. PICK t \in ToFinishFirst(f) : s = func_stack \o t
  BY DEF StackAfter
<1>2. func_stack \in Seq(Func) /\ t \in Seq(Func)
  BY ToFinishFirstIs DEF PInv, PassedType, EInv, StackType
<1>3. Len(func_stack) \in Nat /\ Len(t) \in Nat /\ DOMAIN t = 1 .. Len(t)
  BY <1>2, LenProperties
<1>4. /\ s \in Seq(Func) /\ Len(s) = Len(func_stack) + Len(t) /\ DOMAIN s = 1 .. Len(s)
      /\ \A i \in 1 .. Len(func_stack) + Len(t) :
           s[i] = IF i <= Len(func_stack) THEN func_stack[i] ELSE t[i - Len(func_stack)]
  BY <1>1, <1>2, ConcatProperties, LenProperties
<1>5. \A i \in DOMAIN s : i > Len(func_stack) => s[i] \in Jumps(f)
  <2> SUFFICES ASSUME NEW i \in DOMAIN s, i > Len(func_stack) PROVE s[i] \in Jumps(f)
    OBVIOUS
  <2>1. i - Len(func_stack) \in DOMAIN t /\ s[i] = t[i - Len(func_stack)]
    BY <1>3, <1>4
  <2> QED BY <2>1, ToFinishFirstIs DEF PInv, PassedType
<1>6. ASSUME NEW g \in Jumps(f) \ finished
      PROVE  \E i \in DOMAIN s : i > Len(func_stack) /\ s[i] = g
  <2>1. PICK j \in DOMAIN t : t[j] = g
    BY ToFinishFirstIs DEF PInv, PassedType
  <2>2. PICK i : i = Len(func_stack) + j
    OBVIOUS
  <2>3. i \in DOMAIN s /\ i > Len(func_stack) /\ i - Len(func_stack) = j
    BY <1>3, <1>4, <2>1, <2>2
  <2> QED BY <1>3, <1>4, <2>1, <2>3
<1>7. DOMAIN s = 1 .. Len(func_stack) + Len(t) /\ \A i \in 1 .. Len(func_stack) : s[i] = func_stack[i]
  BY <1>3, <1>4
<1> QED BY <1>1, <1>4, <1>5, <1>6, <1>7

LEMMA PushStep ==
  ASSUME PInv, EInv, NEW f \in Func, PushCallees(f)
  PROVE  StackType' /\ FinishedInv'
<1>1. f \in Callers /\ pc = "search" /\ UNCHANGED <<b_jump_callees_map, finished, pc>>
  BY DEF PushCallees, Popped, IsCaller, Callers
<1>2. func_stack' \in Seq(Func) /\ Range(func_stack) \subseteq Range(func_stack')
  <2>1. PICK s \in StackAfter(f) : func_stack' = s
    BY DEF PushCallees
  <2>2. PICK t \in ToFinishFirst(f) :
          /\ s \in Seq(Func) /\ DOMAIN s = 1 .. Len(func_stack) + Len(t)
          /\ \A i \in 1 .. Len(func_stack) : s[i] = func_stack[i]
    BY <1>1, PushFacts
  <2>3. /\ DOMAIN func_stack = 1 .. Len(func_stack) /\ Len(func_stack) \in Nat /\ Len(t) \in Nat
    <3>1. t \in Seq(Func)
      BY <1>1, ToFinishFirstIs DEF PInv, PassedType
    <3> QED BY <3>1, LenProperties DEF EInv, StackType
  <2>4. \A i \in DOMAIN func_stack : i \in DOMAIN s /\ s[i] = func_stack[i]
    BY <2>2, <2>3
  <2> QED BY <2>1, <2>2, <2>4 DEF Range
<1> QED BY <1>1, <1>2, SameLoops DEF EInv, StackType, FinishedInv

(* The top is not open: its callees would be finished.  So there is room   *)
(* for what is pushed above it, which is all reached from what was opened. *)
LEMMA PushOpened ==
  ASSUME PInv, EInv, NEW f \in Func, Popped(f), f \in Callers, f \notin finished,
         Unfinished(f) # {}, NEW s \in StackAfter(f),
         NEW K \in Nat, Room(K), NoLoop
  PROVE  /\ Len(s) <= MaxStack
         /\ UNCHANGED <<b_jump_callees_map, finished>> /\ func_stack' = s
              => \E P : Opened(P)' /\ Bounded(P, K)'
<1> DEFINE N == Cardinality(Callers)
<1>1. /\ func_stack \in Seq(Func) /\ func_stack # <<>> /\ b_jump_callees_map \in CalleeMaps
      /\ pc = "search"
  BY DEF EInv, StackType, Popped, PInv, PassedType
<1>2. PICK n \in Nat \ {0} : /\ n = Len(func_stack) /\ DOMAIN func_stack = 1 .. n
                             /\ f = func_stack[n]
  BY <1>1, FrontOfStack DEF Popped
<1>3. PICK t \in ToFinishFirst(f) :
        /\ DOMAIN s = 1 .. n + Len(t) /\ Len(s) = n + Len(t)
        /\ \A i \in 1 .. n : s[i] = func_stack[i]
        /\ \A i \in DOMAIN s : i > n => s[i] \in Jumps(f)
        /\ \A g \in Jumps(f) \ finished : \E i \in DOMAIN s : i > n /\ s[i] = g
  BY <1>2, PushFacts
<1>4. Len(t) \in Nat /\ Len(t) <= K
  <2>1. Len(b_jump_callees_map[f]) <= K /\ Len(b_jump_callees_map[f]) \in Nat
    BY <1>1, CalleesAssumption, LenProperties DEF Room, Callers
  <2>2. t \in Seq(Func) /\ Len(t) <= Len(b_jump_callees_map[f])
    BY <1>1, ToFinishFirstIs
  <2> QED BY <2>1, <2>2, LenProperties
<1>5. PICK P : Opened(P) /\ Bounded(P, K)
  BY <1>1 DEF EInv, OpenedInv
<1>6. P \subseteq 1 .. n /\ n \notin P
  <2>1. P \subseteq 1 .. n
    BY <1>2, <1>5 DEF Opened
  <2>2. Jumps(f) \subseteq finished => Unfinished(f) = {}
    BY DEF Unfinished, Callees, Jumps, IsCaller, Callers
  <2>3. ASSUME n \in P PROVE FALSE
    <3>1. \A q \in 1 .. n : ~ n < q
      BY <1>2
    <3>2. Jumps(f) \subseteq finished
      BY <1>2, <1>5, <2>3, <3>1 DEF Opened
    <3> QED BY <2>2, <3>2
  <2> QED BY <2>1, <2>3
<1>7. PICK Q : Q = P \cup {n}
  OBVIOUS
<1>8. /\ \A p \in P : p \in 1 .. n - 1
      /\ \A p \in Q : p \in 1 .. n
  BY <1>2, <1>6, <1>7
<1>9. ASSUME NEW p \in Q
      PROVE  /\ func_stack[p] \in Callers \ finished
             /\ \A q \in DOMAIN s : p < q => Leads(func_stack[p], s[q])
             /\ \A g \in Jumps(func_stack[p]) :
                  g \in finished \/ \E q \in DOMAIN s : p < q /\ s[q] = g
  <2>1. CASE p = n
    <3>1. \A q \in DOMAIN s : n < q => Leads(f, s[q])
      BY <1>1, <1>2, <1>3, LeadsOn
    <3> QED BY <1>2, <1>3, <2>1, <3>1
  <2>2. CASE p \in P
    <3>1. /\ func_stack[p] \in Callers \ finished
          /\ \A q \in 1 .. n : p < q => Leads(func_stack[p], func_stack[q])
          /\ \A g \in Jumps(func_stack[p]) :
               g \in finished \/ \E q \in 1 .. n : p < q /\ func_stack[q] = g
      BY <1>2, <1>5, <2>2 DEF Opened
    <3>2. func_stack[p] \in Func
      BY <1>1, <3>1, CalleesAssumption DEF Callers
    <3>3. Leads(func_stack[p], f) /\ p < n
      BY <1>2, <1>8, <2>2, <3>1
    <3>4. ASSUME NEW q \in DOMAIN s, p < q PROVE Leads(func_stack[p], s[q])
      <4>1. CASE q \in 1 .. n
        BY <1>3, <3>1, <3>4, <4>1
      <4>2. CASE q > n
        <5>1. s[q] \in Jumps(f)
          BY <1>3, <4>2
        <5> QED BY <1>1, <3>2, <3>3, <5>1, LeadsOn
      <4>3. q \in 1 .. n \/ q > n
        BY <1>2, <1>3, <1>4
      <4> QED BY <4>1, <4>2, <4>3
    <3>5. \A q \in 1 .. n : q \in DOMAIN s /\ s[q] = func_stack[q]
      BY <1>2, <1>3, <1>4
    <3> QED BY <3>1, <3>4, <3>5
  <2> QED BY <1>7, <2>1, <2>2
<1>10. /\ IsFiniteSet(P) /\ Cardinality(P) \in Nat /\ N \in Nat
       /\ Cardinality(Q) = Cardinality(P) + 1
  <2>1. IsFiniteSet(P) /\ Cardinality(P) \in Nat /\ N \in Nat
    <3>1. P \in SUBSET DOMAIN func_stack
      BY <1>5 DEF Opened
    <3>2. /\ \A p \in P : func_stack[p] \in Callers
          /\ \A p, q \in P : p < q => Leads(func_stack[p], func_stack[q])
      BY <1>5, <3>1 DEF Opened
    <3> QED BY <1>1, <3>1, <3>2, OpenedAreFew DEF EInv
  <2> QED BY <1>6, <1>7, <2>1, FS_AddElement

<1>11. Cardinality(Q) <= N
  <2>1. Q \in SUBSET DOMAIN func_stack
    BY <1>2, <1>8
  <2>2. \A p \in Q : func_stack[p] \in Callers
    BY <1>9
  <2>3. \A p, q \in Q : p < q => Leads(func_stack[p], func_stack[q])
    <3>1. \A q \in Q : q \in DOMAIN s /\ s[q] = func_stack[q]
      BY <1>2, <1>3, <1>4, <1>8
    <3> QED BY <1>9, <3>1
  <2> QED BY <1>1, <2>1, <2>2, <2>3, OpenedAreFew DEF EInv
<1>12. Len(s) <= N + K * Cardinality(Q)
  <2>1. n <= N + K * Cardinality(P)
    BY <1>2, <1>5 DEF Bounded
  <2>2. K * (Cardinality(P) + 1) = K * Cardinality(P) + K /\ K * Cardinality(P) \in Nat
    BY <1>10
  <2> HIDE DEF N
  <2>3. N + K * Cardinality(Q) = N + K * Cardinality(P) + K
    BY <1>10, <2>2
  <2> QED BY <1>2, <1>3, <1>4, <1>10, <2>1, <2>2, <2>3
<1>13. Len(s) <= MaxStack
  <2>1. N + K * N <= MaxStack
    BY <1>1 DEF Room, Callers
  <2>2. K * Cardinality(Q) <= K * N
    <3>1. PICK d \in Nat : N = Cardinality(Q) + d
      <4>1. N - Cardinality(Q) \in Nat /\ N = Cardinality(Q) + (N - Cardinality(Q))
        BY <1>10, <1>11
      <4> QED BY <4>1
    <3>2. K * N = K * Cardinality(Q) + K * d /\ K * d \in Nat /\ K * Cardinality(Q) \in Nat
      BY <1>10, <3>1
    <3> QED BY <3>2
  <2>3. Len(s) \in Nat /\ K * Cardinality(Q) \in Nat /\ K * N \in Nat
    BY <1>2, <1>3, <1>4, <1>10
  <2> QED BY <1>10, <1>12, <2>1, <2>2, <2>3, MaxStackAssumption
<1>14. ASSUME UNCHANGED <<b_jump_callees_map, finished>>, func_stack' = s
       PROVE  Opened(Q)' /\ Bounded(Q, K)'
  <2>1. \A p \in Q : p \in DOMAIN s /\ s[p] = func_stack[p]
    BY <1>2, <1>3, <1>4, <1>8
  <2>2. Opened(Q)'
    <3>1. ASSUME NEW p \in Q
          PROVE  /\ func_stack'[p] \in Callers' \ finished'
                 /\ \A q \in DOMAIN func_stack' : p < q => Leads(func_stack[p], func_stack[q])'
                 /\ \A g \in Jumps(func_stack[p])' :
                      g \in finished' \/ \E q \in DOMAIN func_stack' : p < q /\ func_stack'[q] = g
      <4>1. func_stack'[p] = func_stack[p] /\ func_stack' = s /\ finished' = finished
        BY <1>14, <2>1
      <4>2. \A q \in DOMAIN func_stack' : p < q => Leads(func_stack[p], func_stack[q])'
        BY <1>9, <1>14, <4>1, SameLoops
      <4>3. \A g \in Jumps(func_stack[p])' :
              g \in finished' \/ \E q \in DOMAIN func_stack' : p < q /\ func_stack'[q] = g
        BY <1>9, <1>14, <4>1, SameReach
      <4>4. func_stack'[p] \in Callers' \ finished'
        BY <1>9, <1>14, <4>1, SameLoops
      <4> QED BY <4>2, <4>3, <4>4
    <3> QED BY <1>14, <2>1, <3>1 DEF Opened
  <2>3. \A p \in Q : p <= N + K * Cardinality(Below(Q, p))
    <3> SUFFICES ASSUME NEW p \in Q PROVE p <= N + K * Cardinality(Below(Q, p))
      OBVIOUS
    <3>1. CASE p = n
      <4>1. \A q \in P : q < n
        BY <1>2, <1>8
      <4>2. Below(Q, n) = P
        BY <1>2, <1>7, <4>1 DEF Below
      <4> QED BY <1>2, <1>5, <3>1, <4>2 DEF Bounded
    <3>2. CASE p \in P
      <4>1. ~ n < p
        BY <1>2, <1>8, <3>2
      <4>2. Below(Q, p) = Below(P, p)
        BY <1>7, <4>1 DEF Below
      <4> QED BY <1>5, <3>2, <4>2 DEF Bounded
    <3> QED BY <1>7, <3>1, <3>2
  <2>4. Callers' = Callers
    BY <1>14, SameLoops
  <2> QED BY <1>12, <1>14, <2>2, <2>3, <2>4 DEF Bounded, Below
<1> QED BY <1>13, <1>14

(* Nothing changes but pc. *)
LEMMA PcStep ==
  ASSUME EInv, UNCHANGED <<b_jump_callees_map, func_stack, finished>>,
         pc' \in {"search", "done", "exhausted"},
         pc' = "done" => func_stack = <<>>,
         pc' = "exhausted" => pc = "exhausted" \/ \A K \in Nat : ~ (Room(K) /\ NoLoop)
  PROVE  EInv'
<1>1. StackType'
  BY DEF EInv, StackType
<1>2. FinishedInv'
  BY SameLoops DEF EInv, FinishedInv
<1>3. OpenedInv'
  <2> SUFFICES ASSUME NEW K \in Nat, Room(K), NoLoop
               PROVE  pc' # "exhausted" /\ \E P : Opened(P)' /\ Bounded(P, K)'
    BY SameLoops DEF OpenedInv, Room
  <2>1. pc # "exhausted"
    BY DEF EInv, OpenedInv
  <2>2. PICK P : Opened(P) /\ Bounded(P, K)
    BY DEF EInv, OpenedInv
  <2>3. Opened(P)'
    BY <2>2, SameLoops, SameReach DEF Opened
  <2>4. Bounded(P, K)'
    BY <2>2, SameLoops DEF Bounded, Below
  <2> QED BY <2>1, <2>3, <2>4
<1> QED BY <1>1, <1>2, <1>3 DEF EInv

LEMMA EStep == PInv /\ EInv /\ [Next]_vars => EInv'
<1> SUFFICES ASSUME PInv, EInv, [Next]_vars PROVE EInv'
  OBVIOUS
<1>1. ASSUME NEW f \in Func, PopStep(f) PROVE EInv'
  <2>1. StackType'
    BY <1>1, FrontOfStack DEF EInv, StackType, PopStep, Popped
  <2> QED BY <1>1, <2>1, PopFinished, PopOpened DEF EInv
<1>2. ASSUME NEW f \in Func, AlreadyFinished(f) PROVE EInv'
  <2>1. finished' = finished \cup {f}
    BY <1>2 DEF AlreadyFinished
  <2> QED BY <1>1, <1>2, <2>1 DEF AlreadyFinished, PopStep
<1>3. ASSUME NEW f \in Func, FinishLeaf(f) PROVE EInv'
  BY <1>1, <1>3 DEF FinishLeaf, PopStep, Jumps
<1>4. ASSUME NEW f \in Func, FinishCaller(f) PROVE EInv'
  BY <1>1, <1>4 DEF FinishCaller, PopStep, Jumps, Callees, Unfinished
<1>5. ASSUME NEW f \in Func, PushCallees(f) PROVE EInv'
  <2>1. StackType' /\ FinishedInv'
    BY <1>5, PushStep
  <2>2. OpenedInv'
    <3> SUFFICES ASSUME NEW K \in Nat, Room(K), NoLoop
                 PROVE  pc' # "exhausted" /\ \E P : Opened(P)' /\ Bounded(P, K)'
      BY <1>5, SameLoops DEF OpenedInv, Room, PushCallees
    <3>1. pc' = "search"
      BY <1>5 DEF PushCallees, Popped
    <3>2. PICK s \in StackAfter(f) : func_stack' = s
      BY <1>5 DEF PushCallees
    <3> QED BY <1>5, <3>1, <3>2, PushOpened DEF PushCallees, IsCaller, Callers
  <2> QED BY <2>1, <2>2 DEF EInv
<1>6. ASSUME NEW f \in Func, OutOfMemory(f) PROVE EInv'
  <2>1. PICK s \in StackAfter(f) : Len(s) > MaxStack
    BY <1>6 DEF OutOfMemory
  <2>2. ASSUME NEW K \in Nat, Room(K), NoLoop PROVE FALSE
    <3>1. Len(s) <= MaxStack
      BY <1>6, <2>2, PushOpened DEF OutOfMemory, IsCaller, Callers
    <3>2. Len(s) \in Nat
      <4>1. s \in Seq(Func)
        BY <1>6, PushFacts DEF OutOfMemory, IsCaller, Callers
      <4> QED BY <4>1, LenProperties
    <3> QED BY <2>1, <3>1, <3>2, MaxStackAssumption
  <2> QED BY <1>6, <2>2, PcStep DEF OutOfMemory
<1>7. CASE SearchDone
  BY <1>7, PcStep DEF SearchDone
<1>8. CASE UNCHANGED vars
  <2>1. pc \in {"search", "done", "exhausted"} /\ (pc = "done" => func_stack = <<>>)
    BY DEF EInv, StackType, FinishedInv
  <2> QED BY <1>8, <2>1, PcStep DEF vars
<1>9. CASE Stopped
  BY <1>8, <1>9 DEF Stopped
<1> QED BY <1>2, <1>3, <1>4, <1>5, <1>6, <1>7, <1>8, <1>9 DEF Next

(* With memory for all callers and their callees, the search runs out of   *)
(* it only if functions B to each other in a circle; and if it is done,    *)
(* there is no such circle and every caller is finished.                   *)
THEOREM EndlessTheorem == Spec => [](EnoughMemory => OnlyLoopsAreEndless)
<1>1. ASSUME PInv, EInv, EnoughMemory PROVE OnlyLoopsAreEndless
  <2>1. pc = "exhausted" => \E f \in Callers : OnLoop(f)
    BY <1>1 DEF EInv, OpenedInv, EnoughMemory, NoLoop
  <2>2. pc = "done" => Callers \subseteq finished /\ ~ \E f \in Callers : OnLoop(f)
    <3>1. pc = "done" => Range(func_stack) = {}
      BY <1>1 DEF EInv, FinishedInv, Range
    <3> QED BY <1>1, <3>1 DEF EInv, FinishedInv
  <2> QED BY <2>1, <2>2 DEF OnlyLoopsAreEndless, Callers
<1>2. PInv /\ EInv => (EnoughMemory => OnlyLoopsAreEndless)
  BY <1>1
<1> QED BY <1>2, PassedInit, PassedStep, EInit, EStep, PTL DEF Spec

=============================================================================
