------------------------- MODULE RemoveLoop_proofs -------------------------
(***************************************************************************)
(* RemoveLoop, for every control flow graph.  A merge is only sound if the *)
(* path of a stack entry still leads to its bag after any number of merges *)
(* in between: PathInv says so of every entry, in terms of the blocks the  *)
(* bags started from, whose graph never changes.                           *)
(* No loop is missed because a finished bag leads only to finished bags,   *)
(* and every other block is reached from a bag that waits on the stack.    *)
(***************************************************************************)
EXTENDS RemoveLoop, FiniteSetTheorems, SequenceTheorems, TLAPS

PathInv(b, path, seen) ==
  /\ \A v \in seen : \E i \in DOMAIN path : true_bag[path[i]] = true_bag[v]
  /\ \A i \in DOMAIN path : Reaches(cfg, path[i], b)
  /\ \A i, j \in DOMAIN path : i < j => Reaches(cfg, path[i], path[j])

StackInv ==
  \A k \in DOMAIN bag_stack :
    PathInv(bag_stack[k].bag, bag_stack[k].path, bag_stack[k].visited)

MergeInv ==
  pc = "merge" => /\ PathInv(target_bag, pre_path, visited)
                  /\ target_bag \in visited
                  /\ visited \subseteq LiveBags

EdgesInv ==
  \A b, c \in Bag : /\ c \in children[b] => Reaches(cfg, b, c)
                    /\ c \in parents[b] => Reaches(cfg, c, b)

(* The bags that are left partition the blocks. *)
PartitionInv ==
  \A b \in Bag : /\ true_bag[b] \in LiveBags
                 /\ b \in LiveBags => in_bbs[b] = {c \in Bag : true_bag[c] = b}

IInv ==
  /\ TypeOK
  /\ StackInv
  /\ MergeInv
  /\ EdgesInv
  /\ PartitionInv
  /\ OwnRegsAreTheBlocks
  /\ BagNumCounts
  /\ MergedBlocksAreLoops
-----------------------------------------------------------------------------
(***************************************************************************)
(* Reachability and sequences.                                             *)
(***************************************************************************)
LEMMA ReachesItself == ASSUME NEW g, NEW b \in Bag PROVE Reaches(g, b, b)
BY DEF Reaches

LEMMA ReachesTransitive ==
  ASSUME NEW g, NEW b, NEW c, NEW d, Reaches(g, b, c), Reaches(g, c, d)
  PROVE  Reaches(g, b, d)
BY DEF Reaches

LEMMA ReachesChild ==
  ASSUME NEW g, NEW b, NEW c \in g[b]
  PROVE  Reaches(g, b, c)
BY DEF Reaches, Closed

LEMMA FrontOfSeq ==
  ASSUME NEW S, NEW s \in Seq(S), s # <<>>
  PROVE  /\ Front(s) \in Seq(S)
         /\ Len(Front(s)) = Len(s) - 1
         /\ DOMAIN Front(s) = 1 .. Len(s) - 1
         /\ \A i \in 1 .. Len(s) - 1 : Front(s)[i] = s[i]
         /\ Last(s) = s[Len(s)]
         /\ Last(s) \in S
         /\ Len(s) \in Nat \ {0}
         /\ DOMAIN s = 1 .. Len(s)
<1>1. Len(s) \in Nat /\ DOMAIN s = 1 .. Len(s) /\ \A i \in 1 .. Len(s) : s[i] \in S
  BY LenProperties, ElementOfSeq
<1>2. Len(s) # 0
  BY EmptySeq
<1>3. \A i \in 1 .. Len(s) - 1 : s[i] \in S
  BY <1>1
<1>4. Len(s) - 1 \in Int /\ 1 \in Int
  BY <1>1
<1>5. /\ SubSeq(s, 1, Len(s) - 1) \in Seq(S)
      /\ Len(SubSeq(s, 1, Len(s) - 1))
           = IF 1 <= Len(s) - 1 THEN (Len(s) - 1) - 1 + 1 ELSE 0
      /\ \A i \in 1 .. (Len(s) - 1) - 1 + 1 : SubSeq(s, 1, Len(s) - 1)[i] = s[1 + i - 1]
  BY <1>3, <1>4, SubSeqProperties
<1>6. Front(s) = SubSeq(s, 1, Len(s) - 1)
  BY DEF Front
<1>7. DOMAIN Front(s) = 1 .. Len(Front(s))
  BY <1>5, <1>6, LenProperties
<1>8. Last(s) = s[Len(s)]
  BY DEF Last
<1>9. QED
  BY <1>1, <1>2, <1>5, <1>6, <1>7, <1>8

(* What a stack holds after a pop and a push. *)
LEMMA ConcatElements ==
  ASSUME NEW S, NEW s \in Seq(S), NEW t \in Seq(S), NEW k \in DOMAIN (s \o t)
  PROVE  \/ k \in DOMAIN s /\ (s \o t)[k] = s[k]
         \/ \E i \in DOMAIN t : (s \o t)[k] = t[i]
<1>1. /\ Len(s) \in Nat /\ DOMAIN s = 1 .. Len(s)
      /\ Len(t) \in Nat /\ DOMAIN t = 1 .. Len(t)
  BY LenProperties
<1>2. /\ s \o t \in Seq(S)
      /\ Len(s \o t) = Len(s) + Len(t)
      /\ \A i \in 1 .. Len(s) + Len(t) :
           (s \o t)[i] = IF i <= Len(s) THEN s[i] ELSE t[i - Len(s)]
  BY ConcatProperties
<1>3. k \in 1 .. Len(s) + Len(t)
  BY <1>2, LenProperties
<1>4. CASE k <= Len(s)
  BY <1>1, <1>2, <1>3, <1>4
<1>5. CASE k > Len(s)
  <2>1. k - Len(s) \in DOMAIN t /\ (s \o t)[k] = t[k - Len(s)]
    BY <1>1, <1>2, <1>3, <1>5
  <2>2. QED
    BY <2>1
<1>6. QED
  BY <1>1, <1>3, <1>4, <1>5

LEMMA AppendElements ==
  ASSUME NEW S, NEW s \in Seq(S), NEW e \in S
  PROVE  /\ Append(s, e) \in Seq(S)
         /\ \A k \in DOMAIN Append(s, e) :
              \/ k \in DOMAIN s /\ Append(s, e)[k] = s[k]
              \/ k = Len(s) + 1 /\ Append(s, e)[k] = e
         /\ DOMAIN Append(s, e) = 1 .. Len(s) + 1
         /\ DOMAIN s = 1 .. Len(s)
         /\ Len(s) \in Nat
<1>1. Len(s) \in Nat /\ DOMAIN s = 1 .. Len(s)
  BY LenProperties
<1>2. /\ Append(s, e) \in Seq(S)
      /\ Len(Append(s, e)) = Len(s) + 1
      /\ \A i \in 1 .. Len(s) : Append(s, e)[i] = s[i]
      /\ Append(s, e)[Len(s) + 1] = e
  BY AppendProperties
<1>3. DOMAIN Append(s, e) = 1 .. Len(s) + 1
  BY <1>2, LenProperties
<1>4. QED
  BY <1>1, <1>2, <1>3
-----------------------------------------------------------------------------
(***************************************************************************)
(* The initial states.                                                     *)
(***************************************************************************)
LEMMA InitIInv == Init => IInv
<1> SUFFICES ASSUME Init PROVE IInv
  OBVIOUS
<1>1. IsCFG(cfg)
  BY GraphsAssumption DEF Init
<1>2. Entry(Root, <<>>, {}) \in EntryType
  BY BagAssumption DEF Entry, EntryType
<1>3. bag_stack \in Seq(EntryType)
  BY <1>2 DEF Init
<1>4. bag_num \in Int
  BY BagAssumption, FS_CardinalityType DEF Init
<1>5. TypeOK
  BY <1>1, <1>3, <1>4, BagAssumption, RegsAssumption DEF Init, TypeOK, IsCFG
<1>6. StackInv
  <2>1. DOMAIN bag_stack = {1} /\ bag_stack[1].path = <<>> /\ bag_stack[1].visited = {}
    BY DEF Init, Entry
  <2>2. QED
    BY <2>1 DEF StackInv, PathInv
<1>7. MergeInv
  BY DEF Init, MergeInv
<1>8. EdgesInv
  BY ReachesChild DEF Init, EdgesInv
<1>9. LiveBags = Bag
  BY DEF Init, LiveBags
<1>10. PartitionInv /\ BagNumCounts
  BY <1>9 DEF Init, PartitionInv, BagNumCounts
<1>11. OwnRegsAreTheBlocks
  <2>1. ASSUME NEW m \in [Bag -> RegMap], NEW b \in Bag
        PROVE  IsWidestOf(m[b], m, {b})
    <3>1. \A r \in Reg : m[b][r] \in Nat
      BY WidthAssumption DEF RegMap
    <3>2. QED
      BY <3>1 DEF IsWidestOf
  <2>2. QED
    BY <1>9, <2>1, RegsAssumption DEF Init, OwnRegsAreTheBlocks
<1>12. MergedBlocksAreLoops
  BY ReachesItself DEF Init, MergedBlocksAreLoops
<1>13. QED
  BY <1>5, <1>6, <1>7, <1>8, <1>10, <1>11, <1>12 DEF IInv
-----------------------------------------------------------------------------
(***************************************************************************)
(* The search.  A popped entry satisfies PathInv with its true bags.       *)
(***************************************************************************)
LEMMA PopFacts ==
  ASSUME IInv, NEW b, NEW path, NEW seen, Pop(b, path, seen)
  PROVE  /\ b \in Bag /\ b \in LiveBags
         /\ path \in Seq(Bag)
         /\ seen \subseteq LiveBags /\ seen \subseteq Bag
         /\ PathInv(b, path, seen)
         /\ Front(bag_stack) \in Seq(EntryType)
         /\ DOMAIN Front(bag_stack) \subseteq DOMAIN bag_stack
         /\ \A k \in DOMAIN Front(bag_stack) : Front(bag_stack)[k] = bag_stack[k]
<1> DEFINE e == Last(bag_stack)
<1>1. /\ bag_stack \in Seq(EntryType) /\ bag_stack # <<>>
      /\ true_bag \in [Bag -> Bag]
  BY DEF IInv, TypeOK, Pop
<1>2. /\ Front(bag_stack) \in Seq(EntryType)
      /\ DOMAIN Front(bag_stack) = 1 .. Len(bag_stack) - 1
      /\ \A i \in 1 .. Len(bag_stack) - 1 : Front(bag_stack)[i] = bag_stack[i]
      /\ e = bag_stack[Len(bag_stack)]
      /\ e \in EntryType
      /\ Len(bag_stack) \in Nat \ {0}
      /\ DOMAIN bag_stack = 1 .. Len(bag_stack)
  BY <1>1, FrontOfSeq
<1>3. e.bag \in Bag /\ e.path \in Seq(Bag) /\ e.visited \subseteq Bag
  BY <1>2 DEF EntryType
<1>4. b = true_bag[e.bag] /\ path = e.path /\ seen = True(e.visited)
  BY DEF Pop
<1>5. \A c \in Bag : true_bag[c] \in LiveBags /\ true_bag[true_bag[c]] = true_bag[c]
  BY DEF IInv, PartitionInv, LiveBags
<1>6. b \in Bag /\ b \in LiveBags /\ path \in Seq(Bag) /\ seen \subseteq LiveBags
      /\ seen \subseteq Bag
  BY <1>1, <1>3, <1>4, <1>5 DEF True
<1>7. PathInv(e.bag, e.path, e.visited)
  BY <1>2 DEF IInv, StackInv
<1>8. Reaches(cfg, e.bag, b)
  BY <1>3, <1>4, <1>5, <1>6 DEF IInv, MergedBlocksAreLoops
<1>9. \A i \in DOMAIN path : Reaches(cfg, path[i], b)
  BY <1>4, <1>7, <1>8, ReachesTransitive DEF PathInv
<1>10. \A v \in seen : \E i \in DOMAIN path : true_bag[path[i]] = true_bag[v]
  <2> SUFFICES ASSUME NEW w \in e.visited
               PROVE  \E i \in DOMAIN path : true_bag[path[i]] = true_bag[true_bag[w]]
    BY <1>4 DEF True
  <2>1. true_bag[true_bag[w]] = true_bag[w]
    BY <1>3, <1>5
  <2>2. QED
    BY <1>4, <1>7, <2>1 DEF PathInv
<1>11. PathInv(b, path, seen)
  BY <1>4, <1>7, <1>9, <1>10 DEF PathInv
<1>12. QED
  BY <1>2, <1>6, <1>11

(* The parts of the invariant that only speak of the graph of bags. *)
LEMMA GraphUnchanged ==
  ASSUME IInv, UNCHANGED <<cfg, graphVars, bag_num>>
  PROVE  EdgesInv' /\ PartitionInv' /\ OwnRegsAreTheBlocks' /\ BagNumCounts'
         /\ MergedBlocksAreLoops'
<1>1. LiveBags' = LiveBags
  BY DEF graphVars, LiveBags
<1>2. QED
  BY <1>1 DEF IInv, graphVars, EdgesInv, PartitionInv, OwnRegsAreTheBlocks, BagNumCounts,
              MergedBlocksAreLoops, IsWidestOf

(* Dropping the popped entry leaves the others alone. *)
LEMMA PopStep ==
  ASSUME IInv, NEW b, NEW path, NEW seen, Pop(b, path, seen),
         bag_stack' = Front(bag_stack), UNCHANGED <<cfg, true_bag>>
  PROVE  StackInv' /\ bag_stack' \in Seq(EntryType)
BY PopFacts DEF IInv, StackInv, PathInv

LEMMA SearchStep ==
  ASSUME IInv, NEW b, NEW path, NEW seen,
         SkipFinished(b, path, seen) \/ LoopFound(b, path, seen) \/ FinishBag(b, path, seen)
  PROVE  IInv'
<1>1. Pop(b, path, seen) /\ bag_stack' = Front(bag_stack)
      /\ UNCHANGED <<cfg, graphVars, bag_num, is_loop>>
  BY DEF SkipFinished, LoopFound, FinishBag
<1>2. StackInv' /\ bag_stack' \in Seq(EntryType)
  BY <1>1, PopStep DEF graphVars
<1>3. /\ b \in Bag /\ path \in Seq(Bag) /\ seen \subseteq Bag /\ seen \subseteq LiveBags
      /\ PathInv(b, path, seen)
  BY <1>1, PopFacts
<1>4. TypeOK'
  BY <1>1, <1>2, <1>3 DEF IInv, TypeOK, SkipFinished, LoopFound, FinishBag, graphVars
<1>5. MergeInv'
  <2>1. CASE LoopFound(b, path, seen)
    BY <1>1, <1>3, <2>1 DEF LoopFound, MergeInv, PathInv, LiveBags, graphVars
  <2>2. CASE SkipFinished(b, path, seen) \/ FinishBag(b, path, seen)
    BY <2>2 DEF SkipFinished, FinishBag, MergeInv, Pop
  <2>3. QED
    BY <2>1, <2>2
<1>6. QED
  BY <1>1, <1>2, <1>4, <1>5, GraphUnchanged DEF IInv
(***************************************************************************)
(* The children that are pushed are reached from the bag, and their path   *)
(* is the path of the bag with the bag at its end.                         *)
(***************************************************************************)
LEMMA ChildPath ==
  ASSUME IInv, NEW b \in LiveBags, b \in Bag, NEW path \in Seq(Bag), NEW seen \in SUBSET Bag,
         PathInv(b, path, seen), NEW c \in children[b]
  PROVE  PathInv(true_bag[c], Append(path, b), seen \cup {b})
<1> DEFINE p == Append(path, b)
<1>1. /\ \A k \in DOMAIN p : \/ k \in DOMAIN path /\ p[k] = path[k]
                             \/ k = Len(path) + 1 /\ p[k] = b
      /\ DOMAIN p = 1 .. Len(path) + 1
      /\ DOMAIN path = 1 .. Len(path)
      /\ Len(path) \in Nat
  BY AppendElements
<1>2. \A k \in DOMAIN path : k \in DOMAIN p /\ p[k] = path[k]
  BY <1>1
<1>3. Len(path) + 1 \in DOMAIN p /\ p[Len(path) + 1] = b
  BY <1>1
<1>4. Reaches(cfg, b, true_bag[c])
  <2>1. c \in Bag /\ true_bag[c] \in Bag /\ true_bag[true_bag[c]] = true_bag[c]
    BY DEF IInv, TypeOK, PartitionInv, LiveBags
  <2>2. Reaches(cfg, b, c)
    BY <2>1 DEF IInv, EdgesInv
  <2>3. Reaches(cfg, c, true_bag[c])
    BY <2>1 DEF IInv, MergedBlocksAreLoops
  <2>4. QED
    BY <2>2, <2>3, ReachesTransitive
<1>5. \A v \in seen \cup {b} : \E i \in DOMAIN p : true_bag[p[i]] = true_bag[v]
  <2>1. \A v \in seen : \E i \in DOMAIN path : true_bag[path[i]] = true_bag[v]
    BY DEF PathInv
  <2>2. QED
    BY <1>2, <1>3, <2>1, Zenon
<1>6. \A i \in DOMAIN p : Reaches(cfg, p[i], true_bag[c])
  <2>1. \A i \in DOMAIN path : Reaches(cfg, path[i], b)
    BY DEF PathInv
  <2>2. \A i \in DOMAIN path : Reaches(cfg, path[i], true_bag[c])
    BY <1>4, <2>1, ReachesTransitive, Zenon
  <2>3. QED
    BY <1>1, <1>4, <2>2, Zenon
<1>7. \A i, j \in DOMAIN p : i < j => Reaches(cfg, p[i], p[j])
  <2> SUFFICES ASSUME NEW i \in DOMAIN p, NEW j \in DOMAIN p, i < j
               PROVE  Reaches(cfg, p[i], p[j])
    OBVIOUS
  <2>1. i \in DOMAIN path /\ p[i] = path[i]
    BY <1>1
  <2>2. CASE j \in DOMAIN path /\ p[j] = path[j]
    BY <2>1, <2>2 DEF PathInv
  <2>3. CASE p[j] = b
    BY <2>1, <2>3 DEF PathInv
  <2>4. QED
    BY <1>1, <2>2, <2>3
<1>8. QED
  BY <1>5, <1>6, <1>7 DEF PathInv

LEMMA PushStep ==
  ASSUME IInv, NEW b, NEW path, NEW seen, PushChildren(b, path, seen)
  PROVE  IInv'
<1>1. /\ Pop(b, path, seen)
      /\ UNCHANGED <<cfg, pc, target_bag, pre_path, visited, finished, graphVars, is_loop,
                     bag_num>>
  BY DEF PushChildren
<1>2. PICK cs \in Ascending(Unfinished(b)) :
        bag_stack' = Front(bag_stack) \o ChildEntries(cs, b, path, seen)
  BY DEF PushChildren
<1> DEFINE es == ChildEntries(cs, b, path, seen)
<1>3. /\ b \in Bag /\ b \in LiveBags /\ path \in Seq(Bag) /\ seen \subseteq Bag
      /\ PathInv(b, path, seen)
      /\ Front(bag_stack) \in Seq(EntryType)
      /\ DOMAIN Front(bag_stack) \subseteq DOMAIN bag_stack
      /\ \A k \in DOMAIN Front(bag_stack) : Front(bag_stack)[k] = bag_stack[k]
  BY <1>1, PopFacts
<1>4. /\ cs \in [1 .. Cardinality(Unfinished(b)) -> Unfinished(b)]
      /\ Cardinality(Unfinished(b)) \in Nat
  <2>1. Unfinished(b) \subseteq Bag
    BY <1>3 DEF Unfinished, IInv, TypeOK
  <2>2. Cardinality(Unfinished(b)) \in Nat
    BY <2>1, BagAssumption, FS_Subset, FS_CardinalityType
  <2>3. QED
    BY <2>2 DEF Ascending
<1>5. \A i \in DOMAIN cs : cs[i] \in children[b] /\ cs[i] \in Bag /\ true_bag[cs[i]] \in Bag
  BY <1>3, <1>4 DEF Unfinished, IInv, TypeOK
<1>6. \A i \in DOMAIN cs :
        /\ es[i] = [bag |-> true_bag[cs[i]], path |-> Append(path, b),
                    visited |-> seen \cup {b}]
        /\ es[i] \in EntryType
  BY <1>3, <1>5, AppendElements DEF ChildEntries, Entry, EntryType
<1>7. es \in Seq(EntryType) /\ DOMAIN es = DOMAIN cs
  <2>1. es \in [1 .. Cardinality(Unfinished(b)) -> EntryType] /\ DOMAIN es = DOMAIN cs
    BY <1>4, <1>6 DEF ChildEntries
  <2>2. QED
    BY <1>4, <2>1
<1>8. bag_stack' \in Seq(EntryType)
  BY <1>2, <1>3, <1>7, ConcatProperties
<1>9. TypeOK'
  BY <1>1, <1>8 DEF IInv, TypeOK, graphVars
<1>10. StackInv'
  <2> SUFFICES ASSUME NEW k \in DOMAIN bag_stack'
               PROVE  PathInv(bag_stack'[k].bag, bag_stack'[k].path, bag_stack'[k].visited)
    BY <1>1 DEF StackInv, PathInv, graphVars
  <2>1. CASE k \in DOMAIN Front(bag_stack) /\ bag_stack'[k] = Front(bag_stack)[k]
    BY <1>3, <2>1 DEF IInv, StackInv
  <2>2. ASSUME NEW i \in DOMAIN es, bag_stack'[k] = es[i]
        PROVE  PathInv(bag_stack'[k].bag, bag_stack'[k].path, bag_stack'[k].visited)
    <3>1. PathInv(true_bag[cs[i]], Append(path, b), seen \cup {b})
      BY <1>3, <1>5, <1>7, ChildPath
    <3>2. /\ bag_stack'[k].bag = true_bag[cs[i]]
          /\ bag_stack'[k].path = Append(path, b)
          /\ bag_stack'[k].visited = seen \cup {b}
      BY <1>6, <1>7, <2>2
    <3>3. QED
      BY <3>1, <3>2
  <2>3. QED
    BY <1>2, <1>3, <1>7, <2>1, <2>2, ConcatElements
<1>11. MergeInv'
  BY <1>1 DEF MergeInv, Pop
<1>12. QED
  BY <1>1, <1>9, <1>10, <1>11, GraphUnchanged DEF IInv
-----------------------------------------------------------------------------
(***************************************************************************)
(* One bag of the path moves into the target.                              *)
(***************************************************************************)
LEMMA MergeFacts ==
  ASSUME IInv, NEW moved, Merge(moved)
  PROVE  /\ moved \in LiveBags /\ target_bag \in LiveBags /\ moved # target_bag
         /\ moved \in Bag /\ target_bag \in Bag
         /\ \A b \in Bag : true_bag'[b] = IF true_bag[b] = moved THEN target_bag
                                                                ELSE true_bag[b]
         /\ LiveBags' = LiveBags \ {moved}
         /\ Reaches(cfg, target_bag, moved) /\ Reaches(cfg, moved, target_bag)
         /\ \A i \in DOMAIN pre_path' : i \in DOMAIN pre_path /\ pre_path'[i] = pre_path[i]
         /\ \A i \in DOMAIN pre_path :
              true_bag[pre_path[i]] # moved => i \in DOMAIN pre_path'
         /\ pre_path' \in Seq(Bag)
<1>1. /\ pre_path \in Seq(Bag) /\ pre_path # <<>> /\ pre_path' = Front(pre_path)
      /\ true_bag \in [Bag -> Bag] /\ target_bag \in Bag /\ pc = "merge"
      /\ moved = true_bag[Last(pre_path)] /\ moved # target_bag
      /\ true_bag' = [b \in Bag |-> IF true_bag[b] = moved THEN target_bag
                                                           ELSE true_bag[b]]
  BY DEF IInv, TypeOK, Merge, MoveBag, MergeOwnRegs, MergeFamilyBags, Convert
<1>2. /\ Front(pre_path) \in Seq(Bag)
      /\ DOMAIN Front(pre_path) = 1 .. Len(pre_path) - 1
      /\ \A i \in 1 .. Len(pre_path) - 1 : Front(pre_path)[i] = pre_path[i]
      /\ Last(pre_path) = pre_path[Len(pre_path)]
      /\ Last(pre_path) \in Bag
      /\ Len(pre_path) \in Nat \ {0}
      /\ DOMAIN pre_path = 1 .. Len(pre_path)
  BY <1>1, FrontOfSeq
<1> DEFINE last == pre_path[Len(pre_path)]
<1>3. moved \in Bag /\ moved \in LiveBags /\ moved = true_bag[last] /\ last \in Bag
  BY <1>1, <1>2 DEF IInv, PartitionInv
<1>4. PathInv(target_bag, pre_path, visited) /\ target_bag \in visited
      /\ visited \subseteq LiveBags
  BY <1>1 DEF IInv, MergeInv
<1>5. target_bag \in LiveBags
  BY <1>4
<1>6. LiveBags' = LiveBags \ {moved}
  BY <1>1, <1>3, <1>5 DEF LiveBags
<1>7. Reaches(cfg, last, moved) /\ Reaches(cfg, moved, last)
  BY <1>3 DEF IInv, MergedBlocksAreLoops, LiveBags
<1>8. Reaches(cfg, last, target_bag)
  BY <1>2, <1>4 DEF PathInv
<1>9. Reaches(cfg, moved, target_bag)
  BY <1>7, <1>8, ReachesTransitive
<1>10. PICK k \in DOMAIN pre_path : true_bag[pre_path[k]] = target_bag
  BY <1>4, <1>5 DEF PathInv, LiveBags
<1>11. k < Len(pre_path)
  BY <1>1, <1>2, <1>10
<1>12. Reaches(cfg, pre_path[k], last)
  BY <1>2, <1>4, <1>11 DEF PathInv
<1>13. Reaches(cfg, target_bag, pre_path[k])
  <2>1. pre_path[k] \in Bag
    BY <1>1, ElementOfSeq
  <2>2. true_bag[target_bag] = true_bag[pre_path[k]]
    BY <1>5, <1>10 DEF LiveBags
  <2>3. QED
    BY <1>1, <2>1, <2>2 DEF IInv, MergedBlocksAreLoops
<1>14. Reaches(cfg, target_bag, moved)
  BY <1>7, <1>12, <1>13, ReachesTransitive
<1>15. QED
  BY <1>1, <1>2, <1>3, <1>5, <1>6, <1>9, <1>14

LEMMA MergePartition ==
  ASSUME IInv, NEW moved, Merge(moved)
  PROVE  PartitionInv' /\ MergedBlocksAreLoops' /\ BagNumCounts'
<1>1. /\ moved \in LiveBags /\ target_bag \in LiveBags /\ moved # target_bag
      /\ moved \in Bag /\ target_bag \in Bag
      /\ \A b \in Bag : true_bag'[b] = IF true_bag[b] = moved THEN target_bag
                                                             ELSE true_bag[b]
      /\ LiveBags' = LiveBags \ {moved}
      /\ Reaches(cfg, target_bag, moved) /\ Reaches(cfg, moved, target_bag)
  BY MergeFacts
<1>2. /\ in_bbs' = [in_bbs EXCEPT ![target_bag] = @ \cup in_bbs[moved]]
      /\ cfg' = cfg /\ bag_num' = bag_num - 1
      /\ in_bbs \in [Bag -> SUBSET Bag] /\ true_bag \in [Bag -> Bag]
  BY DEF Merge, MoveBag, MergeOwnRegs, MergeFamilyBags, Convert, IInv, TypeOK
<1>3. PartitionInv'
  <2> SUFFICES ASSUME NEW b \in Bag
               PROVE  /\ true_bag'[b] \in LiveBags'
                      /\ b \in LiveBags' => in_bbs'[b] = {c \in Bag : true_bag'[c] = b}
    BY DEF PartitionInv
  <2>1. true_bag[b] \in LiveBags
    BY DEF IInv, PartitionInv
  <2>2. \A c \in LiveBags : in_bbs[c] = {x \in Bag : true_bag[x] = c}
    BY DEF IInv, PartitionInv, LiveBags
  <2>3. QED
    BY <1>1, <1>2, <2>1, <2>2
<1>4. MergedBlocksAreLoops'
  <2> SUFFICES ASSUME NEW b \in Bag, NEW c \in Bag, true_bag'[b] = true_bag'[c]
               PROVE  Reaches(cfg, b, c)
    BY <1>2 DEF MergedBlocksAreLoops
  <2>1. \A x, y \in Bag : true_bag[x] = true_bag[y] => Reaches(cfg, x, y)
    BY DEF IInv, MergedBlocksAreLoops
  <2>2. true_bag[moved] = moved /\ true_bag[target_bag] = target_bag
    BY <1>1 DEF LiveBags
  <2>3. CASE true_bag[b] = true_bag[c]
    BY <2>1, <2>3
  <2>4. CASE true_bag[b] = moved /\ true_bag[c] = target_bag
    <3>1. Reaches(cfg, b, moved) /\ Reaches(cfg, target_bag, c)
      BY <1>1, <2>1, <2>2, <2>4
    <3>2. QED
      BY <1>1, <3>1, ReachesTransitive
  <2>5. CASE true_bag[b] = target_bag /\ true_bag[c] = moved
    <3>1. Reaches(cfg, b, target_bag) /\ Reaches(cfg, moved, c)
      BY <1>1, <2>1, <2>2, <2>5
    <3>2. QED
      BY <1>1, <3>1, ReachesTransitive
  <2>6. QED
    BY <1>1, <2>3, <2>4, <2>5
<1>5. BagNumCounts'
  <2>1. IsFiniteSet(LiveBags)
    BY BagAssumption, FS_Subset DEF LiveBags
  <2>2. Cardinality(LiveBags \ {moved}) = Cardinality(LiveBags) - 1
    BY <1>1, <2>1, FS_RemoveElement
  <2>3. QED
    BY <1>1, <1>2, <2>2 DEF BagNumCounts, IInv
<1>6. QED
  BY <1>3, <1>4, <1>5
LEMMA MergeEdges ==
  ASSUME IInv, NEW moved, Merge(moved)
  PROVE  EdgesInv'
<1> DEFINE pars == True(parents[moved])
           chn == True(children[moved] \cup (IF moved \in pars THEN {target_bag} ELSE {}))
<1>1. /\ moved \in Bag /\ target_bag \in Bag
      /\ Reaches(cfg, target_bag, moved) /\ Reaches(cfg, moved, target_bag)
      /\ target_bag \in LiveBags
  BY MergeFacts
<1>2. /\ parents \in [Bag -> SUBSET Bag] /\ children \in [Bag -> SUBSET Bag]
      /\ true_bag \in [Bag -> Bag] /\ cfg' = cfg
      /\ parents' = [b \in Bag |-> parents[b]
                       \cup (IF b = target_bag THEN pars ELSE {})
                       \cup (IF b \in chn THEN {target_bag} ELSE {})]
      /\ children' = [b \in Bag |-> children[b]
                        \cup (IF b = target_bag THEN chn ELSE {})
                        \cup (IF b \in pars THEN {target_bag} ELSE {})]
  BY DEF Merge, MoveBag, MergeOwnRegs, MergeFamilyBags, Convert, IInv, TypeOK
<1>3. \A b \in Bag : /\ true_bag[b] \in Bag
                     /\ Reaches(cfg, b, true_bag[b]) /\ Reaches(cfg, true_bag[b], b)
  BY <1>2 DEF IInv, PartitionInv, MergedBlocksAreLoops, LiveBags
<1>4. \A p \in pars : p \in Bag /\ Reaches(cfg, p, target_bag)
  <2> SUFFICES ASSUME NEW q \in parents[moved]
               PROVE  true_bag[q] \in Bag /\ Reaches(cfg, true_bag[q], target_bag)
    BY DEF True
  <2>1. q \in Bag /\ Reaches(cfg, q, moved)
    BY <1>1, <1>2 DEF IInv, EdgesInv
  <2>2. QED
    BY <1>1, <1>3, <2>1, ReachesTransitive
<1>5. \A c \in chn : c \in Bag /\ Reaches(cfg, target_bag, c)
  <2>1. Reaches(cfg, target_bag, target_bag) /\ true_bag[target_bag] = target_bag
    BY <1>1, ReachesItself DEF LiveBags
  <2>2. ASSUME NEW d \in children[moved]
        PROVE  true_bag[d] \in Bag /\ Reaches(cfg, target_bag, true_bag[d])
    <3>1. d \in Bag /\ Reaches(cfg, moved, d)
      BY <1>1, <1>2 DEF IInv, EdgesInv
    <3>2. QED
      BY <1>1, <1>3, <3>1, ReachesTransitive
  <2>3. QED
    BY <1>1, <2>1, <2>2 DEF True
<1>6. ASSUME NEW b \in Bag, NEW c \in Bag
      PROVE  /\ c \in children'[b] => Reaches(cfg, b, c)
             /\ c \in parents'[b] => Reaches(cfg, c, b)
  BY <1>2, <1>4, <1>5 DEF IInv, EdgesInv
<1>7. QED
  BY <1>2, <1>6 DEF EdgesInv

LEMMA WidestFacts ==
  ASSUME NEW m1 \in RegMap, NEW m2 \in RegMap
  PROVE  /\ Widest(m1, m2) \in RegMap
         /\ \A maps, s1, s2 :
              maps \in [Bag -> RegMap] /\ s1 \subseteq Bag /\ s2 \subseteq Bag
              /\ IsWidestOf(m1, maps, s1) /\ IsWidestOf(m2, maps, s2)
              => IsWidestOf(Widest(m1, m2), maps, s1 \cup s2)
<1>1. \A r \in Reg : m1[r] \in Nat /\ m2[r] \in Nat /\ m1[r] \in Width /\ m2[r] \in Width
  BY WidthAssumption DEF RegMap
<1>2. Widest(m1, m2) \in RegMap
  BY <1>1 DEF Widest, RegMap
<1>3. ASSUME NEW maps \in [Bag -> RegMap], NEW s1 \in SUBSET Bag, NEW s2 \in SUBSET Bag,
             IsWidestOf(m1, maps, s1), IsWidestOf(m2, maps, s2)
      PROVE  IsWidestOf(Widest(m1, m2), maps, s1 \cup s2)
  <2> SUFFICES ASSUME NEW r \in Reg
               PROVE  /\ \A b \in s1 \cup s2 : maps[b][r] <= Widest(m1, m2)[r]
                      /\ \E b \in s1 \cup s2 : maps[b][r] = Widest(m1, m2)[r]
    BY DEF IsWidestOf
  <2>1. Widest(m1, m2)[r] = IF m1[r] < m2[r] THEN m2[r] ELSE m1[r]
    BY DEF Widest
  <2>2. \A b \in Bag : maps[b][r] \in Nat
    BY WidthAssumption DEF RegMap
  <2>3. /\ \A b \in s1 : maps[b][r] <= m1[r]
        /\ \E b \in s1 : maps[b][r] = m1[r]
        /\ \A b \in s2 : maps[b][r] <= m2[r]
        /\ \E b \in s2 : maps[b][r] = m2[r]
    BY <1>3 DEF IsWidestOf
  <2> DEFINE w == Widest(m1, m2)[r]
  <2>4. w \in Nat /\ m1[r] <= w /\ m2[r] <= w /\ (w = m1[r] \/ w = m2[r])
    BY <1>1, <2>1
  <2> HIDE DEF w
  <2>5. ASSUME NEW b \in s1 \cup s2 PROVE maps[b][r] <= w
    <3>1. maps[b][r] <= m1[r] \/ maps[b][r] <= m2[r]
      BY <2>3
    <3>2. QED
      BY <1>1, <2>2, <2>4, <3>1
  <2>6. \E b \in s1 \cup s2 : maps[b][r] = w
    BY <2>3, <2>4, Zenon
  <2>7. QED
    BY <2>5, <2>6 DEF w
<1>4. QED
  BY <1>2, <1>3

LEMMA MergeOwn ==
  ASSUME IInv, NEW moved, Merge(moved)
  PROVE  /\ OwnRegsAreTheBlocks'
         /\ own_ld_rmp' \in [Bag -> RegMap] /\ own_str_rmp' \in [Bag -> RegMap]
<1>1. /\ moved \in LiveBags /\ target_bag \in LiveBags
      /\ moved \in Bag /\ target_bag \in Bag
      /\ LiveBags' = LiveBags \ {moved}
  BY MergeFacts
<1>2. /\ own_ld_rmp' = [own_ld_rmp EXCEPT ![target_bag] = Widest(@, own_ld_rmp[moved])]
      /\ own_str_rmp' = [own_str_rmp EXCEPT ![target_bag] = Widest(@, own_str_rmp[moved])]
      /\ in_bbs' = [in_bbs EXCEPT ![target_bag] = @ \cup in_bbs[moved]]
      /\ in_bbs \in [Bag -> SUBSET Bag]
      /\ own_ld_rmp \in [Bag -> RegMap] /\ own_str_rmp \in [Bag -> RegMap]
  BY DEF Merge, MoveBag, MergeOwnRegs, MergeFamilyBags, Convert, IInv, TypeOK
<1>3. \A b \in LiveBags : /\ b \in Bag
                          /\ IsWidestOf(own_ld_rmp[b], BlockLoads, in_bbs[b])
                          /\ IsWidestOf(own_str_rmp[b], BlockStores, in_bbs[b])
  BY DEF IInv, OwnRegsAreTheBlocks, LiveBags
<1>4. /\ own_ld_rmp[target_bag] \in RegMap /\ own_ld_rmp[moved] \in RegMap
      /\ own_str_rmp[target_bag] \in RegMap /\ own_str_rmp[moved] \in RegMap
      /\ in_bbs[target_bag] \subseteq Bag /\ in_bbs[moved] \subseteq Bag
  BY <1>1, <1>2
<1>5. /\ IsWidestOf(Widest(own_ld_rmp[target_bag], own_ld_rmp[moved]), BlockLoads,
                    in_bbs[target_bag] \cup in_bbs[moved])
      /\ IsWidestOf(Widest(own_str_rmp[target_bag], own_str_rmp[moved]), BlockStores,
                    in_bbs[target_bag] \cup in_bbs[moved])
  BY <1>1, <1>3, <1>4, WidestFacts, RegsAssumption
<1>6. own_ld_rmp' \in [Bag -> RegMap] /\ own_str_rmp' \in [Bag -> RegMap]
  BY <1>1, <1>2, <1>4, WidestFacts
<1>7. ASSUME NEW b \in LiveBags \ {moved}
      PROVE  /\ IsWidestOf(own_ld_rmp'[b], BlockLoads, in_bbs'[b])
             /\ IsWidestOf(own_str_rmp'[b], BlockStores, in_bbs'[b])
  <2>1. CASE b = target_bag
    <3>1. /\ own_ld_rmp'[b] = Widest(own_ld_rmp[target_bag], own_ld_rmp[moved])
          /\ own_str_rmp'[b] = Widest(own_str_rmp[target_bag], own_str_rmp[moved])
          /\ in_bbs'[b] = in_bbs[target_bag] \cup in_bbs[moved]
      BY <1>1, <1>2, <2>1
    <3>2. QED
      BY <1>5, <3>1
  <2>2. CASE b # target_bag
    <3>1. /\ own_ld_rmp'[b] = own_ld_rmp[b] /\ own_str_rmp'[b] = own_str_rmp[b]
          /\ in_bbs'[b] = in_bbs[b]
      BY <1>2, <1>3, <2>2
    <3>2. QED
      BY <1>3, <3>1
  <2>3. QED
    BY <2>1, <2>2
<1>8. QED
  BY <1>1, <1>6, <1>7 DEF OwnRegsAreTheBlocks
LEMMA MergeStep ==
  ASSUME IInv, NEW moved, Merge(moved)
  PROVE  IInv'
<1>1. /\ moved \in Bag /\ target_bag \in Bag /\ moved # target_bag
      /\ target_bag \in LiveBags
      /\ \A b \in Bag : true_bag'[b] = IF true_bag[b] = moved THEN target_bag
                                                             ELSE true_bag[b]
      /\ LiveBags' = LiveBags \ {moved}
      /\ \A i \in DOMAIN pre_path' : i \in DOMAIN pre_path /\ pre_path'[i] = pre_path[i]
      /\ \A i \in DOMAIN pre_path :
           true_bag[pre_path[i]] # moved => i \in DOMAIN pre_path'
      /\ pre_path' \in Seq(Bag)
  BY MergeFacts
<1>2. /\ cfg' = cfg /\ pc = "merge" /\ pc' = pc /\ target_bag' = target_bag
      /\ bag_stack' = bag_stack /\ visited' = visited \ {moved}
      /\ bag_stack \in Seq(EntryType) /\ pre_path \in Seq(Bag) /\ visited \subseteq Bag
  BY DEF Merge, IInv, TypeOK
<1>3. TypeOK'
  <2>1. /\ true_bag' \in [Bag -> Bag]
        /\ parents' \in [Bag -> SUBSET Bag] /\ children' \in [Bag -> SUBSET Bag]
        /\ in_bbs' \in [Bag -> SUBSET Bag]
    BY <1>1 DEF IInv, TypeOK, Merge, MoveBag, MergeOwnRegs, MergeFamilyBags, Convert, True
  <2>2. bag_num' \in Int
    BY DEF IInv, TypeOK, Merge
  <2>3. QED
    BY <1>1, <2>1, <2>2, MergeOwn DEF IInv, TypeOK, Merge
<1>4. \A b, c \in Bag : true_bag[b] = true_bag[c] => true_bag'[b] = true_bag'[c]
  BY <1>1
<1>5. StackInv'
  <2> SUFFICES ASSUME NEW k \in DOMAIN bag_stack,
                      NEW v \in bag_stack[k].visited
               PROVE  \E i \in DOMAIN bag_stack[k].path :
                        true_bag'[bag_stack[k].path[i]] = true_bag'[v]
    BY <1>2 DEF IInv, StackInv, PathInv
  <2>1. bag_stack[k] \in EntryType
    BY <1>2, ElementOfSeq, LenProperties
  <2>2. /\ v \in Bag
        /\ \A i \in DOMAIN bag_stack[k].path : bag_stack[k].path[i] \in Bag
    BY <2>1, ElementOfSeq, LenProperties DEF EntryType
  <2>3. \E i \in DOMAIN bag_stack[k].path : true_bag[bag_stack[k].path[i]] = true_bag[v]
    BY DEF IInv, StackInv, PathInv
  <2>4. QED
    BY <1>4, <2>2, <2>3
<1>6. MergeInv'
  <2>1. PathInv(target_bag, pre_path, visited) /\ target_bag \in visited
        /\ visited \subseteq LiveBags
    BY <1>2 DEF IInv, MergeInv
  <2>2. ASSUME NEW v \in visited \ {moved}
        PROVE  \E i \in DOMAIN pre_path' : true_bag'[pre_path'[i]] = true_bag'[v]
    <3>1. PICK i \in DOMAIN pre_path : true_bag[pre_path[i]] = true_bag[v]
      BY <2>1 DEF PathInv
    <3>2. true_bag[v] = v /\ v # moved
      BY <2>1 DEF LiveBags
    <3>3. i \in DOMAIN pre_path' /\ pre_path'[i] = pre_path[i]
      BY <1>1, <3>1, <3>2
    <3>4. pre_path[i] \in Bag
      BY <1>2, ElementOfSeq, LenProperties
    <3>5. QED
      BY <1>2, <1>4, <3>1, <3>3, <3>4
  <2>3. /\ \A i \in DOMAIN pre_path' : Reaches(cfg, pre_path'[i], target_bag)
        /\ \A i, j \in DOMAIN pre_path' : i < j => Reaches(cfg, pre_path'[i], pre_path'[j])
    BY <1>1, <2>1 DEF PathInv
  <2>4. QED
    BY <1>1, <1>2, <2>1, <2>2, <2>3 DEF MergeInv, PathInv
<1>7. QED
  BY <1>3, <1>5, <1>6, MergePartition, MergeEdges, MergeOwn DEF IInv

(* The target is searched again with what is left of the path. *)
LEMMA LoopClosedStep ==
  ASSUME IInv, LoopClosed
  PROVE  IInv'
<1>1. /\ pc = "merge" /\ pc' = "search"
      /\ pre_path \in Seq(Bag) /\ pre_path # <<>> /\ pre_path' = Front(pre_path)
      /\ true_bag[Last(pre_path)] = target_bag
      /\ visited' = visited \ {target_bag} /\ visited \subseteq Bag
      /\ bag_stack' = Append(bag_stack, Entry(target_bag, pre_path', visited'))
      /\ bag_stack \in Seq(EntryType) /\ target_bag \in Bag
      /\ UNCHANGED <<cfg, target_bag, graphVars, bag_num>>
      /\ UNCHANGED <<cfg, true_bag>>
  BY DEF IInv, TypeOK, LoopClosed, MarkLoop, graphVars
<1>2. /\ Front(pre_path) \in Seq(Bag)
      /\ DOMAIN Front(pre_path) = 1 .. Len(pre_path) - 1
      /\ \A i \in 1 .. Len(pre_path) - 1 : Front(pre_path)[i] = pre_path[i]
      /\ Last(pre_path) = pre_path[Len(pre_path)]
      /\ Len(pre_path) \in Nat \ {0}
      /\ DOMAIN pre_path = 1 .. Len(pre_path)
  BY <1>1, FrontOfSeq
<1>3. PathInv(target_bag, pre_path, visited) /\ visited \subseteq LiveBags
  BY <1>1 DEF IInv, MergeInv
<1>4. PathInv(target_bag, pre_path', visited')
  <2>1. ASSUME NEW v \in visited'
        PROVE  \E i \in DOMAIN pre_path' : true_bag[pre_path'[i]] = true_bag[v]
    <3>1. PICK i \in DOMAIN pre_path : true_bag[pre_path[i]] = true_bag[v]
      BY <1>1, <1>3 DEF PathInv
    <3>2. true_bag[v] # target_bag
      BY <1>1, <1>3 DEF LiveBags
    <3>3. i \in 1 .. Len(pre_path) - 1
      BY <1>1, <1>2, <3>1, <3>2
    <3>4. QED
      BY <1>1, <1>2, <3>1, <3>3
  <2>2. \A i \in DOMAIN pre_path' : i \in DOMAIN pre_path /\ pre_path'[i] = pre_path[i]
    BY <1>1, <1>2
  <2>3. QED
    BY <1>3, <2>1, <2>2 DEF PathInv
<1>5. Entry(target_bag, pre_path', visited') \in EntryType
  BY <1>1, <1>2 DEF Entry, EntryType
<1>6. /\ bag_stack' \in Seq(EntryType)
      /\ \A k \in DOMAIN bag_stack' :
           \/ k \in DOMAIN bag_stack /\ bag_stack'[k] = bag_stack[k]
           \/ bag_stack'[k] = Entry(target_bag, pre_path', visited')
  BY <1>1, <1>5, AppendElements
<1>7. TypeOK'
  BY <1>1, <1>2, <1>6 DEF IInv, TypeOK, LoopClosed, MarkLoop, graphVars
<1>8. StackInv'
  <2>0. cfg' = cfg /\ true_bag' = true_bag
    BY <1>1
  <2> SUFFICES ASSUME NEW k \in DOMAIN bag_stack'
               PROVE  PathInv(bag_stack'[k].bag, bag_stack'[k].path, bag_stack'[k].visited)
    BY <2>0 DEF StackInv, PathInv
  <2>1. CASE k \in DOMAIN bag_stack /\ bag_stack'[k] = bag_stack[k]
    BY <2>1 DEF IInv, StackInv
  <2>2. CASE bag_stack'[k] = Entry(target_bag, pre_path', visited')
    BY <1>4, <2>2 DEF Entry
  <2>3. QED
    BY <1>6, <2>1, <2>2
<1>9. MergeInv'
  BY <1>1 DEF MergeInv
<1>10. QED
  BY <1>1, <1>7, <1>8, <1>9, GraphUnchanged DEF IInv

(* The final pass leads every edge to true bags. *)
LEMMA NormalizeStep ==
  ASSUME IInv, Normalize
  PROVE  IInv'
<1>1. /\ pc' = "done" /\ UNCHANGED <<cfg, true_bag, in_bbs, own_ld_rmp, own_str_rmp, bag_num>>
      /\ UNCHANGED <<bag_stack, target_bag, pre_path, visited, finished, is_loop>>
      /\ parents' = [b \in Bag |-> IF b \in LiveBags THEN True(parents[b]) \ {b} ELSE {}]
      /\ children' = [b \in Bag |-> IF b \in LiveBags THEN True(children[b]) \ {b} ELSE {}]
      /\ parents \in [Bag -> SUBSET Bag] /\ children \in [Bag -> SUBSET Bag]
      /\ true_bag \in [Bag -> Bag]
  BY DEF IInv, TypeOK, Normalize, TrueFamily, searchVars
<1>2. \A S \in SUBSET Bag : True(S) \subseteq Bag
  BY <1>1 DEF True
<1>3. TypeOK'
  BY <1>1, <1>2 DEF IInv, TypeOK
<1>4. EdgesInv'
  <2> SUFFICES ASSUME NEW b \in Bag, NEW c \in Bag
               PROVE  /\ c \in children[b] =>
                           Reaches(cfg, b, true_bag[c])
                      /\ c \in parents[b] =>
                           Reaches(cfg, true_bag[c], b)
    BY <1>1 DEF EdgesInv, True
  <2>1. Reaches(cfg, c, true_bag[c]) /\ Reaches(cfg, true_bag[c], c)
    BY <1>1 DEF IInv, PartitionInv, MergedBlocksAreLoops, LiveBags
  <2>2. QED
    BY <2>1, ReachesTransitive DEF IInv, EdgesInv
<1>5. StackInv' /\ MergeInv'
  BY <1>1 DEF IInv, StackInv, PathInv, MergeInv
<1>6. LiveBags' = LiveBags
  BY <1>1 DEF LiveBags
<1>7. PartitionInv' /\ OwnRegsAreTheBlocks' /\ BagNumCounts' /\ MergedBlocksAreLoops'
  BY <1>1, <1>6 DEF IInv, PartitionInv, OwnRegsAreTheBlocks, BagNumCounts,
                    MergedBlocksAreLoops, IsWidestOf
<1>8. QED
  BY <1>3, <1>4, <1>5, <1>7 DEF IInv

LEMMA NextIInv == IInv /\ [Next]_vars => IInv'
<1> SUFFICES ASSUME IInv, [Next]_vars PROVE IInv'
  OBVIOUS
<1>1. CASE Search
  BY <1>1, SearchStep, PushStep DEF Search
<1>2. CASE \E b \in Bag : Merge(b)
  BY <1>2, MergeStep
<1>3. CASE LoopClosed
  BY <1>3, LoopClosedStep
<1>4. CASE Normalize
  BY <1>4, NormalizeStep
<1>5. CASE UNCHANGED vars
  <2>1. /\ UNCHANGED <<cfg, pc, bag_stack, target_bag, pre_path, visited, finished, is_loop>>
        /\ UNCHANGED <<cfg, graphVars, bag_num>>
        /\ UNCHANGED true_bag
    BY <1>5 DEF vars, searchVars, graphVars
  <2>2. TypeOK'
    BY <2>1 DEF IInv, TypeOK, graphVars
  <2>3. StackInv' /\ MergeInv'
    BY <2>1 DEF IInv, StackInv, MergeInv, PathInv, LiveBags
  <2>4. QED
    BY <2>1, <2>2, <2>3, GraphUnchanged DEF IInv
<1>6. QED
  BY <1>1, <1>2, <1>3, <1>4, <1>5 DEF Next, Done
-----------------------------------------------------------------------------
(* The inductive invariant holds in every reachable state. *)
THEOREM Invariance == Spec => []IInv
BY InitIInv, NextIInv, PTL DEF Spec

(* Every variable of RemoveLoop keeps its type, for every control flow graph. *)
THEOREM TypeCorrect == Spec => []TypeOK
<1>1. IInv => TypeOK
  BY DEF IInv
<1>2. QED
  BY <1>1, Invariance, PTL

(* Blocks that share a bag lie on a common cycle: no merge is unfounded. *)
THEOREM MergesAreSound == Spec => []MergedBlocksAreLoops
<1>1. IInv => MergedBlocksAreLoops
  BY DEF IInv
<1>2. QED
  BY <1>1, Invariance, PTL

(* The CHECK of the merge loop never fails. *)
THEOREM PathTheorem == Spec => []PathLeadsBack
<1>1. IInv => PathLeadsBack
  BY DEF IInv, MergeInv, PathInv, LiveBags, PathLeadsBack
<1>2. QED
  BY <1>1, Invariance, PTL

(* A bag has the registers of its blocks, at their widest. *)
THEOREM OwnRegsTheorem == Spec => []OwnRegsAreTheBlocks
<1>1. IInv => OwnRegsAreTheBlocks
  BY DEF IInv
<1>2. QED
  BY <1>1, Invariance, PTL

(* bag_num counts the bags that are left. *)
THEOREM BagNumTheorem == Spec => []BagNumCounts
<1>1. IInv => BagNumCounts
  BY DEF IInv
<1>2. QED
  BY <1>1, Invariance, PTL
-----------------------------------------------------------------------------
(***************************************************************************)
(* The search is complete.  The finished bags are closed under the edges   *)
(* of the blocks, so no path leads from a finished bag back to one that is *)
(* searched; and a block whose loop is not one bag yet can still be        *)
(* reached from a bag that waits on the stack.                             *)
(***************************************************************************)
Complete(x) == \A y \in Component(x) : true_bag[y] = true_bag[x]

FinishedInv ==
  /\ finished \subseteq LiveBags
  /\ pc = "merge" => target_bag \notin finished
  /\ \A x \in Bag : true_bag[x] \in finished => True(cfg[x]) \subseteq finished /\ Complete(x)

(* Some block of bag b branches to one of bag c. *)
BagEdge(b, c) == \E x \in Bag : true_bag[x] = b /\ c \in True(cfg[x])

ExactInv ==
  \A b, c \in LiveBags : b # c =>
    /\ c \in True(children[b]) <=> BagEdge(b, c)
    /\ b \in True(parents[c]) <=> BagEdge(b, c)

StackBags(s) == {s[k].bag : k \in DOMAIN s}

Waiting == StackBags(bag_stack) \cup (IF pc = "merge" THEN {target_bag} ELSE {})

SearchedInv ==
  \A x \in Bag : Reaches(cfg, Root, x) =>
    Complete(x) \/ \E w \in Waiting : Reaches(cfg, w, x)

NormalInv ==
  pc = "done" => /\ bag_stack = <<>>
                 /\ \A b \in LiveBags : /\ children[b] \subseteq LiveBags \ {b}
                                        /\ parents[b] \subseteq LiveBags \ {b}
                 /\ \A b \in Bag \ LiveBags : children[b] = {}

CInv == FinishedInv /\ ExactInv /\ SearchedInv /\ NormalInv
-----------------------------------------------------------------------------
LEMMA CompleteUnchanged ==
  ASSUME UNCHANGED <<cfg, true_bag>>, NEW x
  PROVE  Complete(x)' <=> Complete(x)
BY DEF Complete, Component, Reaches, Closed

LEMMA EdgesUnchanged ==
  ASSUME UNCHANGED <<cfg, graphVars>>
  PROVE  LiveBags' = LiveBags /\ (ExactInv' <=> ExactInv)
<1>1. LiveBags' = LiveBags
  BY DEF LiveBags, graphVars
<1> QED BY <1>1 DEF ExactInv, BagEdge, True, graphVars

(* The live bag of a block, and the blocks of a live bag.                  *)
LEMMA TrueBags ==
  ASSUME IInv, NEW x \in Bag
  PROVE  /\ true_bag[x] \in LiveBags /\ true_bag[x] \in Bag
         /\ true_bag[true_bag[x]] = true_bag[x]
         /\ Reaches(cfg, x, true_bag[x]) /\ Reaches(cfg, true_bag[x], x)
         /\ cfg[x] \subseteq Bag
BY DEF IInv, TypeOK, PartitionInv, LiveBags, MergedBlocksAreLoops, IsCFG

(* Bags that are closed under the edges of the blocks hold what they reach. *)
LEMMA ClosedBags ==
  ASSUME IInv, NEW F, \A x \in Bag : true_bag[x] \in F => True(cfg[x]) \subseteq F,
         NEW b \in Bag, true_bag[b] \in F, NEW x \in Bag, Reaches(cfg, b, x)
  PROVE  true_bag[x] \in F
<1> DEFINE S == {y \in Bag : true_bag[y] \in F}
<1>1. Closed(cfg, S)
  BY TrueBags DEF Closed, True
<1> QED BY <1>1 DEF Reaches

LEMMA StackOfPop ==
  ASSUME IInv, bag_stack # <<>>
  PROVE  StackBags(bag_stack) \subseteq StackBags(Front(bag_stack)) \cup {Last(bag_stack).bag}
<1>1. /\ DOMAIN Front(bag_stack) = 1 .. Len(bag_stack) - 1
      /\ \A i \in 1 .. Len(bag_stack) - 1 : Front(bag_stack)[i] = bag_stack[i]
      /\ Last(bag_stack) = bag_stack[Len(bag_stack)]
      /\ Len(bag_stack) \in Nat \ {0}
      /\ DOMAIN bag_stack = 1 .. Len(bag_stack)
  BY FrontOfSeq DEF IInv, TypeOK
<1>2. ASSUME NEW k \in DOMAIN bag_stack
      PROVE  k \in DOMAIN Front(bag_stack) \/ k = Len(bag_stack)
  BY <1>1
<1> QED BY <1>1, <1>2 DEF StackBags

LEMMA StackOfPush ==
  ASSUME NEW S, NEW s \in Seq(S), NEW t \in Seq(S)
  PROVE  StackBags(s) \cup StackBags(t) \subseteq StackBags(s \o t)
<1>1. /\ Len(s) \in Nat /\ DOMAIN s = 1 .. Len(s)
      /\ Len(t) \in Nat /\ DOMAIN t = 1 .. Len(t)
  BY LenProperties
<1>2. /\ DOMAIN (s \o t) = 1 .. Len(s) + Len(t)
      /\ \A i \in 1 .. Len(s) + Len(t) :
           (s \o t)[i] = IF i <= Len(s) THEN s[i] ELSE t[i - Len(s)]
  BY ConcatProperties, LenProperties
<1>3. ASSUME NEW k \in DOMAIN s PROVE k \in DOMAIN (s \o t) /\ (s \o t)[k] = s[k]
  BY <1>1, <1>2
<1>4. ASSUME NEW k \in DOMAIN t
      PROVE  Len(s) + k \in DOMAIN (s \o t) /\ (s \o t)[Len(s) + k] = t[k]
  BY <1>1, <1>2
<1> QED BY <1>3, <1>4 DEF StackBags

LEMMA InitCInv == Init => CInv
<1> SUFFICES ASSUME Init PROVE CInv
  OBVIOUS
<1>1. cfg \in [Bag -> SUBSET Bag] /\ \A b \in Bag : b \notin cfg[b]
  BY GraphsAssumption DEF Init, IsCFG
<1>2. ExactInv
  <2> SUFFICES ASSUME NEW b \in Bag, NEW c \in Bag
               PROVE  /\ c \in True(children[b]) <=> BagEdge(b, c)
                      /\ b \in True(parents[c]) <=> BagEdge(b, c)
    BY DEF ExactInv, LiveBags
  <2>1. \A S \in SUBSET Bag : True(S) = S
    BY DEF Init, True
  <2>2. BagEdge(b, c) <=> c \in cfg[b]
    BY <1>1, <2>1 DEF BagEdge, Init
  <2> QED BY <1>1, <2>1, <2>2 DEF Init
<1>3. SearchedInv
  <2>1. DOMAIN bag_stack = {1} /\ bag_stack[1].bag = Root
    BY DEF Init, Entry
  <2>2. Root \in Waiting
    BY <2>1 DEF Waiting, StackBags
  <2> QED BY <2>2 DEF SearchedInv
<1> QED BY <1>2, <1>3 DEF CInv, Init, FinishedInv, NormalInv, LiveBags
-----------------------------------------------------------------------------
(***************************************************************************)
(* The search.  What the popped bag reaches is complete or still waits.    *)
(***************************************************************************)
LEMMA PopSearched ==
  ASSUME IInv, CInv, NEW b, NEW path, NEW seen, Pop(b, path, seen),
         UNCHANGED <<cfg, true_bag>>,
         StackBags(Front(bag_stack)) \subseteq Waiting',
         \A x \in Bag : Reaches(cfg, b, x) =>
           Complete(x) \/ \E w \in Waiting' : Reaches(cfg, w, x)
  PROVE  SearchedInv'
<1> SUFFICES ASSUME NEW x \in Bag, Reaches(cfg, Root, x), ~ Complete(x)
             PROVE  \E w \in Waiting' : Reaches(cfg, w, x)
  BY CompleteUnchanged DEF SearchedInv
<1>1. PICK w \in Waiting : Reaches(cfg, w, x)
  BY DEF CInv, SearchedInv
<1>2. w \in StackBags(bag_stack)
  BY DEF Waiting, Pop
<1>3. w \in StackBags(Front(bag_stack)) \/ w = Last(bag_stack).bag
  BY <1>2, StackOfPop DEF Pop
<1>4. CASE w = Last(bag_stack).bag
  <2>1. w \in Bag
    <3>1. bag_stack \in Seq(EntryType) /\ bag_stack # <<>>
      BY DEF IInv, TypeOK, Pop
    <3>2. Last(bag_stack) \in EntryType
      BY <3>1, FrontOfSeq
    <3> QED BY <1>4, <3>2 DEF EntryType
  <2>2. Reaches(cfg, b, x)
    BY <1>1, <1>4, <2>1, TrueBags, ReachesTransitive DEF Pop
  <2> QED BY <2>2
<1> QED BY <1>1, <1>3, <1>4

LEMMA SkipCInv ==
  ASSUME IInv, CInv, NEW b, NEW path, NEW seen, SkipFinished(b, path, seen)
  PROVE  CInv'
<1>1. /\ Pop(b, path, seen) /\ b \in finished /\ bag_stack' = Front(bag_stack)
      /\ UNCHANGED <<cfg, pc, target_bag, finished, graphVars, true_bag, children, parents>>
      /\ pc = "search"
  BY DEF SkipFinished, Pop, graphVars
<1>2. b \in Bag /\ true_bag[b] = b
  BY <1>1, PopFacts DEF LiveBags
<1>3. Waiting' = StackBags(Front(bag_stack))
  BY <1>1 DEF Waiting, StackBags
<1>4. ASSUME NEW x \in Bag, Reaches(cfg, b, x) PROVE Complete(x)
  <2>1. true_bag[x] \in finished
    BY <1>1, <1>2, <1>4, ClosedBags DEF CInv, FinishedInv
  <2> QED BY <2>1 DEF CInv, FinishedInv
<1>5. SearchedInv'
  BY <1>1, <1>3, <1>4, PopSearched
<1>6. LiveBags' = LiveBags /\ ExactInv'
  BY <1>1, EdgesUnchanged DEF CInv
<1>7. FinishedInv'
  BY <1>1, <1>6, CompleteUnchanged DEF CInv, FinishedInv, True
<1> QED BY <1>1, <1>5, <1>6, <1>7 DEF CInv, NormalInv

LEMMA FoundCInv ==
  ASSUME IInv, CInv, NEW b, NEW path, NEW seen, LoopFound(b, path, seen)
  PROVE  CInv'
<1>1. /\ Pop(b, path, seen) /\ b \notin finished /\ bag_stack' = Front(bag_stack)
      /\ UNCHANGED <<cfg, finished, graphVars, true_bag, children, parents>>
      /\ pc' = "merge" /\ target_bag' = b
  BY DEF LoopFound, graphVars
<1>2. b \in Waiting' /\ StackBags(Front(bag_stack)) \subseteq Waiting'
  BY <1>1 DEF Waiting, StackBags
<1>3. SearchedInv'
  BY <1>1, <1>2, PopSearched
<1>4. LiveBags' = LiveBags /\ ExactInv'
  BY <1>1, EdgesUnchanged DEF CInv
<1>5. FinishedInv'
  BY <1>1, <1>4, CompleteUnchanged DEF CInv, FinishedInv, True
<1> QED BY <1>1, <1>3, <1>4, <1>5 DEF CInv, NormalInv

(* A block of b branches to b, to a finished bag, or to one that is pushed. *)
LEMMA EdgesOfPopped ==
  ASSUME IInv, CInv, NEW b \in LiveBags, NEW x \in Bag, true_bag[x] = b, NEW y \in cfg[x]
  PROVE  \/ true_bag[y] = b
         \/ true_bag[y] \in finished
         \/ \E c \in Unfinished(b) : true_bag[c] = true_bag[y]
<1> SUFFICES ASSUME true_bag[y] # b, true_bag[y] \notin finished
             PROVE  \E c \in Unfinished(b) : true_bag[c] = true_bag[y]
  OBVIOUS
<1>1. y \in Bag /\ true_bag[y] \in LiveBags
  BY TrueBags
<1>2. BagEdge(b, true_bag[y])
  BY DEF BagEdge, True
<1>3. true_bag[y] \in True(children[b])
  BY <1>1, <1>2 DEF CInv, ExactInv
<1> QED BY <1>3 DEF True, Unfinished

LEMMA FinishCInv ==
  ASSUME IInv, CInv, NEW b, NEW path, NEW seen, FinishBag(b, path, seen)
  PROVE  CInv'
<1>1. /\ Pop(b, path, seen) /\ b \notin finished /\ bag_stack' = Front(bag_stack)
      /\ UNCHANGED <<cfg, pc, target_bag, graphVars, true_bag, children, parents>>
      /\ pc = "search" /\ Unfinished(b) = {} /\ finished' = finished \cup {b}
  BY DEF FinishBag, graphVars, Pop
<1>2. b \in Bag /\ true_bag[b] = b /\ b \in LiveBags
  BY <1>1, PopFacts DEF LiveBags
<1>3. Waiting' = StackBags(Front(bag_stack))
  BY <1>1 DEF Waiting, StackBags
<1>4. ASSUME NEW x \in Bag, true_bag[x] \in finished'
      PROVE  True(cfg[x]) \subseteq finished'
  <2>1. CASE true_bag[x] \in finished
    BY <1>1, <2>1 DEF CInv, FinishedInv
  <2>2. CASE true_bag[x] = b
    BY <1>1, <1>2, <2>2, EdgesOfPopped DEF True
  <2> QED BY <1>1, <1>4, <2>1, <2>2
<1>5. ASSUME NEW x \in Bag, true_bag[x] \in finished'
      PROVE  Complete(x)
  <2>1. CASE true_bag[x] \in finished
    BY <2>1 DEF CInv, FinishedInv
  <2>2. CASE true_bag[x] = b
    <3> SUFFICES ASSUME NEW y \in Bag, Reaches(cfg, x, y), Reaches(cfg, y, x)
                 PROVE  true_bag[y] = b
      BY <2>2 DEF Complete, Component
    <3>1. true_bag[y] \in finished'
      BY <1>4, <1>5, ClosedBags
    <3>2. true_bag[y] \in finished => true_bag[x] \in finished
      BY ClosedBags DEF CInv, FinishedInv
    <3> QED BY <1>1, <2>2, <3>1, <3>2
  <2> QED BY <1>1, <1>5, <2>1, <2>2
<1>6. ASSUME NEW x \in Bag, Reaches(cfg, b, x) PROVE Complete(x)
  <2>1. true_bag[x] \in finished'
    BY <1>1, <1>2, <1>4, <1>6, ClosedBags
  <2> QED BY <1>5, <2>1
<1>7. SearchedInv'
  BY <1>1, <1>3, <1>6, PopSearched
<1>8. LiveBags' = LiveBags /\ ExactInv'
  BY <1>1, EdgesUnchanged DEF CInv
<1>9. FinishedInv'
  <2>1. \A x \in Bag : True(cfg[x])' = True(cfg[x])
    BY <1>1 DEF True
  <2>2. finished' \subseteq LiveBags'
    BY <1>1, <1>2, <1>8 DEF CInv, FinishedInv
  <2>3. pc' # "merge"
    BY <1>1
  <2> QED BY <1>1, <1>4, <1>5, <2>1, <2>2, <2>3, CompleteUnchanged DEF FinishedInv
<1> QED BY <1>1, <1>7, <1>8, <1>9 DEF CInv, NormalInv

(* Every unfinished child is pushed. *)
LEMMA PushedBags ==
  ASSUME IInv, NEW b, NEW path, NEW seen, PushChildren(b, path, seen)
  PROVE  /\ StackBags(Front(bag_stack)) \subseteq Waiting'
         /\ \A c \in Unfinished(b) : true_bag[c] \in Waiting'
<1> DEFINE U == Unfinished(b)
           n == Cardinality(U)
<1>1. PICK cs \in Ascending(U) :
        bag_stack' = Front(bag_stack) \o ChildEntries(cs, b, path, seen)
  BY DEF PushChildren
<1> DEFINE es == ChildEntries(cs, b, path, seen)
<1>2. /\ b \in Bag /\ path \in Seq(Bag) /\ seen \subseteq Bag
      /\ Front(bag_stack) \in Seq(EntryType)
  BY PopFacts DEF PushChildren
<1>3. U \subseteq Bag /\ IsFiniteSet(U) /\ n \in Nat
  <2>1. U \subseteq Bag
    BY <1>2 DEF Unfinished, IInv, TypeOK
  <2> QED BY <2>1, BagAssumption, FS_Subset, FS_CardinalityType
<1> HIDE DEF U
<1>4. cs \in [1 .. n -> U] /\ \A i, j \in 1 .. n : i < j => cs[i] < cs[j]
  BY <1>3 DEF Ascending
<1>5. \A i \in 1 .. n : cs[i] \in Nat
  BY <1>3, <1>4, BagAssumption
<1>6. \A i, j \in 1 .. n : cs[i] = cs[j] => i = j
  <2> SUFFICES ASSUME NEW i \in 1 .. n, NEW j \in 1 .. n, i # j PROVE cs[i] # cs[j]
    OBVIOUS
  <2>1. CASE i < j
    BY <1>4, <1>5, <2>1
  <2>2. CASE j < i
    BY <1>4, <1>5, <2>2
  <2> QED BY <1>3, <2>1, <2>2
<1>7. cs \in Injection(1 .. n, U)
  BY <1>4, <1>6 DEF Injection, IsInjective
<1>8. IsFiniteSet(1 .. n) /\ Cardinality(1 .. n) = n
  BY <1>3, FS_Interval
<1>9. cs \in Surjection(1 .. n, U)
  BY <1>3, <1>7, <1>8, FS_Injection
<1>10. \A c \in U : \E i \in 1 .. n : cs[i] = c
  BY <1>9 DEF Surjection
<1>11. \A i \in 1 .. n : /\ es[i] = Entry(true_bag[cs[i]], Append(path, b), seen \cup {b})
                         /\ true_bag[cs[i]] \in Bag
  BY <1>3, <1>4 DEF ChildEntries, IInv, TypeOK
<1>12. DOMAIN es = 1 .. n
  BY <1>4 DEF ChildEntries
<1>13. es \in Seq(EntryType)
  <2>1. Append(path, b) \in Seq(Bag) /\ seen \cup {b} \subseteq Bag
    BY <1>2, AppendProperties
  <2>2. \A c \in Bag : Entry(c, Append(path, b), seen \cup {b}) \in EntryType
    BY <2>1 DEF Entry, EntryType
  <2>3. es \in [1 .. n -> EntryType]
    BY <1>11, <1>12, <2>2 DEF ChildEntries
  <2> QED BY <1>3, <2>3
<1>14. \A c \in U : true_bag[c] \in StackBags(es)
  BY <1>10, <1>11, <1>12 DEF StackBags, Entry
<1> HIDE DEF es
<1>15. bag_stack' = Front(bag_stack) \o es
  BY <1>1 DEF es
<1>16. StackBags(Front(bag_stack)) \cup StackBags(es) \subseteq StackBags(bag_stack')
  BY <1>2, <1>13, <1>15, StackOfPush
<1>17. StackBags(bag_stack)' = StackBags(bag_stack')
  BY DEF StackBags
<1> QED BY <1>14, <1>16, <1>17 DEF U, Waiting

LEMMA PushCInv ==
  ASSUME IInv, CInv, NEW b, NEW path, NEW seen, PushChildren(b, path, seen)
  PROVE  CInv'
<1>1. /\ Pop(b, path, seen) /\ b \notin finished
      /\ UNCHANGED <<cfg, pc, target_bag, finished, graphVars, true_bag, children, parents>>
      /\ pc = "search"
  BY DEF PushChildren, graphVars, Pop
<1>2. b \in Bag /\ true_bag[b] = b /\ b \in LiveBags
  BY <1>1, PopFacts DEF LiveBags
<1>3. Unfinished(b) \subseteq Bag
  BY <1>2 DEF Unfinished, IInv, TypeOK
<1>4. /\ StackBags(Front(bag_stack)) \subseteq Waiting'
      /\ \A c \in Unfinished(b) : true_bag[c] \in Waiting'
  BY PushedBags
<1> DEFINE Behind(x) == \E w \in Waiting' : Reaches(cfg, w, x)
           S == {x \in Bag : true_bag[x] = b \/ true_bag[x] \in finished \/ Behind(x)}
<1>5. ASSUME NEW x \in S, NEW y \in cfg[x]
      PROVE  y \in Bag /\ (true_bag[y] = b \/ true_bag[y] \in finished \/ Behind(y))
  <2>1. x \in Bag /\ y \in Bag
    BY <1>5, TrueBags
  <2>2. CASE true_bag[x] = b
    <3>1. CASE \E c \in Unfinished(b) : true_bag[c] = true_bag[y]
      BY <1>4, <2>1, <3>1, TrueBags
    <3> QED BY <1>2, <2>1, <2>2, <3>1, EdgesOfPopped
  <2>3. CASE true_bag[x] \in finished
    BY <2>1, <2>3 DEF CInv, FinishedInv, True
  <2>4. CASE Behind(x)
    BY <2>1, <2>4, ReachesChild, ReachesTransitive
  <2> QED BY <1>5, <2>1, <2>2, <2>3, <2>4
<1>6. Closed(cfg, S)
  BY <1>5 DEF Closed
<1>7. ASSUME NEW x \in Bag, Reaches(cfg, b, x), ~ Behind(x)
      PROVE  Complete(x)
  <2>1. \A y \in Bag : Reaches(cfg, b, y) => y \in S
    BY <1>2, <1>6 DEF Reaches
  <2>2. true_bag[x] \in finished => Complete(x)
    BY <1>7 DEF CInv, FinishedInv
  <2>3. CASE true_bag[x] = b
    <3> SUFFICES ASSUME NEW y \in Bag, Reaches(cfg, x, y), Reaches(cfg, y, x)
                 PROVE  true_bag[y] = b
      BY <2>3 DEF Complete, Component
    <3>1. y \in S
      BY <1>7, <2>1, ReachesTransitive
    <3>2. ~ Behind(y)
      BY <1>7, ReachesTransitive
    <3>3. ASSUME true_bag[y] \in finished PROVE FALSE
      <4>1. true_bag[x] \in finished
        BY <3>3, ClosedBags DEF CInv, FinishedInv
      <4> QED BY <1>1, <2>3, <4>1
    <3> QED BY <3>1, <3>2, <3>3
  <2> QED BY <1>7, <2>1, <2>2, <2>3
<1>8. SearchedInv'
  BY <1>1, <1>4, <1>7, PopSearched
<1>9. LiveBags' = LiveBags /\ ExactInv'
  BY <1>1, EdgesUnchanged DEF CInv
<1>10. FinishedInv'
  BY <1>1, <1>9, CompleteUnchanged DEF CInv, FinishedInv, True
<1> QED BY <1>1, <1>8, <1>9, <1>10 DEF CInv, NormalInv
-----------------------------------------------------------------------------
(***************************************************************************)
(* A merge.  The moved bag reaches the target and is not finished; what    *)
(* was equal stays equal; and the edges of both bags become edges of one.  *)
(***************************************************************************)
LEMMA MergeExact ==
  ASSUME IInv, ExactInv, NEW moved, Merge(moved), NEW t, t = target_bag
  PROVE  ExactInv'
<1> DEFINE pars == True(parents[moved])
           chn == True(children[moved] \cup (IF moved \in pars THEN {t} ELSE {}))
<1>1. /\ moved \in LiveBags /\ t \in LiveBags /\ moved # t /\ moved \in Bag /\ t \in Bag
      /\ \A b \in Bag : true_bag'[b] = IF true_bag[b] = moved THEN t ELSE true_bag[b]
      /\ LiveBags' = LiveBags \ {moved}
  BY MergeFacts
<1>2. /\ parents' = [b \in Bag |-> parents[b] \cup (IF b = t THEN pars ELSE {})
                                              \cup (IF b \in chn THEN {t} ELSE {})]
      /\ children' = [b \in Bag |-> children[b] \cup (IF b = t THEN chn ELSE {})
                                                \cup (IF b \in pars THEN {t} ELSE {})]
      /\ cfg' = cfg
  BY DEF Merge, MoveBag, MergeFamilyBags
<1>3. /\ parents \in [Bag -> SUBSET Bag] /\ children \in [Bag -> SUBSET Bag]
      /\ true_bag \in [Bag -> Bag] /\ cfg \in [Bag -> SUBSET Bag]
  BY DEF IInv, TypeOK, IsCFG
<1>4. \A b \in LiveBags : b \in Bag /\ true_bag[b] = b
  BY DEF LiveBags
<1>5. \A S : True(S)' = {true_bag'[b] : b \in S}
  BY DEF True
<1>6. /\ pars \subseteq LiveBags /\ True(children[moved]) \subseteq LiveBags
      /\ chn = True(children[moved]) \cup (IF moved \in pars THEN {t} ELSE {})
  BY <1>1, <1>3, <1>4, TrueBags DEF True
<1> HIDE DEF pars, chn
<1>7. ASSUME NEW S \in SUBSET Bag, NEW c \in LiveBags'
      PROVE  /\ c # t => (c \in {true_bag'[b] : b \in S} <=> c \in True(S))
             /\ t \in {true_bag'[b] : b \in S} <=> t \in True(S) \/ moved \in True(S)
  BY <1>1 DEF True
<1>8. ASSUME NEW b \in LiveBags', NEW c \in LiveBags'
      PROVE  /\ b # t /\ c # t => (BagEdge(b, c)' <=> BagEdge(b, c))
             /\ c # t => (BagEdge(t, c)' <=> BagEdge(t, c) \/ BagEdge(moved, c))
             /\ b # t => (BagEdge(b, t)' <=> BagEdge(b, t) \/ BagEdge(b, moved))
  <2>1. BagEdge(b, c)' <=> \E x \in Bag : true_bag'[x] = b /\ c \in {true_bag'[y] : y \in cfg[x]}
    BY <1>2, <1>5 DEF BagEdge
  <2>2. BagEdge(t, c)' <=> \E x \in Bag : true_bag'[x] = t /\ c \in {true_bag'[y] : y \in cfg[x]}
    BY <1>2, <1>5 DEF BagEdge
  <2>3. BagEdge(b, t)' <=> \E x \in Bag : true_bag'[x] = b /\ t \in {true_bag'[y] : y \in cfg[x]}
    BY <1>2, <1>5 DEF BagEdge
  <2>4. \A x \in Bag : cfg[x] \subseteq Bag
    BY <1>3
  <2> QED BY <1>1, <1>7, <2>1, <2>2, <2>3, <2>4 DEF BagEdge
<1>9. /\ \A S, T : True(S \cup T) = True(S) \cup True(T)
      /\ True({t}) = {t} /\ True({}) = {}
      /\ True(chn) = chn /\ True(pars) = pars
  BY <1>1, <1>4, <1>6 DEF True
<1>10. \A b \in Bag : children'[b] \subseteq Bag /\ parents'[b] \subseteq Bag
  BY <1>1, <1>2, <1>3, <1>4, <1>6
<1>11. \A b, c \in LiveBags : b # c =>
         /\ c \in True(children[b]) <=> BagEdge(b, c)
         /\ b \in True(parents[c]) <=> BagEdge(b, c)
  BY DEF ExactInv
<1>12. ASSUME NEW b \in LiveBags'
       PROVE  /\ True(children'[b]) = True(children[b]) \cup (IF b = t THEN chn ELSE {})
                                                       \cup (IF b \in pars THEN {t} ELSE {})
              /\ True(parents'[b]) = True(parents[b]) \cup (IF b = t THEN pars ELSE {})
                                                     \cup (IF b \in chn THEN {t} ELSE {})
  <2>1. b \in Bag
    BY <1>1, <1>4
  <2>2. /\ children'[b] = children[b] \cup (IF b = t THEN chn ELSE {}) \cup (IF b \in pars THEN {t} ELSE {})
        /\ parents'[b] = parents[b] \cup (IF b = t THEN pars ELSE {}) \cup (IF b \in chn THEN {t} ELSE {})
    BY <1>2, <2>1
  <2>3. /\ True(IF b = t THEN chn ELSE {}) = IF b = t THEN chn ELSE {}
        /\ True(IF b = t THEN pars ELSE {}) = IF b = t THEN pars ELSE {}
        /\ True(IF b \in pars THEN {t} ELSE {}) = IF b \in pars THEN {t} ELSE {}
        /\ True(IF b \in chn THEN {t} ELSE {}) = IF b \in chn THEN {t} ELSE {}
    BY <1>9
  <2>4. \A S, T, V : True(S \cup T \cup V) = True(S) \cup True(T) \cup True(V)
    BY DEF True
  <2>5. /\ True(children'[b]) = True(children[b]) \cup True(IF b = t THEN chn ELSE {})
                                                 \cup True(IF b \in pars THEN {t} ELSE {})
        /\ True(parents'[b]) = True(parents[b]) \cup True(IF b = t THEN pars ELSE {})
                                               \cup True(IF b \in chn THEN {t} ELSE {})
    BY <2>2, <2>4
  <2> QED BY <2>3, <2>5
<1>13. /\ \A b \in LiveBags : b # moved => (b \in pars <=> BagEdge(b, moved))
       /\ \A c \in LiveBags : c # moved /\ c # t => (c \in chn <=> BagEdge(moved, c))
  BY <1>1, <1>6, <1>11 DEF pars
<1>14. ASSUME NEW b \in LiveBags', NEW c \in LiveBags', b # c
       PROVE  /\ c \in True(children[b])' <=> BagEdge(b, c)'
              /\ b \in True(parents[c])' <=> BagEdge(b, c)'
  <2>1. /\ b \in LiveBags /\ c \in LiveBags /\ b \in Bag /\ c \in Bag /\ b # moved /\ c # moved
    BY <1>1, <1>4
  <2>2. /\ True(children[b])' = {true_bag'[d] : d \in children'[b]}
        /\ True(parents[c])' = {true_bag'[d] : d \in parents'[c]}
    BY <1>5
  <2>3. CASE b # t /\ c # t
    <3>1. c \in True(children[b])' <=> c \in True(children'[b])
      BY <1>7, <1>10, <2>1, <2>2, <2>3
    <3>2. b \in True(parents[c])' <=> b \in True(parents'[c])
      BY <1>7, <1>10, <2>1, <2>2, <2>3
    <3> QED BY <1>8, <1>11, <1>12, <1>14, <2>1, <2>3, <3>1, <3>2
  <2>4. CASE b = t /\ c # t
    <3>1. c \in True(children[b])' <=> c \in True(children'[b])
      BY <1>7, <1>10, <2>1, <2>2, <2>4
    <3>2. t \in True(parents[c])' <=> t \in True(parents'[c]) \/ moved \in True(parents'[c])
      BY <1>7, <1>10, <2>1, <2>2, <2>4
    <3>3. BagEdge(b, c)' <=> BagEdge(t, c) \/ BagEdge(moved, c)
      BY <1>8, <2>4
    <3>4. c \in True(children'[b]) <=> BagEdge(t, c) \/ BagEdge(moved, c)
      BY <1>1, <1>11, <1>12, <1>13, <1>14, <2>1, <2>4
    <3>5. t \in True(parents'[c]) \/ moved \in True(parents'[c])
            <=> BagEdge(t, c) \/ BagEdge(moved, c)
      BY <1>1, <1>11, <1>12, <1>13, <1>14, <2>1, <2>4
    <3> QED BY <2>4, <3>1, <3>2, <3>3, <3>4, <3>5
  <2>5. CASE b # t /\ c = t
    <3>1. b \in True(parents[c])' <=> b \in True(parents'[c])
      BY <1>7, <1>10, <2>1, <2>2, <2>5
    <3>2. t \in True(children[b])' <=> t \in True(children'[b]) \/ moved \in True(children'[b])
      BY <1>7, <1>10, <2>1, <2>2, <2>5
    <3>3. BagEdge(b, c)' <=> BagEdge(b, t) \/ BagEdge(b, moved)
      BY <1>8, <2>5
    <3>4. b \in True(parents'[c]) <=> BagEdge(b, t) \/ BagEdge(b, moved)
      BY <1>1, <1>11, <1>12, <1>13, <1>14, <2>1, <2>5
    <3>5. t \in True(children'[b]) \/ moved \in True(children'[b])
            <=> BagEdge(b, t) \/ BagEdge(b, moved)
      BY <1>1, <1>11, <1>12, <1>13, <1>14, <2>1, <2>5
    <3> QED BY <2>5, <3>1, <3>2, <3>3, <3>4, <3>5
  <2> QED BY <1>14, <2>3, <2>4, <2>5
<1> QED BY <1>14 DEF ExactInv

LEMMA MergeCInv ==
  ASSUME IInv, CInv, NEW moved, Merge(moved)
  PROVE  CInv'
<1>1. /\ moved \in LiveBags /\ target_bag \in LiveBags /\ moved # target_bag
      /\ moved \in Bag /\ target_bag \in Bag
      /\ \A b \in Bag : true_bag'[b] = IF true_bag[b] = moved THEN target_bag ELSE true_bag[b]
      /\ LiveBags' = LiveBags \ {moved}
      /\ Reaches(cfg, moved, target_bag)
  BY MergeFacts
<1>2. UNCHANGED <<cfg, pc, bag_stack, target_bag, finished>> /\ pc = "merge"
  BY DEF Merge
<1>3. true_bag[moved] = moved /\ true_bag[target_bag] = target_bag
  BY <1>1 DEF LiveBags
<1>4. target_bag \notin finished /\ moved \notin finished
  <2>1. target_bag \notin finished
    BY <1>2 DEF CInv, FinishedInv
  <2>2. moved \in finished => target_bag \in finished
    BY <1>1, <1>3, ClosedBags DEF CInv, FinishedInv
  <2> QED BY <2>1, <2>2
<1>5. ASSUME NEW x \in Bag, Complete(x) PROVE Complete(x)'
  <2>1. \A y \in Component(x) : true_bag'[y] = true_bag'[x]
    BY <1>1, <1>5 DEF Complete, Component
  <2>2. Component(x)' = Component(x)
    BY <1>2 DEF Component, Reaches, Closed
  <2> QED BY <2>1, <2>2 DEF Complete
<1>6. ASSUME NEW x \in Bag, true_bag'[x] \in finished
      PROVE  True(cfg[x])' \subseteq finished /\ Complete(x)'
  <2>1. true_bag[x] \in finished
    BY <1>1, <1>4, <1>6
  <2>2. True(cfg[x]) \subseteq finished /\ Complete(x)
    BY <2>1 DEF CInv, FinishedInv
  <2>3. \A y \in cfg[x] : y \in Bag /\ true_bag[y] \in finished
    BY <2>2, TrueBags DEF True
  <2>4. \A y \in cfg[x] : true_bag'[y] \in finished
    BY <1>1, <1>4, <2>3
  <2> QED BY <1>2, <1>5, <2>2, <2>4 DEF True
<1>7. FinishedInv'
  BY <1>1, <1>2, <1>4, <1>6 DEF FinishedInv, CInv
<1>8. Waiting' = Waiting
  BY <1>2 DEF Waiting, StackBags
<1>9. \A x, y : Reaches(cfg, x, y)' <=> Reaches(cfg, x, y)
  BY <1>2 DEF Reaches, Closed
<1>10. SearchedInv'
  <2> SUFFICES ASSUME NEW x \in Bag, Reaches(cfg, Root, x)
               PROVE  Complete(x)' \/ \E w \in Waiting : Reaches(cfg, w, x)
    BY <1>2, <1>8 DEF SearchedInv
  <2> QED BY <1>5 DEF CInv, SearchedInv
<1>11. ExactInv'
  BY MergeExact DEF CInv
<1> QED BY <1>2, <1>7, <1>10, <1>11 DEF CInv, NormalInv

LEMMA ClosedCInv == IInv /\ CInv /\ LoopClosed => CInv'
<1> SUFFICES ASSUME IInv, CInv, LoopClosed PROVE CInv'
  OBVIOUS
<1>1. /\ UNCHANGED <<cfg, target_bag, finished, graphVars, true_bag, children, parents>>
      /\ pc = "merge" /\ pc' = "search"
      /\ bag_stack' = Append(bag_stack, Entry(target_bag, pre_path', visited'))
  BY DEF LoopClosed, graphVars
<1> DEFINE e == Entry(target_bag, pre_path', visited')
<1>2. e \in EntryType /\ bag_stack \in Seq(EntryType)
  <2>1. pre_path \in Seq(Bag) /\ pre_path # <<>> /\ visited \subseteq Bag /\ target_bag \in Bag
    BY DEF IInv, TypeOK, LoopClosed
  <2>2. pre_path' \in Seq(Bag) /\ visited' \subseteq Bag
    BY <2>1, FrontOfSeq DEF LoopClosed
  <2> QED BY <2>1, <2>2 DEF Entry, EntryType, IInv, TypeOK
<1>3. Waiting \subseteq Waiting'
  <2>1. e.bag = target_bag
    BY DEF Entry
  <2> HIDE DEF e
  <2>2. /\ Len(bag_stack) \in Nat
        /\ \A k \in DOMAIN bag_stack : k \in DOMAIN bag_stack' /\ bag_stack'[k] = bag_stack[k]
        /\ Len(bag_stack) + 1 \in DOMAIN bag_stack' /\ bag_stack'[Len(bag_stack) + 1] = e
    <3>1. bag_stack' = Append(bag_stack, e)
      BY <1>1 DEF e
    <3>2. /\ Len(bag_stack) \in Nat /\ DOMAIN bag_stack = 1 .. Len(bag_stack)
          /\ DOMAIN Append(bag_stack, e) = 1 .. Len(bag_stack) + 1
      BY <1>2, AppendElements
    <3>3. /\ \A i \in 1 .. Len(bag_stack) : Append(bag_stack, e)[i] = bag_stack[i]
          /\ Append(bag_stack, e)[Len(bag_stack) + 1] = e
      BY <1>2, AppendProperties
    <3> QED BY <3>1, <3>2, <3>3
  <2> QED BY <1>1, <2>1, <2>2 DEF Waiting, StackBags
<1>4. SearchedInv'
  <2> SUFFICES ASSUME NEW x \in Bag, Reaches(cfg, Root, x), ~ Complete(x)
               PROVE  \E w \in Waiting' : Reaches(cfg, w, x)
    BY <1>1, CompleteUnchanged DEF SearchedInv
  <2> QED BY <1>3 DEF CInv, SearchedInv
<1>5. LiveBags' = LiveBags /\ ExactInv'
  BY <1>1, EdgesUnchanged DEF CInv
<1>6. FinishedInv'
  BY <1>1, <1>5, CompleteUnchanged DEF CInv, FinishedInv, True
<1> QED BY <1>1, <1>4, <1>5, <1>6 DEF CInv, NormalInv

LEMMA NormalizeCInv == IInv /\ CInv /\ Normalize => CInv'
<1> SUFFICES ASSUME IInv, CInv, Normalize PROVE CInv'
  OBVIOUS
<1>1. /\ UNCHANGED <<cfg, true_bag, bag_stack, target_bag, finished>>
      /\ pc = "search" /\ pc' = "done" /\ bag_stack = <<>>
      /\ parents' = [b \in Bag |-> IF b \in LiveBags THEN True(parents[b]) \ {b} ELSE {}]
      /\ children' = [b \in Bag |-> IF b \in LiveBags THEN True(children[b]) \ {b} ELSE {}]
  BY DEF Normalize, TrueFamily, searchVars
<1>2. LiveBags' = LiveBags /\ \A S : True(S)' = {true_bag[b] : b \in S}
  BY <1>1 DEF LiveBags, True
<1>3. /\ \A b \in LiveBags : b \in Bag /\ children[b] \subseteq Bag /\ parents[b] \subseteq Bag
      /\ \A S \in SUBSET Bag : True(S) \subseteq LiveBags
      /\ \A S \in SUBSET LiveBags : True(S) = S
  BY TrueBags DEF True, LiveBags, IInv, TypeOK
<1>4. ASSUME NEW b \in LiveBags
      PROVE  /\ children'[b] = True(children[b]) \ {b} /\ parents'[b] = True(parents[b]) \ {b}
             /\ children'[b] \subseteq LiveBags /\ parents'[b] \subseteq LiveBags
             /\ True(children[b])' = children'[b] /\ True(parents[b])' = parents'[b]
  <2>1. children'[b] = True(children[b]) \ {b} /\ parents'[b] = True(parents[b]) \ {b}
    BY <1>1, <1>3
  <2>2. children'[b] \subseteq LiveBags /\ parents'[b] \subseteq LiveBags
    BY <1>3, <2>1
  <2>3. True(children'[b]) = children'[b] /\ True(parents'[b]) = parents'[b]
    BY <1>3, <2>2
  <2>4. True(children[b])' = True(children'[b]) /\ True(parents[b])' = True(parents'[b])
    BY <1>1 DEF True
  <2> QED BY <2>1, <2>2, <2>3, <2>4
<1>5. \A b, c : BagEdge(b, c)' <=> BagEdge(b, c)
  BY <1>1 DEF BagEdge, True
<1>6. ExactInv'
  BY <1>2, <1>4, <1>5 DEF CInv, ExactInv
<1>7. NormalInv'
  <2>1. \A b \in LiveBags : children'[b] \subseteq LiveBags \ {b} /\ parents'[b] \subseteq LiveBags \ {b}
    BY <1>4
  <2>2. \A b \in Bag \ LiveBags : children'[b] = {}
    BY <1>1
  <2>3. bag_stack' = <<>>
    BY <1>1
  <2> QED BY <1>2, <2>1, <2>2, <2>3 DEF NormalInv
<1>8. FinishedInv'
  BY <1>1, <1>2, CompleteUnchanged DEF CInv, FinishedInv, True
<1>9. SearchedInv'
  <2>1. Waiting' = Waiting
    BY <1>1 DEF Waiting, StackBags
  <2> QED BY <1>1, <2>1, CompleteUnchanged DEF CInv, SearchedInv
<1> QED BY <1>6, <1>7, <1>8, <1>9 DEF CInv

LEMMA NextCInv == IInv /\ CInv /\ [Next]_vars => CInv'
<1> SUFFICES ASSUME IInv, CInv, [Next]_vars PROVE CInv'
  OBVIOUS
<1>1. CASE Search
  BY <1>1, SkipCInv, FoundCInv, PushCInv, FinishCInv DEF Search
<1>2. CASE \E b \in Bag : Merge(b)
  BY <1>2, MergeCInv
<1>3. CASE UNCHANGED vars
  <2>1. UNCHANGED <<cfg, pc, bag_stack, target_bag, finished, graphVars, true_bag, children,
                    parents>>
    BY <1>3 DEF vars, searchVars, graphVars
  <2>2. LiveBags' = LiveBags /\ ExactInv'
    BY <2>1, EdgesUnchanged DEF CInv
  <2>3. Waiting' = Waiting
    BY <2>1 DEF Waiting, StackBags
  <2>4. FinishedInv' /\ SearchedInv'
    BY <2>1, <2>2, <2>3, CompleteUnchanged DEF CInv, FinishedInv, SearchedInv, True
  <2> QED BY <2>1, <2>2, <2>4 DEF CInv, NormalInv
<1> QED BY <1>1, <1>2, <1>3, ClosedCInv, NormalizeCInv DEF Next, Done

(* A finished bag is a whole loop, and every loop that is not one bag yet   *)
(* is reached from a bag that waits on the stack.                          *)
THEOREM Completeness == Spec => [](IInv /\ CInv)
<1>1. IInv /\ CInv /\ [Next]_vars => (IInv /\ CInv)'
  BY NextIInv, NextCInv
<1> QED BY <1>1, InitIInv, InitCInv, PTL DEF Spec

(* The entry block reaches every block, as it does in what Lift makes.     *)
EveryBlockIsReached == \A b \in Bag : Reaches(cfg, Root, b)

LEMMA AtTheEnd ==
  ASSUME IInv, CInv, EveryBlockIsReached, pc = "done", NEW b \in Bag
  PROVE  in_bbs[true_bag[b]] = Component(b)
<1>1. Waiting = {}
  BY DEF Waiting, StackBags, CInv, NormalInv
<1>2. Complete(b)
  BY <1>1 DEF CInv, SearchedInv, EveryBlockIsReached
<1>3. in_bbs[true_bag[b]] = {c \in Bag : true_bag[c] = true_bag[b]}
  BY TrueBags DEF IInv, PartitionInv
<1>4. \A c \in Bag : true_bag[c] = true_bag[b] => c \in Component(b)
  BY DEF IInv, MergedBlocksAreLoops, Component
<1>5. Component(b) \subseteq Bag
  BY DEF Component
<1> QED BY <1>2, <1>3, <1>4, <1>5 DEF Complete

(***************************************************************************)
(* When the search is over, every loop nest is one bag, although a bag is  *)
(* not pushed again behind its children.                                   *)
(***************************************************************************)
THEOREM LoopsTheorem == Spec => [](EveryBlockIsReached => BagsAreLoops)
<1>1. IInv /\ CInv => (EveryBlockIsReached => BagsAreLoops)
  BY AtTheEnd DEF BagsAreLoops
<1> QED BY <1>1, Completeness, PTL

(* The graph of bags that the later passes walk has no cycle, has the      *)
(* edges of the blocks, and has them at both ends.                         *)
THEOREM AcyclicTheorem == Spec => [](EveryBlockIsReached => BagGraphIsAcyclic)
<1>1. ASSUME IInv, CInv, EveryBlockIsReached, pc = "done", NEW b \in LiveBags
      PROVE  /\ \A c \in children[b] : ~ Reaches(children, c, b)
             /\ children[b] = (UNION {True(cfg[c]) : c \in in_bbs[b]}) \ {b}
             /\ \A c \in LiveBags : c \in children[b] <=> b \in parents[c]
  <2>1. b \in Bag /\ true_bag[b] = b
    BY DEF LiveBags
  <2>2. /\ \A d \in LiveBags : /\ children[d] \subseteq LiveBags \ {d}
                               /\ parents[d] \subseteq LiveBags \ {d}
        /\ \A d \in Bag \ LiveBags : children[d] = {}
    BY <1>1 DEF CInv, NormalInv
  <2>3. \A S \in SUBSET LiveBags : True(S) = S
    BY DEF True, LiveBags
  <2>4. \A d \in LiveBags : True(children[d]) = children[d] /\ True(parents[d]) = parents[d]
    BY <2>2, <2>3
  <2>5. \A c \in LiveBags : b # c => /\ c \in children[b] <=> BagEdge(b, c)
                                     /\ b \in parents[c] <=> BagEdge(b, c)
    BY <1>1, <2>4 DEF CInv, ExactInv
  <2>6. \A c \in LiveBags : c \in children[b] <=> b \in parents[c]
    BY <2>2, <2>5
  <2>7. children[b] = (UNION {True(cfg[c]) : c \in in_bbs[b]}) \ {b}
    <3>1. in_bbs[b] = {c \in Bag : true_bag[c] = b}
      BY <1>1, <2>1 DEF IInv, PartitionInv
    <3>2. \A c : c \in UNION {True(cfg[x]) : x \in in_bbs[b]} <=> BagEdge(b, c)
      BY <3>1 DEF BagEdge
    <3>3. \A c : BagEdge(b, c) => c \in LiveBags
      BY <1>1, TrueBags DEF BagEdge, True
    <3> QED BY <2>2, <2>5, <3>2, <3>3
  <2>8. ASSUME NEW c \in children[b], Reaches(children, c, b) PROVE FALSE
    <3>1. c \in LiveBags /\ c # b /\ c \in Bag /\ true_bag[c] = c
      BY <2>2 DEF LiveBags
    <3> DEFINE S == {d \in Bag : Reaches(cfg, c, d)}
    <3>2. Closed(children, S)
      <4> SUFFICES ASSUME NEW d \in S, NEW e \in children[d] PROVE e \in S
        BY DEF Closed
      <4>1. d \in Bag /\ e \in Bag
        BY <1>1 DEF IInv, TypeOK
      <4>2. Reaches(cfg, d, e)
        BY <1>1, <4>1 DEF IInv, EdgesInv
      <4> QED BY <4>1, <4>2, ReachesTransitive
    <3>3. b \in S
      <4>1. c \in S
        BY <3>1, ReachesItself
      <4> QED BY <2>8, <3>2, <4>1 DEF Reaches
    <3>4. Reaches(cfg, b, c)
      BY <1>1, <2>1, <3>1 DEF IInv, EdgesInv
    <3>5. b \in Component(c) /\ c \in Component(b)
      BY <2>1, <3>1, <3>3, <3>4 DEF Component
    <3>6. c \in in_bbs[b]
      BY <1>1, <2>1, <3>5, AtTheEnd
    <3> QED BY <1>1, <2>1, <3>1, <3>6 DEF IInv, PartitionInv
  <2> QED BY <2>6, <2>7, <2>8
<1>2. IInv /\ CInv => (EveryBlockIsReached => BagGraphIsAcyclic)
  BY <1>1 DEF BagGraphIsAcyclic
<1> QED BY <1>2, Completeness, PTL
-----------------------------------------------------------------------------
(***************************************************************************)
(* What the data flow analysis is handed.  RegBags assumes of its graphs   *)
(* that they are acyclic behind the root, and that a bag whose loads are   *)
(* not those of the block it started from has is_loop set; nothing sets    *)
(* is_loop for a bag of one block.                                         *)
(***************************************************************************)
MarkInv ==
  \A b \in LiveBags : in_bbs[b] # {b} => \/ is_loop[b] = "loop"
                                         \/ pc = "merge" /\ b = target_bag

ReachesBag(b, c) == \A S \in SUBSET LiveBags : b \in S /\ Closed(children, S) => c \in S

BagGraphIsFit ==
  pc = "done" =>
    /\ Root \in LiveBags
    /\ \A b \in LiveBags :
         /\ children[b] \subseteq LiveBags
         /\ ReachesBag(Root, b)
         /\ \A c \in children[b] : ~ ReachesBag(c, b)
         /\ own_ld_rmp[b] # BlockLoads[b] => is_loop[b] = "loop"

LEMMA NextMark == IInv /\ MarkInv /\ [Next]_vars => MarkInv'
<1> SUFFICES ASSUME IInv, MarkInv, [Next]_vars PROVE MarkInv'
  OBVIOUS
<1>1. ASSUME NEW moved \in Bag, Merge(moved) PROVE MarkInv'
  <2>1. /\ pc = "merge" /\ UNCHANGED <<pc, target_bag, is_loop>>
        /\ in_bbs' = [in_bbs EXCEPT ![target_bag] = @ \cup in_bbs[moved]]
        /\ in_bbs \in [Bag -> SUBSET Bag]
    BY <1>1 DEF Merge, MoveBag, IInv, TypeOK
  <2>2. LiveBags' \subseteq LiveBags /\ LiveBags \subseteq Bag
    BY <1>1, MergeFacts DEF LiveBags
  <2>3. \A b \in LiveBags' : b # target_bag => in_bbs'[b] = in_bbs[b]
    BY <2>1, <2>2
  <2> QED BY <2>1, <2>2, <2>3 DEF MarkInv
<1>2. CASE LoopClosed
  <2>1. /\ pc = "merge" /\ is_loop' = [is_loop EXCEPT ![target_bag] = "loop"]
        /\ UNCHANGED <<true_bag, in_bbs>> /\ is_loop \in [Bag -> {"undetermined", "loop"}]
    BY <1>2 DEF LoopClosed, MarkLoop, graphVars, IInv, TypeOK
  <2>2. LiveBags' = LiveBags /\ LiveBags \subseteq Bag
    BY <2>1 DEF LiveBags
  <2>3. \A b \in LiveBags : is_loop'[b] = IF b = target_bag THEN "loop" ELSE is_loop[b]
    BY <2>1, <2>2
  <2> QED BY <2>1, <2>2, <2>3 DEF MarkInv
<1>3. CASE (bag_stack # <<>> /\ Search) \/ Normalize \/ Done \/ UNCHANGED vars
  <2>1. /\ UNCHANGED <<true_bag, in_bbs, is_loop>>
        /\ pc = "merge" => pc' = "merge" /\ target_bag' = target_bag
    BY <1>3 DEF Search, SkipFinished, LoopFound, PushChildren, FinishBag, Pop, Normalize, Done,
                vars, graphVars, searchVars
  <2>2. LiveBags' = LiveBags
    BY <2>1 DEF LiveBags
  <2> QED BY <2>1, <2>2 DEF MarkInv
<1> QED BY <1>1, <1>2, <1>3 DEF Next

(* The graph of bags that RemoveLoop leaves is one that RegBags assumes.   *)
THEOREM FitTheorem == Spec => [](EveryBlockIsReached => BagGraphIsFit)
<1>1. Init => MarkInv
  BY DEF Init, MarkInv, LiveBags
<1>2. ASSUME IInv, CInv, MarkInv, EveryBlockIsReached, BagGraphIsAcyclic PROVE BagGraphIsFit
  <2> SUFFICES ASSUME pc = "done" PROVE BagGraphIsFit
    BY DEF BagGraphIsFit
  <2>1. /\ LiveBags \subseteq Bag /\ children \in [Bag -> SUBSET Bag]
        /\ \A b \in LiveBags : children[b] \subseteq LiveBags /\ true_bag[b] = b
    BY <1>2 DEF CInv, NormalInv, LiveBags, IInv, TypeOK
  <2>2. Root \in LiveBags
    <3>1. Closed(cfg, Bag \ {Root})
      BY <1>2 DEF Closed, IInv, TypeOK, IsCFG
    <3>2. Reaches(cfg, true_bag[Root], Root) /\ true_bag[Root] \in LiveBags
      BY <1>2, TrueBags, BagAssumption
    <3>3. true_bag[Root] = Root
      <4> SUFFICES ASSUME true_bag[Root] # Root PROVE FALSE
        OBVIOUS
      <4>1. true_bag[Root] \in Bag \ {Root}
        BY <2>1, <3>2
      <4> QED BY <3>1, <3>2, <4>1 DEF Reaches
    <3> QED BY <3>2, <3>3
  <2>3. ASSUME NEW b \in LiveBags PROVE ReachesBag(Root, b)
    <3> SUFFICES ASSUME NEW S \in SUBSET LiveBags, Root \in S, Closed(children, S)
                 PROVE  b \in S
      BY DEF ReachesBag
    <3>1. ASSUME NEW x \in Bag, true_bag[x] \in S PROVE True(cfg[x]) \subseteq S
      <4>1. in_bbs[true_bag[x]] = {c \in Bag : true_bag[c] = true_bag[x]}
        BY <1>2, TrueBags DEF IInv, PartitionInv
      <4>2. children[true_bag[x]]
              = (UNION {True(cfg[c]) : c \in in_bbs[true_bag[x]]}) \ {true_bag[x]}
        BY <1>2, TrueBags DEF BagGraphIsAcyclic
      <4>3. True(cfg[x]) \subseteq children[true_bag[x]] \cup {true_bag[x]}
        BY <4>1, <4>2
      <4> QED BY <3>1, <4>3 DEF Closed
    <3>2. Reaches(cfg, Root, b) /\ Root \in Bag /\ true_bag[Root] \in S
      BY <1>2, <2>1, <2>2, BagAssumption DEF EveryBlockIsReached
    <3>3. true_bag[b] \in S
      BY <1>2, <2>1, <3>1, <3>2, ClosedBags
    <3> QED BY <2>1, <3>3
  <2>4. ASSUME NEW b \in LiveBags, NEW c \in children[b], ReachesBag(c, b) PROVE FALSE
    <3>1. Reaches(children, c, b)
      <4> SUFFICES ASSUME NEW S \in SUBSET Bag, c \in S, Closed(children, S) PROVE b \in S
        BY DEF Reaches
      <4>1. Closed(children, S \cap LiveBags) /\ c \in S \cap LiveBags
        BY <2>1 DEF Closed
      <4> QED BY <2>4, <4>1 DEF ReachesBag
    <3> QED BY <1>2, <3>1 DEF BagGraphIsAcyclic
  <2>5. ASSUME NEW b \in LiveBags, own_ld_rmp[b] # BlockLoads[b] PROVE is_loop[b] = "loop"
    <3>1. in_bbs[b] # {b}
      <4> SUFFICES ASSUME in_bbs[b] = {b} PROVE FALSE
        OBVIOUS
      <4>1. \A r \in Reg : own_ld_rmp[b][r] = BlockLoads[b][r]
        BY <1>2 DEF IInv, OwnRegsAreTheBlocks, IsWidestOf
      <4>2. own_ld_rmp[b] \in RegMap /\ BlockLoads[b] \in RegMap
        BY <1>2, <2>1, RegsAssumption DEF IInv, TypeOK
      <4> QED BY <2>5, <4>1, <4>2 DEF RegMap
    <3> QED BY <1>2, <3>1 DEF MarkInv
  <2> QED BY <2>1, <2>2, <2>3, <2>4, <2>5 DEF BagGraphIsFit
<1>3. IInv /\ CInv /\ MarkInv /\ (EveryBlockIsReached => BagGraphIsAcyclic)
        => (EveryBlockIsReached => BagGraphIsFit)
  BY <1>2
<1>4. Spec => []MarkInv
  <2>1. IInv /\ MarkInv /\ [Next]_vars => MarkInv'
    BY NextMark
  <2> QED BY <1>1, <2>1, Invariance, PTL DEF Spec
<1> QED BY <1>3, <1>4, Completeness, AcyclicTheorem, PTL
=============================================================================
