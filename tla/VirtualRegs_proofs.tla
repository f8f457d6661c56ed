------------------------- MODULE VirtualRegs_proofs -------------------------
(***************************************************************************)
(* The optimised function shows what the lifted one shows, for every       *)
(* function that Supported describes and in which no phi node was left     *)
(* behind by a call.  The State may be out of date only   *)
(* behind a block that stores the register; a block that is entered        *)
(* without a virtual value and behind such a store is one behind which the *)
(* register is not read, because drvd_rmp would ask for the value there.   *)
(***************************************************************************)
EXTENDS VirtualRegs, FiniteSetTheorems, WellFoundedInduction, SequenceTheorems, TLAPS

(* The maps are the ones the passes before computed, and the function runs *)
(* from its start.                                                         *)
AnalysisInv ==
  /\ fn \in Functions
  /\ pres_str_rmp = [b \in Block |-> PresStores(fn, b)]
  /\ drvd_rmp = [b \in Block |-> Derived(fn, b)]

StartInv ==
  pc = "compile" =>
    /\ bb = Entry /\ next = 1
    /\ cur = Absent /\ fresh = Absent /\ early = Absent
    /\ reg = state /\ seen.what = "nothing"

CachedInv == Passed("call") /\ pres_str_rmp[bb] # 0 => cur # Absent

IInv == TypeOK /\ AnalysisInv /\ StartInv /\ CachedInv

(* Virtual values are whole, where all accesses are.                       *)
WholeInv == cur = Absent \/ cur.width = 8

(* r_fresh_inst_mp names the virtual value until a call replaces it, and   *)
(* so do the phi nodes that took it early.                                 *)
AccessAt(i) == fn.code[bb][i].op \in {"load", "store", "pair"}

ReloadAt(i) == fn.code[bb][i].op \in {"call", "svc"} /\ Returned(fn.code[bb][i].op)

NotReloaded ==
  \A i \in DOMAIN fn.code[bb] :
    i < next /\ ReloadAt(i) => \E j \in DOMAIN fn.code[bb] : i < j /\ j < next /\ AccessAt(j)

FreshInv == NotReloaded => fresh = cur /\ early = cur

(* A block that neither derives the register nor accesses it has no value. *)
NotAccessed == \A i \in DOMAIN fn.code[bb] : i < next => ~ AccessAt(i)

AbsentInv ==
  drvd_rmp[bb] = 0 /\ NotAccessed => cur = Absent /\ fresh = Absent /\ early = Absent

(* The State is out of date only behind a store.                           *)
StoredBehind(b) == \E s \in Block : BlockStore(fn, s) # 0 /\ Reaches(fn, s, b)

DirtyInv == pc = "run" /\ reg # state => StoredBehind(bb)

Sound == pc # "compile" /\ Supported(fn) /\ StaleBranches = {}

SInv ==
  Sound =>
    /\ WholeInv
    /\ FreshInv
    /\ AbsentInv
    /\ DirtyInv
    /\ RegisterIsKept
    /\ LoadsAgree
    /\ ArgumentsAgree
    /\ ResultsAgree
-----------------------------------------------------------------------------
(***************************************************************************)
(* Blocks that reach each other, and the largest of some widths.           *)
(***************************************************************************)
USE BlockAssumption, RegAssumption

LEMMA ReachReflexive == ASSUME NEW f, NEW b PROVE Reaches(f, b, b)
BY DEF Reaches

LEMMA ReachTransitive ==
  ASSUME NEW f, NEW a, NEW b, NEW c, Reaches(f, a, b), Reaches(f, b, c)
  PROVE  Reaches(f, a, c)
BY DEF Reaches

LEMMA ReachStep ==
  ASSUME NEW f, NEW a, NEW b, NEW c \in f.succ[b], Reaches(f, a, b)
  PROVE  Reaches(f, a, c)
BY DEF Reaches, Closed

(* Nothing branches to the entry block, so only it reaches itself.         *)
LEMMA NothingBeforeEntry ==
  ASSUME NEW f, WellFormed(f)
  PROVE  Before(f, Entry) = {}
<1> SUFFICES ASSUME NEW a \in Block, Reaches(f, a, Entry), a \notin Bag(f, Entry)
             PROVE  FALSE
  BY DEF Before
<1> DEFINE S == Block \ {Entry}
<1>1. a \in S
  BY ReachReflexive DEF Bag
<1>2. Closed(f, S)
  BY DEF Closed, WellFormed, Function
<1> QED BY <1>1, <1>2 DEF Reaches

(* Two blocks that reach each other are in a bag of more than one block.   *)
LEMMA BagOfTwo ==
  ASSUME NEW f, NEW a \in Block, NEW b \in Block, a # b, Reaches(f, a, b), Reaches(f, b, a)
  PROVE  Cardinality(Bag(f, b)) > 1
<1>1. {a, b} \subseteq Bag(f, b) /\ Bag(f, b) \subseteq Block
  BY ReachReflexive DEF Bag
<1>2. IsFiniteSet({b}) /\ Cardinality({b}) = 1
  BY FS_Singleton
<1>3. Cardinality({b} \cup {a}) = 2
  BY <1>2, FS_AddElement
<1>4. IsFiniteSet(Bag(f, b))
  BY <1>1, FS_Subset
<1>5. {b} \cup {a} \in SUBSET Bag(f, b)
  BY <1>1
<1>6. Cardinality({b} \cup {a}) <= Cardinality(Bag(f, b)) /\ Cardinality(Bag(f, b)) \in Nat
  BY <1>4, <1>5, FS_Subset, FS_CardinalityType
<1> QED BY <1>3, <1>6

LEMMA LargestWidth ==
  ASSUME NEW S, S \subseteq {0, 4, 8}, S # {}
  PROVE  Max(S) \in S /\ \A w \in S : Max(S) >= w
<1>1. \E m \in S : \A w \in S : m >= w
  <2>1. CASE 8 \in S
    <3>1. \A w \in S : 8 >= w
      OBVIOUS
    <3> QED BY <2>1, <3>1
  <2>2. CASE 8 \notin S /\ 4 \in S
    <3>1. \A w \in S : 4 >= w
      BY <2>2
    <3> QED BY <2>2, <3>1
  <2>3. CASE S = {0}
    <3>1. \A w \in S : 0 >= w
      BY <2>3
    <3> QED BY <2>3, <3>1
  <2> QED BY <2>1, <2>2, <2>3
<1> QED BY <1>1 DEF Max

(* A family of finite sets has a member none of the others is inside of.   *)
Family(F, D) == IsFiniteSet(D) /\ F \subseteq SUBSET D /\ F # {}

LEMMA MinimalSet ==
  ASSUME NEW D, NEW F, Family(F, D)
  PROVE  \E s \in F : \A t \in F : t \subseteq s => t = s
<1>1. F \subseteq FiniteSubsetsOf(D)
  BY FS_Subset DEF FiniteSubsetsOf, Family
<1>2. IsWellFoundedOn(StrictSubsetOrdering(D), FiniteSubsetsOf(D))
  BY FS_StrictSubsetOrderingWellFounded
<1>3. PICK s \in F : \A t \in F : <<t, s>> \notin StrictSubsetOrdering(D)
  BY <1>1, <1>2, WFMin DEF Family
<1> QED BY <1>1, <1>3 DEF StrictSubsetOrdering, Family

LEMMA FirstAndLast ==
  ASSUME NEW n \in Nat, NEW S \in SUBSET (1 .. n), S # {}
  PROVE  /\ Min(S) \in S /\ \A i \in S : Min(S) <= i
         /\ Max(S) \in S /\ \A i \in S : Max(S) >= i
<1>1. IsFiniteSet(S)
  <2>1. IsFiniteSet(1 .. n)
    BY FS_Interval
  <2> QED BY <2>1, FS_Subset
<1>2. \E m \in S : \A i \in S : m <= i
  <2> DEFINE below(i) == {k \in S : k < i}
             F == {below(i) : i \in S}
  <2>1. Family(F, S)
    BY <1>1 DEF Family
  <2> HIDE DEF F
  <2>2. PICK s \in F : \A t \in F : t \subseteq s => t = s
    BY <2>1, MinimalSet
  <2>3. PICK m \in S : s = below(m)
    BY DEF F
  <2>4. ASSUME NEW i \in S, i < m PROVE FALSE
    <3>1. \A k \in S : k < i => k < m
      BY <2>4
    <3>2. below(i) \subseteq s
      BY <2>3, <3>1
    <3>3. i \in s /\ i \notin below(i)
      BY <2>3, <2>4
    <3>4. below(i) \in F
      BY DEF F
    <3> QED BY <2>2, <3>2, <3>3, <3>4
  <2> QED BY <2>4
<1>3. \E m \in S : \A i \in S : m >= i
  <2> DEFINE above(i) == {k \in S : k > i}
             F == {above(i) : i \in S}
  <2>1. Family(F, S)
    BY <1>1 DEF Family
  <2> HIDE DEF F
  <2>2. PICK s \in F : \A t \in F : t \subseteq s => t = s
    BY <2>1, MinimalSet
  <2>3. PICK m \in S : s = above(m)
    BY DEF F
  <2>4. ASSUME NEW i \in S, i > m PROVE FALSE
    <3>1. \A k \in S : k > i => k > m
      BY <2>4
    <3>2. above(i) \subseteq s
      BY <2>3, <3>1
    <3>3. i \in s /\ i \notin above(i)
      BY <2>3, <2>4
    <3>4. above(i) \in F
      BY DEF F
    <3> QED BY <2>2, <3>2, <3>3, <3>4
  <2> QED BY <2>4
<1> QED BY <1>2, <1>3 DEF Min, Max
-----------------------------------------------------------------------------
(***************************************************************************)
(* The register maps of a function.                                        *)
(***************************************************************************)
LEMMA OpShape ==
  ASSUME NEW f \in Function, NEW b \in Block, NEW i \in DOMAIN f.code[b]
  PROVE  LET o == f.code[b][i]
         IN  /\ o \in Op
             /\ o.op \in {"load", "store", "pair"} => o.width \in {4, 8}
             /\ o.op \in {"load", "store", "pair", "call", "svc"}
<1>1. f.code[b] \in Seq(Op)
  BY DEF Function
<1>2. f.code[b][i] \in Op
  BY <1>1, ElementOfSeq, LenProperties
<1> QED BY <1>2 DEF Op

LEMMA PositionsInCode ==
  ASSUME NEW f \in Function, NEW b \in Block, NEW op
  PROVE  /\ Len(f.code[b]) \in Nat
         /\ DOMAIN f.code[b] = 1 .. Len(f.code[b])
         /\ Positions(f, b, op) \subseteq 1 .. Len(f.code[b])
         /\ Stores(f, b) \subseteq 1 .. Len(f.code[b])
<1>1. f.code[b] \in Seq(Op)
  BY DEF Function
<1> QED BY <1>1, LenProperties DEF Positions, Stores

(* A block that stores the register is in bb_str_r_mp, and one that loads  *)
(* it before any store is in bb_ld_r_mp.                                   *)
LEMMA BlockStoreWidth ==
  ASSUME NEW f \in Function, NEW b \in Block
  PROVE  /\ BlockStore(f, b) \in {0, 4, 8}
         /\ Stores(f, b) # {} => BlockStore(f, b) # 0
         /\ WholeAccesses(f) => BlockStore(f, b) \in {0, 8}
<1> DEFINE S == Stores(f, b)
<1>1. CASE S = {}
  BY <1>1 DEF BlockStore
<1>2. CASE S # {}
  <2>1. Max(S) \in S
    BY <1>2, PositionsInCode, FirstAndLast
  <2>2. BlockStore(f, b) = f.code[b][Max(S)].width
    BY <1>2 DEF BlockStore
  <2>3. Max(S) \in DOMAIN f.code[b] /\ f.code[b][Max(S)].op \in {"store", "pair"}
    BY <2>1 DEF Positions, Stores
  <2> HIDE DEF S
  <2>4. f.code[b][Max(S)].width \in {4, 8}
    BY <2>3, OpShape
  <2> QED BY <2>2, <2>3, <2>4 DEF WholeAccesses
<1> QED BY <1>1, <1>2

LEMMA BlockLoadWidth ==
  ASSUME NEW f \in Function, NEW b \in Block
  PROVE  /\ BlockLoad(f, b) \in {0, 4, 8}
         /\ (\E i \in Positions(f, b, "load") : \A j \in Stores(f, b) : i < j)
              => BlockLoad(f, b) # 0
         /\ WholeAccesses(f) => BlockLoad(f, b) \in {0, 8}
<1> DEFINE S == {i \in Positions(f, b, "load") : \A j \in Stores(f, b) : i < j}
<1>1. CASE S = {}
  BY <1>1 DEF BlockLoad
<1>2. CASE S # {}
  <2>1. S \subseteq 1 .. Len(f.code[b]) /\ Len(f.code[b]) \in Nat
    BY PositionsInCode
  <2>2. Min(S) \in S
    BY <1>2, <2>1, FirstAndLast
  <2>3. BlockLoad(f, b) = f.code[b][Min(S)].width
    BY <1>2 DEF BlockLoad
  <2>4. Min(S) \in DOMAIN f.code[b] /\ f.code[b][Min(S)].op = "load"
    BY <2>2 DEF Positions
  <2> HIDE DEF S
  <2>5. f.code[b][Min(S)].width \in {4, 8}
    BY <2>4, OpShape
  <2> QED BY <2>3, <2>4, <2>5 DEF WholeAccesses
<1> QED BY <1>1, <1>2

LEMMA PresStoresWidth ==
  ASSUME NEW f \in Function, NEW b \in Block
  PROVE  /\ PresStores(f, b) \in {0, 4, 8}
         /\ \A a \in Before(f, b) : BlockStore(f, a) # 0 => PresStores(f, b) # 0
         /\ WholeAccesses(f) => PresStores(f, b) \in {0, 8}
         /\ Before(f, b) = {} => PresStores(f, b) = 0
<1> DEFINE S == {0} \cup {BlockStore(f, a) : a \in Before(f, b)}
<1>1. \A a \in Before(f, b) : a \in Block
  BY DEF Before
<1>2. S \subseteq {0, 4, 8} /\ S # {}
  BY <1>1, BlockStoreWidth
<1>3. WholeAccesses(f) => S \subseteq {0, 8}
  BY <1>1, BlockStoreWidth
<1>4. \A a \in Before(f, b) : BlockStore(f, a) \in S
  OBVIOUS
<1>5. Before(f, b) = {} => S = {0}
  OBVIOUS
<1>6. PresStores(f, b) = Max(S)
  BY DEF PresStores
<1> HIDE DEF S
<1>7. Max(S) \in S /\ \A w \in S : Max(S) >= w
  BY <1>2, LargestWidth
<1>8. ASSUME NEW a \in Before(f, b), BlockStore(f, a) # 0
      PROVE  Max(S) # 0
  <2>1. BlockStore(f, a) \in {4, 8} /\ Max(S) >= BlockStore(f, a)
    BY <1>1, <1>4, <1>7, <1>8, BlockStoreWidth
  <2> QED BY <2>1
<1> QED BY <1>2, <1>3, <1>5, <1>6, <1>7, <1>8

(* What is derived is the largest of three widths: an argument that blocks *)
(* before store is derived, and so is a register that blocks before store  *)
(* and a block behind loads.                                               *)
LEMMA DerivedWidth ==
  ASSUME NEW f \in Function, NEW b \in Block
  PROVE  /\ Derived(f, b) \in {0, 4, 8}
         /\ WholeAccesses(f) => Derived(f, b) \in {0, 8}
         /\ Passed("call") /\ PresStores(f, b) # 0 => Derived(f, b) # 0
         /\ PresStores(f, b) # 0
              /\ (\E c \in Block : Reaches(f, b, c) /\ BlockLoad(f, c) # 0)
              => Derived(f, b) # 0
<1> DEFINE loads == {BlockLoad(f, c) : c \in Bag(f, b)}
           behind == {0, PresStores(f, b)} \cup {BlockLoad(f, a) : a \in Before(f, b)}
           loop == IF Cardinality(Bag(f, b)) > 1 \/ f.is_loop[b] THEN Max(loads) ELSE 0
           read == \E c \in Block : Reaches(f, b, c) /\ BlockLoad(f, c) # 0
           live == IF read THEN Max(behind) ELSE 0
           W == IF WholeAccesses(f) THEN {0, 8} ELSE {0, 4, 8}
<1>1. \A c \in Block : BlockLoad(f, c) \in W
  BY BlockLoadWidth
<1>2. PresStores(f, b) \in W /\ 0 \in W /\ W \subseteq {0, 4, 8}
  BY PresStoresWidth
<1>3. loads \subseteq W /\ loads # {}
  <2>1. b \in Bag(f, b) /\ Bag(f, b) \subseteq Block
    BY ReachReflexive DEF Bag
  <2> QED BY <1>1, <2>1
<1>4. behind \subseteq W /\ 0 \in behind /\ PresStores(f, b) \in behind
  BY <1>1, <1>2 DEF Before
<1>5. Derived(f, b) = Max({ArgsDerived(f, b), loop, live})
  BY DEF Derived
<1> HIDE DEF W, loads, behind, read
<1>6. Max(loads) \in W
  BY <1>2, <1>3, LargestWidth
<1>7. Max(behind) \in W /\ Max(behind) >= PresStores(f, b)
  BY <1>2, <1>4, LargestWidth
<1>8. ArgsDerived(f, b) \in W /\ loop \in W /\ live \in W
  BY <1>2, <1>6, <1>7 DEF ArgsDerived
<1>9. Passed("call") => ArgsDerived(f, b) = PresStores(f, b)
  BY DEF ArgsDerived
<1>10. ASSUME PresStores(f, b) # 0, read PROVE live # 0
  <2>1. PresStores(f, b) \in {4, 8} /\ Max(behind) >= PresStores(f, b)
    BY <1>2, <1>7, <1>10
  <2>2. live = Max(behind)
    BY <1>10
  <2> QED BY <2>1, <2>2
<1> HIDE DEF loop, live
<1> DEFINE three == {ArgsDerived(f, b), loop, live}
<1>11. three \subseteq W /\ three # {}
  BY <1>8
<1> HIDE DEF three
<1>12. Max(three) \in three /\ \A w \in three : Max(three) >= w
  BY <1>2, <1>11, LargestWidth
<1>13. Max(three) \in W /\ \A w \in three : w # 0 => Max(three) # 0
  <2>1. Max(three) \in W
    BY <1>11, <1>12
  <2>2. ASSUME NEW w \in three, w # 0 PROVE Max(three) # 0
    <3>1. w \in {4, 8} /\ Max(three) >= w
      BY <1>2, <1>11, <1>12, <2>2
    <3> QED BY <3>1
  <2> QED BY <2>1, <2>2
<1>14. ArgsDerived(f, b) \in three /\ live \in three
  BY DEF three
<1>15. Derived(f, b) = Max(three)
  BY <1>5 DEF three
<1>16. WholeAccesses(f) => W = {0, 8}
  BY DEF W
<1> QED BY <1>2, <1>9, <1>10, <1>13, <1>14, <1>15, <1>16 DEF read

(***************************************************************************)
(* Behind a store of the register, a block that does not derive it is one  *)
(* behind which it is not read.                                            *)
(***************************************************************************)
LEMMA NotDerivedNotRead ==
  ASSUME NEW f \in Function, LoopsDerive(f),
         NEW a \in Block, NEW s \in Block, NEW b \in f.succ[a], b \in Block,
         BlockStore(f, s) # 0, Reaches(f, s, a), Derived(f, b) = 0
  PROVE  ~ ReadBehind(f, b)
<1>1. Reaches(f, s, b)
  BY ReachStep
<1>2. CASE s \in Bag(f, b)
  <2>1. Reaches(f, b, s)
    BY <1>2 DEF Bag
  <2>2. OnCycle(f, b)
    <3>1. CASE s # b
      BY <1>1, <2>1, <3>1, BagOfTwo DEF OnCycle
    <3>2. CASE s = b /\ a # b
      <4>1. Reaches(f, a, b)
        BY ReachReflexive, ReachStep
      <4> QED BY <3>2, <4>1, BagOfTwo DEF OnCycle
    <3>3. CASE a = b
      BY <3>3 DEF OnCycle
    <3> QED BY <3>1, <3>2, <3>3
  <2> QED BY <1>2, <2>2 DEF LoopsDerive
<1>3. CASE s \notin Bag(f, b)
  <2>1. PresStores(f, b) # 0
    BY <1>1, <1>3, PresStoresWidth DEF Before
  <2>2. ~ Passed("call")
    BY <2>1, DerivedWidth
  <2>3. ~ Passed("svc") /\ ~ Returned("call")
    BY <2>2 DEF Passed, Returned
  <2>4. ASSUME NEW c \in Block, Reaches(f, b, c), Reads(f, c) PROVE FALSE
    <3>1. \E i \in Positions(f, c, "load") : \A j \in Stores(f, c) : i < j
      BY <2>2, <2>3, <2>4 DEF Reads
    <3>2. BlockLoad(f, c) # 0
      BY <3>1, BlockLoadWidth
    <3> QED BY <2>1, <2>4, <3>2, DerivedWidth
  <2> QED BY <2>4 DEF ReadBehind
<1> QED BY <1>2, <1>3
-----------------------------------------------------------------------------
(***************************************************************************)
(* The type of the state, and the values that have to be there.            *)
(***************************************************************************)
USE ValuesAssumption

LEMMA CastIsWord ==
  ASSUME NEW v \in Word, NEW w \in {0, 4, 8}
  PROVE  /\ Cast(v, w) \in Word
         /\ Virtual(w, v) \in Value
         /\ Virtual(w, v).width = w
         /\ w # 4 => Cast(v, w) = v /\ Virtual(w, v).word = v
<1>1. Cast(v, w) \in Word
  BY DEF Cast, Word
<1> QED BY <1>1 DEF Virtual, Value, Cast

LEMMA AbsentIsValue == Absent \in Value /\ Absent.width = 0
BY DEF Absent, Value, Word

LEMMA ValueIsWord == \A v \in Value : v.word \in Word /\ v.width \in {0, 4, 8}
BY DEF Value

LEMMA OfFunction ==
  ASSUME AnalysisInv
  PROVE  fn \in Function /\ WellFormed(fn) /\ \A b \in Block : fn.succ[b] \subseteq Block
<1>1. WellFormed(fn)
  BY FunctionsAssumption DEF AnalysisInv
<1> QED BY <1>1 DEF WellFormed, Function

LEMMA InitIInv == Init => IInv
<1> SUFFICES ASSUME Init PROVE IInv
  OBVIOUS
<1>1. AnalysisInv
  BY DEF Init, AnalysisInv
<1>2. \A b \in Block : PresStores(fn, b) \in {0, 4, 8} /\ Derived(fn, b) \in {0, 4, 8}
  BY <1>1, OfFunction, PresStoresWidth, DerivedWidth
<1>3. TypeOK
  <2>1. Len(fn.code[Entry]) \in Nat
    BY <1>1, OfFunction, PositionsInCode
  <2>2. pres_str_rmp \in [Block -> {0, 4, 8}] /\ drvd_rmp \in [Block -> {0, 4, 8}]
    BY <1>2 DEF Init
  <2>3. reg \in Word /\ state \in Word
    BY DEF Init
  <2>4. seen \in [what : {"nothing", "load", "call", "return"}, lifted : Word, optimised : Word]
    BY <2>3 DEF Init, Shown
  <2> QED BY <1>1, <2>1, <2>2, <2>3, <2>4, OfFunction, AbsentIsValue DEF Init, TypeOK
<1>4. StartInv
  BY DEF Init, StartInv, Shown
<1>5. CachedInv
  BY <1>1, OfFunction, NothingBeforeEntry, PresStoresWidth DEF Init, CachedInv
<1> QED BY <1>1, <1>3, <1>4, <1>5 DEF IInv

(* The operation at next. *)
LEMMA OpAtNext ==
  ASSUME IInv, NEW op, Runs(op)
  PROVE  /\ next \in DOMAIN fn.code[bb]
         /\ op \in {"load", "store", "pair"} => width \in {4, 8}
         /\ WholeAccesses(fn) /\ op \in {"load", "store", "pair"} => width = 8
         /\ Len(fn.code[bb]) \in Nat /\ DOMAIN fn.code[bb] = 1 .. Len(fn.code[bb])
         /\ next' \in 1 .. Len(fn.code[bb]) + 1
<1>1. next \in DOMAIN fn.code[bb] /\ fn.code[bb][next].op = op /\ next' = next + 1
  BY DEF Runs
<1>2. bb \in Block /\ fn \in Function
  BY DEF IInv, TypeOK
<1>3. op \in {"load", "store", "pair"} => width \in {4, 8}
  BY <1>1, <1>2, OpShape DEF width
<1>4. WholeAccesses(fn) => width \in {0, 8}
  BY <1>1, <1>2 DEF WholeAccesses, width
<1>5. Len(fn.code[bb]) \in Nat /\ DOMAIN fn.code[bb] = 1 .. Len(fn.code[bb])
  BY <1>2, PositionsInCode
<1> QED BY <1>1, <1>3, <1>4, <1>5

LEMMA LoadIInv == IInv /\ Load => IInv'
<1> SUFFICES ASSUME IInv, Load PROVE IInv'
  OBVIOUS
<1>1. /\ Runs("load")
      /\ cur' = IF cur = Absent THEN LoadedValue(width) ELSE cur
      /\ fresh' = IF FirstAccess \/ fresh.width <= width THEN LoadedValue(width) ELSE fresh
      /\ early' = fresh'
      /\ seen' = Shown("load", Cast(reg, width), LoadedValue(width).word)
      /\ UNCHANGED <<reg, state>>
  BY DEF Load
<1>2. width \in {4, 8} /\ next' \in 1 .. Len(fn.code[bb]) + 1
  BY <1>1, OpAtNext
<1>3. UNCHANGED <<fn, pres_str_rmp, drvd_rmp, pc, phi_bb_queue, finished, phis, static, updated, bb>>
  BY <1>1 DEF Runs, analysisVars, compileVars
<1>4. LoadedValue(width) \in Value /\ LoadedValue(width).width = width
  BY <1>2, CastIsWord, ValueIsWord DEF LoadedValue, IInv, TypeOK
<1>5. LoadedValue(width) # Absent
  BY <1>2, <1>4, AbsentIsValue
<1>6. cur' \in Value /\ fresh' \in Value /\ early' \in Value /\ cur' # Absent
  BY <1>1, <1>4, <1>5 DEF IInv, TypeOK
<1>7. Cast(reg, width) \in Word /\ LoadedValue(width).word \in Word
  BY <1>2, <1>4, CastIsWord, ValueIsWord DEF IInv, TypeOK
<1>8. seen' \in [what : {"nothing", "load", "call", "return"}, lifted : Word, optimised : Word]
  BY <1>1, <1>7 DEF Shown
<1>9. TypeOK'
  BY <1>1, <1>2, <1>3, <1>6, <1>8 DEF IInv, TypeOK
<1>10. pc' # "compile"
  BY <1>1, <1>3 DEF Runs
<1> QED BY <1>3, <1>6, <1>9, <1>10 DEF IInv, AnalysisInv, StartInv, CachedInv

LEMMA StoreIInv ==
  ASSUME IInv, NEW op \in {"store", "pair"}, Store(op)
  PROVE  IInv'
<1>1. /\ Runs(op)
      /\ fresh' = cur' /\ early' = cur'
      /\ UNCHANGED <<state, seen>>
  BY DEF Store
<1>2. PICK v \in Values : reg' = Cast(v, width) /\ cur' = Virtual(width, v)
  BY DEF Store
<1>3. width \in {4, 8} /\ next' \in 1 .. Len(fn.code[bb]) + 1
  BY <1>1, OpAtNext
<1>4. UNCHANGED <<fn, pres_str_rmp, drvd_rmp, pc, phi_bb_queue, finished, phis, static, updated, bb>>
  BY <1>1 DEF Runs, analysisVars, compileVars
<1>5. reg' \in Word /\ cur' \in Value /\ cur'.width = width
  BY <1>2, <1>3, CastIsWord
<1>6. cur' # Absent
  BY <1>3, <1>5, AbsentIsValue
<1>7. TypeOK'
  BY <1>1, <1>3, <1>4, <1>5 DEF IInv, TypeOK
<1>8. pc' # "compile"
  BY <1>1, <1>4 DEF Runs
<1> QED BY <1>4, <1>6, <1>7, <1>8 DEF IInv, AnalysisInv, StartInv, CachedInv

LEMMA CallIInv ==
  ASSUME IInv, NEW op \in {"call", "svc"}, Call(op)
  PROVE  IInv'
<1>1. /\ Runs(op)
      /\ IF Returned(op)
         THEN \E v \in Values : reg' = v /\ state' = v /\ cur' = Reloaded(v)
         ELSE UNCHANGED <<reg, cur>> /\ state' = StoredFor(op)
      /\ seen' = IF Passed(op) THEN Shown("call", reg, StoredFor(op)) ELSE seen
      /\ early' = IF ReplacesExtracts(next) THEN cur' ELSE early
      /\ UNCHANGED fresh
  BY DEF Call
<1>2. next' \in 1 .. Len(fn.code[bb]) + 1
  BY <1>1, OpAtNext
<1>3. UNCHANGED <<fn, pres_str_rmp, drvd_rmp, pc, phi_bb_queue, finished, phis, static, updated, bb>>
  BY <1>1 DEF Runs, analysisVars, compileVars
<1>4. StoredFor(op) \in Word
  BY ValueIsWord DEF StoredFor, IInv, TypeOK
<1>5. \A v \in Values : Reloaded(v) \in Value /\ (cur # Absent => Reloaded(v) # Absent)
  BY CastIsWord, AbsentIsValue DEF Reloaded
<1>6. reg' \in Word /\ state' \in Word /\ cur' \in Value /\ (cur # Absent => cur' # Absent)
  BY <1>1, <1>4, <1>5 DEF IInv, TypeOK
<1>7. seen' \in [what : {"nothing", "load", "call", "return"}, lifted : Word, optimised : Word]
  BY <1>1, <1>4 DEF IInv, TypeOK, Shown
<1>8. TypeOK'
  BY <1>1, <1>2, <1>3, <1>6, <1>7 DEF IInv, TypeOK
<1>9. pc' # "compile"
  BY <1>1, <1>3 DEF Runs
<1> QED BY <1>3, <1>6, <1>8, <1>9 DEF IInv, AnalysisInv, StartInv, CachedInv

LEMMA JumpIInv ==
  ASSUME IInv, NEW b \in Block, Jump(b)
  PROVE  IInv'
<1>1. /\ bb' = b /\ next' = 1 /\ fresh' = cur' /\ early' = cur'
      /\ cur' = IF drvd_rmp[b] = 0 THEN Absent ELSE Incoming(b)
      /\ UNCHANGED <<fn, pres_str_rmp, drvd_rmp, pc, phi_bb_queue, finished, phis, static, updated,
                     reg, state, seen>>
      /\ pc' # "compile"
  BY DEF Jump, analysisVars, compileVars
<1>2. fn \in Function /\ Len(fn.code[b]) \in Nat
  BY PositionsInCode DEF IInv, TypeOK
<1>3. drvd_rmp[b] \in {0, 4, 8}
  BY DEF IInv, TypeOK
<1>4. Incoming(b) \in Value /\ Incoming(b).width = drvd_rmp[b]
  BY <1>3, CastIsWord, ValueIsWord DEF Incoming, IInv, TypeOK
<1>5. cur' \in Value /\ (drvd_rmp[b] # 0 => cur' # Absent)
  BY <1>1, <1>4, AbsentIsValue
<1>6. TypeOK'
  BY <1>1, <1>2, <1>5 DEF IInv, TypeOK
<1>7. Passed("call") /\ pres_str_rmp[b] # 0 => drvd_rmp[b] # 0
  BY <1>2, DerivedWidth DEF IInv, AnalysisInv
<1> QED BY <1>1, <1>5, <1>6, <1>7 DEF IInv, AnalysisInv, StartInv, CachedInv

LEMMA UpdatesOf ==
  ASSUME NEW b, NEW branches, NEW u \in Updates(b, branches)
  PROVE  u \subseteq branches
BY DEF Updates

LEMMA NextIInv == IInv /\ [Next]_vars => IInv'
<1> SUFFICES ASSUME IInv, [Next]_vars PROVE IInv'
  OBVIOUS
<1>1. ASSUME NEW b \in Block, Optimize(b) PROVE IInv'
  <2>1. /\ phis' = phis \cup NewPhis(b)
        /\ static' = static \cup {e \in Branches : e[2] \in NewPhis(b) /\ e[1] \notin finished}
        /\ \E branches \in Updates(b, {e \in static' : e[1] = b}) :
             updated' = updated \cup branches
        /\ finished' = finished \cup {b}
        /\ phi_bb_queue' = (phi_bb_queue \cup fn.succ[b]) \ finished'
        /\ UNCHANGED <<fn, pres_str_rmp, drvd_rmp, pc, bb, next, reg, state, cur, fresh, early, seen>>
    BY <1>1 DEF Optimize, analysisVars, runVars
  <2>2. /\ NewPhis(b) \subseteq Block /\ Branches \subseteq Block \X Block
        /\ updated' \subseteq static'
    BY <2>1, UpdatesOf DEF NewPhis, Branches, IInv, TypeOK
  <2>3. fn.succ[b] \subseteq Block
    BY OfFunction DEF IInv
  <2>4. TypeOK'
    BY <2>1, <2>2, <2>3 DEF IInv, TypeOK
  <2> QED BY <2>1, <2>4 DEF IInv, AnalysisInv, StartInv, CachedInv
<1>2. CASE Compiled
  <2>1. /\ UNCHANGED <<fn, pres_str_rmp, drvd_rmp, phi_bb_queue, finished, phis, static, updated,
                       bb, next, reg, state, cur, fresh, early, seen>>
        /\ pc' = "run"
    BY <1>2 DEF Compiled, analysisVars, compileVars, runVars
  <2> QED BY <2>1 DEF IInv, TypeOK, AnalysisInv, StartInv, CachedInv
<1>3. CASE Return
  <2>1. /\ UNCHANGED <<fn, pres_str_rmp, drvd_rmp, phi_bb_queue, finished, phis, static, updated,
                       bb, next, reg, cur, fresh, early>>
        /\ pc' = "returned" /\ state' = StoredForReturn
        /\ seen' = IF Returned("call") THEN Shown("return", reg, state') ELSE seen
    BY <1>3 DEF Return, analysisVars, compileVars
  <2>2. state' \in Word
    BY <2>1, ValueIsWord DEF StoredForReturn, IInv, TypeOK
  <2>3. seen' \in [what : {"nothing", "load", "call", "return"}, lifted : Word, optimised : Word]
    BY <2>1, <2>2 DEF IInv, TypeOK, Shown
  <2>4. TypeOK'
    BY <2>1, <2>2, <2>3 DEF IInv, TypeOK
  <2> QED BY <2>1, <2>4 DEF IInv, AnalysisInv, StartInv, CachedInv
<1>4. CASE Done \/ UNCHANGED vars
  <2>1. UNCHANGED vars
    BY <1>4 DEF Done
  <2> QED BY <2>1 DEF vars, analysisVars, compileVars, runVars, IInv, TypeOK, AnalysisInv,
                      StartInv, CachedInv
<1> QED BY <1>1, <1>2, <1>3, <1>4, LoadIInv, StoreIInv, CallIInv, JumpIInv DEF Next

(* The inductive invariant of every function holds.                        *)
THEOREM Inductive == Spec => []IInv
BY InitIInv, NextIInv, PTL DEF Spec

(* The optimiser and the function it makes keep their type, for every      *)
(* function, whatever it does with the register.                           *)
THEOREM TypeCorrect == Spec => []TypeOK
<1>1. IInv => TypeOK
  BY DEF IInv
<1> QED BY <1>1, Inductive, PTL

(* cache_map.at never throws, for every function: an argument register     *)
(* that blocks before a block store has a virtual value in it.             *)
THEOREM CachedTheorem == Spec => []ArgumentsAreCached
<1>1. IInv => ArgumentsAreCached
  BY DEF IInv, CachedInv, ArgumentsAreCached
<1> QED BY <1>1, Inductive, PTL
-----------------------------------------------------------------------------
(***************************************************************************)
(* Supported functions.                                                    *)
(***************************************************************************)
LEMMA InitSInv == Init => SInv
BY DEF Init, SInv, Sound

LEMMA StaleFixed ==
  ASSUME UNCHANGED <<fn, drvd_rmp, static, updated>>
  PROVE  StaleBranches' = StaleBranches
BY DEF StaleBranches, Branches, Replaces, LeavesExtract

(* The branches that are left behind are known when the function runs.     *)
LEMMA RunIsSound ==
  ASSUME Sound', UNCHANGED <<fn, drvd_rmp, static, updated>>, pc # "compile"
  PROVE  Sound
BY StaleFixed DEF Sound

(* A block that uses what the register holds when it is entered has it at  *)
(* hand.                                                                   *)
LEMMA KeptWhereRead ==
  ASSUME IInv, SInv, Sound, pc = "run", Reads(fn, bb) \/ StoredInBlock
  PROVE  reg = IF cur = Absent THEN state ELSE cur.word
<1>1. Reads(fn, bb) => ReadBehind(fn, bb)
  BY ReachReflexive DEF ReadBehind, IInv, TypeOK
<1> QED BY <1>1 DEF SInv, RegisterIsKept

LEMMA ReadsAtNext ==
  ASSUME IInv, NEW op, Runs(op), op = "load" \/ (op \in {"call", "svc"} /\ Passed(op))
  PROVE  Reads(fn, bb) \/ StoredInBlock
<1>1. /\ next \in DOMAIN fn.code[bb] /\ fn.code[bb][next].op = op
      /\ DOMAIN fn.code[bb] = 1 .. Len(fn.code[bb])
  BY OpAtNext DEF Runs
<1>2. next \in Positions(fn, bb, op)
  BY <1>1 DEF Positions
<1>3. ASSUME ~ StoredInBlock
      PROVE  \A j \in Stores(fn, bb) : next < j
  <2> SUFFICES ASSUME NEW j \in Stores(fn, bb) PROVE next < j
    OBVIOUS
  <2>1. j \in DOMAIN fn.code[bb] /\ fn.code[bb][j].op \in {"store", "pair"} /\ ~ j < next
    BY <1>3 DEF Positions, Stores, StoredInBlock
  <2>2. j # next
    BY <1>1, <2>1
  <2> QED BY <1>1, <2>1, <2>2
<1> QED BY <1>2, <1>3 DEF Reads

(* An access gives the register one value: its virtual value is the one    *)
(* that r_fresh_inst_mp names, and the one the phi nodes took early.       *)
LEMMA AccessMakesFresh ==
  ASSUME IInv, NEW op \in {"load", "store", "pair"}, Runs(op), fresh' = cur', early' = cur'
  PROVE  FreshInv' /\ AbsentInv'
<1>1. /\ next' = next + 1 /\ UNCHANGED <<fn, bb>>
      /\ next \in DOMAIN fn.code[bb] /\ fn.code[bb][next].op = op
      /\ DOMAIN fn.code[bb] = 1 .. Len(fn.code[bb]) /\ Len(fn.code[bb]) \in Nat
  BY OpAtNext DEF Runs, analysisVars
<1>2. next < next' /\ fn.code[bb][next].op \in {"load", "store", "pair"}
  BY <1>1
<1>3. ~ NotAccessed'
  BY <1>1, <1>2 DEF NotAccessed, AccessAt
<1> QED BY <1>3 DEF FreshInv, AbsentInv

LEMMA LoadSInv == IInv /\ SInv /\ Load => SInv'
<1> SUFFICES ASSUME IInv, SInv, Load, Sound' PROVE SInv'
  BY DEF SInv
<1>1. /\ Runs("load")
      /\ cur' = IF cur = Absent THEN LoadedValue(width) ELSE cur
      /\ fresh' = IF FirstAccess \/ fresh.width <= width THEN LoadedValue(width) ELSE fresh
      /\ early' = fresh'
      /\ seen' = Shown("load", Cast(reg, width), LoadedValue(width).word)
      /\ UNCHANGED <<reg, state>>
      /\ UNCHANGED <<fn, drvd_rmp, static, updated, pc, bb>>
      /\ pc = "run" /\ next' = next + 1
      /\ fn.code[bb][next].op = "load"
  BY DEF Load, Runs, analysisVars, compileVars
<1>2. Sound /\ Supported(fn)
  BY <1>1, RunIsSound DEF Sound
<1>3. width = 8
  BY <1>1, <1>2, OpAtNext DEF Supported
<1>4. reg = IF cur = Absent THEN state ELSE cur.word
  BY <1>1, <1>2, ReadsAtNext, KeptWhereRead
<1>5. /\ reg \in Word /\ state \in Word /\ cur \in Value /\ cur.word \in Word
      /\ fresh.width \in {0, 4, 8}
  BY ValueIsWord DEF IInv, TypeOK
<1>6. LoadedValue(8) = Virtual(8, reg) /\ Virtual(8, reg).word = reg /\ Cast(reg, 8) = reg
      /\ Virtual(8, reg).width = 8
  BY <1>4, <1>5, CastIsWord DEF LoadedValue
<1>7. cur # Absent => cur = Virtual(8, reg)
  <2> SUFFICES ASSUME cur # Absent PROVE cur = Virtual(8, reg)
    OBVIOUS
  <2>1. cur.width = 8 /\ cur.word = reg
    BY <1>2, <1>4 DEF SInv, WholeInv
  <2> QED BY <1>5, <1>6, <2>1 DEF Value, Virtual
<1>8. cur' = Virtual(8, reg) /\ fresh' = Virtual(8, reg) /\ early' = Virtual(8, reg)
  BY <1>1, <1>3, <1>5, <1>6, <1>7
<1>9. cur' # Absent
  BY <1>6, <1>8, AbsentIsValue
<1>10. seen'.what = "load" /\ seen'.lifted = seen'.optimised
  BY <1>1, <1>3, <1>6 DEF Shown
<1>11. DirtyInv'
  BY <1>1, <1>2 DEF SInv, DirtyInv, StoredBehind
<1>12. RegisterIsKept'
  BY <1>1, <1>6, <1>8, <1>9 DEF RegisterIsKept
<1>13. WholeInv' /\ FreshInv' /\ AbsentInv'
  BY <1>1, <1>6, <1>8, AccessMakesFresh DEF WholeInv
<1> QED BY <1>10, <1>11, <1>12, <1>13 DEF SInv, LoadsAgree, ArgumentsAgree, ResultsAgree

LEMMA StoreSInv ==
  ASSUME IInv, SInv, NEW op \in {"store", "pair"}, Store(op)
  PROVE  SInv'
<1> SUFFICES ASSUME Sound' PROVE SInv'
  BY DEF SInv
<1>1. /\ Runs(op)
      /\ fresh' = cur' /\ early' = cur'
      /\ UNCHANGED <<state, seen>>
      /\ UNCHANGED <<fn, drvd_rmp, static, updated, pc, bb>>
      /\ pc = "run"
      /\ fn.code[bb][next].op = op
  BY DEF Store, Runs, analysisVars, compileVars
<1>2. Sound /\ Supported(fn) /\ fn \in Function /\ bb \in Block
  BY <1>1, RunIsSound DEF Sound, IInv, TypeOK
<1>3. PICK v \in Values : reg' = Cast(v, width) /\ cur' = Virtual(width, v)
  BY DEF Store
<1>4. width = 8 /\ next \in DOMAIN fn.code[bb]
  BY <1>1, <1>2, OpAtNext DEF Supported
<1>5. reg' = v /\ cur'.word = v /\ cur'.width = 8
  BY <1>3, <1>4, CastIsWord
<1>6. cur' # Absent
  BY <1>5, AbsentIsValue
<1>7. BlockStore(fn, bb) # 0
  <2>1. next \in Stores(fn, bb)
    BY <1>1, <1>4 DEF Stores, Positions
  <2> QED BY <1>2, <2>1, BlockStoreWidth
<1>8. DirtyInv'
  BY <1>1, <1>2, <1>7, ReachReflexive DEF DirtyInv, StoredBehind
<1>9. RegisterIsKept' /\ WholeInv'
  BY <1>1, <1>5, <1>6 DEF RegisterIsKept, WholeInv
<1>10. FreshInv' /\ AbsentInv'
  BY <1>1, AccessMakesFresh
<1> QED BY <1>1, <1>2, <1>8, <1>9, <1>10 DEF SInv, LoadsAgree, ArgumentsAgree, ResultsAgree

(* Behind a call that returns the register it is loaded again, behind any  *)
(* other one nothing has changed.                                          *)
LEMMA CallKeepsFresh ==
  ASSUME IInv, NEW op \in {"call", "svc"}, Call(op), FreshInv, AbsentInv
  PROVE  FreshInv' /\ AbsentInv'
<1>1. /\ IF Returned(op)
         THEN \E v \in Values : reg' = v /\ state' = v /\ cur' = Reloaded(v)
         ELSE UNCHANGED <<reg, cur>> /\ state' = StoredFor(op)
      /\ early' = IF ReplacesExtracts(next) THEN cur' ELSE early
      /\ UNCHANGED <<fresh, fn, drvd_rmp, bb>>
      /\ next' = next + 1
      /\ next \in DOMAIN fn.code[bb] /\ fn.code[bb][next].op = op
      /\ DOMAIN fn.code[bb] = 1 .. Len(fn.code[bb]) /\ Len(fn.code[bb]) \in Nat
  BY OpAtNext DEF Call, Runs, analysisVars
<1>2. \A i \in DOMAIN fn.code[bb] : i \in Nat /\ (i < next' <=> i < next \/ i = next)
  BY <1>1
<1>3. ~ AccessAt(next)
  BY <1>1 DEF AccessAt
<1>4. ~ Returned(op) => ~ ReplacesExtracts(next)
  <2> SUFFICES ASSUME ~ Returned(op) PROVE next \notin Reloads(fn, bb)
    BY DEF ReplacesExtracts
  <2> QED BY <1>1 DEF Reloads
<1>5. FreshInv'
  <2> SUFFICES ASSUME NotReloaded' PROVE fresh' = cur' /\ early' = cur'
    BY DEF FreshInv
  <2>1. ~ Returned(op)
    <3> SUFFICES ASSUME Returned(op) PROVE FALSE
      OBVIOUS
    <3>1. next < next' /\ ReloadAt(next)
      BY <1>1 DEF ReloadAt
    <3>2. PICK j \in DOMAIN fn.code[bb] : next < j /\ j < next'
      BY <1>1, <3>1 DEF NotReloaded, ReloadAt
    <3> QED BY <1>1, <1>2, <3>2
  <2>2. NotReloaded
    <3> SUFFICES ASSUME NEW i \in DOMAIN fn.code[bb], i < next, ReloadAt(i)
                 PROVE  \E j \in DOMAIN fn.code[bb] : i < j /\ j < next /\ AccessAt(j)
      BY DEF NotReloaded
    <3>1. i < next' /\ ReloadAt(i)'
      BY <1>1, <1>2 DEF ReloadAt
    <3>2. PICK j \in DOMAIN fn.code[bb] : i < j /\ j < next' /\ AccessAt(j)
      BY <1>1, <3>1 DEF NotReloaded, AccessAt
    <3> QED BY <1>2, <1>3, <3>2
  <2> QED BY <1>1, <1>4, <2>1, <2>2 DEF FreshInv
<1>6. AbsentInv'
  <2> SUFFICES ASSUME drvd_rmp[bb] = 0, NotAccessed'
               PROVE  cur' = Absent /\ fresh' = Absent /\ early' = Absent
    BY <1>1 DEF AbsentInv
  <2>1. NotAccessed
    BY <1>1, <1>2 DEF NotAccessed, AccessAt
  <2>2. cur = Absent /\ fresh = Absent /\ early = Absent
    BY <2>1 DEF AbsentInv
  <2>3. cur' = Absent
    BY <1>1, <2>2 DEF Reloaded
  <2> QED BY <1>1, <2>2, <2>3
<1> QED BY <1>5, <1>6

LEMMA CallSInv ==
  ASSUME IInv, SInv, NEW op \in {"call", "svc"}, Call(op)
  PROVE  SInv'
<1> SUFFICES ASSUME Sound' PROVE SInv'
  BY DEF SInv
<1>1. /\ Runs(op)
      /\ IF Returned(op)
         THEN \E v \in Values : reg' = v /\ state' = v /\ cur' = Reloaded(v)
         ELSE UNCHANGED <<reg, cur>> /\ state' = StoredFor(op)
      /\ seen' = IF Passed(op) THEN Shown("call", reg, StoredFor(op)) ELSE seen
      /\ early' = IF ReplacesExtracts(next) THEN cur' ELSE early
      /\ UNCHANGED <<fn, drvd_rmp, static, updated, pc, bb>>
      /\ pc = "run" /\ next' = next + 1
      /\ fn.code[bb][next].op = op
  BY DEF Call, Runs, analysisVars, compileVars
<1>2. Sound
  BY <1>1, RunIsSound
<1>3. next \in DOMAIN fn.code[bb] /\ next \in Nat
  BY <1>1, OpAtNext
<1>4. Passed(op) => reg = IF cur = Absent THEN state ELSE cur.word
  BY <1>1, <1>2, ReadsAtNext, KeptWhereRead
<1>5. Passed(op) => StoredFor(op) = reg
  BY <1>4 DEF StoredFor
<1>6. LoadsAgree' /\ ArgumentsAgree' /\ ResultsAgree'
  BY <1>1, <1>2, <1>5 DEF SInv, LoadsAgree, ArgumentsAgree, ResultsAgree, Shown
<1>7. FreshInv' /\ AbsentInv'
  BY <1>2, CallKeepsFresh DEF SInv
<1>8. CASE Returned(op)
  <2>1. PICK v \in Values : reg' = v /\ state' = v /\ cur' = Reloaded(v)
    BY <1>1, <1>8
  <2>2. Virtual(8, v).width = 8 /\ Virtual(8, v).word = v
    BY CastIsWord
  <2>3. cur' = Absent \/ (cur'.width = 8 /\ cur'.word = v)
    BY <2>1, <2>2 DEF Reloaded
  <2>4. WholeInv' /\ RegisterIsKept' /\ DirtyInv'
    BY <2>1, <2>3 DEF WholeInv, RegisterIsKept, DirtyInv
  <2> QED BY <1>6, <1>7, <2>4 DEF SInv
<1>9. CASE ~ Returned(op)
  <2>1. UNCHANGED <<reg, cur>> /\ state' = StoredFor(op)
    BY <1>1, <1>9
  <2>2. WholeInv'
    BY <1>2, <2>1 DEF SInv, WholeInv
  <2>3. DirtyInv'
    <3>1. CASE Passed(op)
      BY <1>5, <2>1, <3>1 DEF DirtyInv
    <3>2. CASE ~ Passed(op)
      BY <1>1, <1>2, <2>1, <3>2 DEF StoredFor, SInv, DirtyInv, StoredBehind
    <3> QED BY <3>1, <3>2
  <2>4. RegisterIsKept'
    <3>1. CASE reg = IF cur = Absent THEN state ELSE cur.word
      BY <2>1, <3>1 DEF RegisterIsKept, StoredFor
    <3>2. CASE ~ ReadBehind(fn, bb) /\ ~ StoredInBlock
      <4>1. ~ StoredInBlock'
        <5> SUFFICES ASSUME NEW i \in Stores(fn, bb), i < next'
                     PROVE  FALSE
          BY <1>1 DEF StoredInBlock
        <5>1. i \in DOMAIN fn.code[bb] /\ fn.code[bb][i].op \in {"store", "pair"}
          BY DEF Positions, Stores
        <5>2. i # next
          BY <1>1, <5>1
        <5>3. i \in Nat
          BY <5>1, PositionsInCode DEF IInv, TypeOK
        <5>4. i < next
          BY <1>1, <1>3, <5>2, <5>3
        <5> QED BY <3>2, <5>4 DEF StoredInBlock
      <4> QED BY <1>1, <3>2, <4>1 DEF RegisterIsKept
    <3> QED BY <1>1, <1>2, <3>1, <3>2 DEF SInv, RegisterIsKept
  <2> QED BY <1>6, <1>7, <2>2, <2>3, <2>4 DEF SInv
<1> QED BY <1>8, <1>9

(* The last access of a block, and the calls behind it.                    *)
LEMMA LastAccessIsLast ==
  ASSUME NEW f \in Function, NEW b \in Block
  PROVE  LET S == Positions(f, b, "load") \cup Stores(f, b)
         IN  /\ LastAccess(f, b) \in {0} \cup S
             /\ \A i \in S : LastAccess(f, b) >= i
             /\ S \subseteq 1 .. Len(f.code[b])
<1> DEFINE S == Positions(f, b, "load") \cup Stores(f, b)
           n == Len(f.code[b])
<1>1. n \in Nat /\ S \subseteq 1 .. n
  BY PositionsInCode
<1>2. LastAccess(f, b) = Max({0} \cup S)
  BY DEF LastAccess
<1> HIDE DEF S, n
<1>3. CASE S = {}
  <2>1. \A m : m \in {0} \cup S <=> m = 0
    BY <1>3
  <2>2. Max({0} \cup S) = 0
    BY <2>1 DEF Max
  <2> QED BY <1>1, <1>2, <1>3, <2>2 DEF S, n
<1>4. CASE S # {}
  <2> DEFINE M == Max(S)
  <2>1. M \in S /\ \A i \in S : M >= i
    BY <1>1, <1>4, FirstAndLast
  <2> HIDE DEF M
  <2>2. M \in Nat /\ \A i \in S : i \in Nat
    BY <1>1, <2>1
  <2>3. \A m \in {0} \cup S : (\A i \in {0} \cup S : m >= i) => m = M
    BY <2>1, <2>2
  <2>4. \A i \in {0} \cup S : M >= i
    BY <2>1, <2>2
  <2>5. Max({0} \cup S) = M
    BY <2>1, <2>3, <2>4 DEF Max
  <2> QED BY <1>1, <1>2, <2>1, <2>5 DEF S, n
<1> QED BY <1>3, <1>4

(* At the end of a block with no reload behind its last access the values  *)
(* are one, and so they are where there is none at all.                    *)
LEMMA FreshAtEnd ==
  ASSUME IInv, FreshInv, AbsentInv, next \notin DOMAIN fn.code[bb], ~ Replaces(bb)
  PROVE  fresh = cur /\ early = cur
<1> DEFINE S == Positions(fn, bb, "load") \cup Stores(fn, bb)
           n == Len(fn.code[bb])
<1>1. /\ n \in Nat /\ DOMAIN fn.code[bb] = 1 .. n
      /\ next = n + 1
  <2>1. fn \in Function /\ bb \in Block /\ next \in 1 .. n + 1
    BY DEF IInv, TypeOK
  <2>2. n \in Nat /\ DOMAIN fn.code[bb] = 1 .. n
    BY <2>1, PositionsInCode
  <2> HIDE DEF n
  <2> QED BY <2>1, <2>2
<1>2. /\ LastAccess(fn, bb) \in {0} \cup S
      /\ \A i \in S : LastAccess(fn, bb) >= i
      /\ S \subseteq 1 .. n
  BY LastAccessIsLast DEF IInv, TypeOK
<1>3. \A i \in DOMAIN fn.code[bb] : AccessAt(i) <=> i \in S
  BY DEF AccessAt, Stores, Positions
<1>4. \A i \in DOMAIN fn.code[bb] :
        ReloadAt(i) /\ i > LastAccess(fn, bb) => i \in Reloads(fn, bb)
  BY DEF ReloadAt, Reloads, Positions
<1> HIDE DEF S, n
<1>5. CASE Reloads(fn, bb) = {}
  <2> SUFFICES ASSUME NEW i \in DOMAIN fn.code[bb], i < next, ReloadAt(i)
               PROVE  \E j \in DOMAIN fn.code[bb] : i < j /\ j < next /\ AccessAt(j)
    BY DEF FreshInv, NotReloaded
  <2>1. ~ i > LastAccess(fn, bb)
    BY <1>4, <1>5
  <2>2. ~ AccessAt(i)
    BY DEF AccessAt, ReloadAt
  <2> DEFINE L == LastAccess(fn, bb)
  <2>3. L \in {0} \cup S /\ S \subseteq 1 .. n /\ i \in 1 .. n /\ i \notin S
    BY <1>1, <1>2, <1>3, <2>2
  <2>4. ~ i > L
    BY <2>1
  <2> HIDE DEF L
  <2>5. i < L /\ L \in S /\ L < next /\ L \in DOMAIN fn.code[bb]
    BY <1>1, <2>3, <2>4
  <2> QED BY <1>3, <2>5
<1>6. CASE LastAccess(fn, bb) = 0 /\ drvd_rmp[bb] = 0
  <2>1. NotAccessed
    BY <1>1, <1>2, <1>3, <1>6 DEF NotAccessed
  <2> QED BY <1>6, <2>1 DEF AbsentInv
<1> QED BY <1>5, <1>6 DEF Replaces

(* What a branch that is not left behind passes on is the virtual value of *)
(* the block it comes from.                                                *)
LEMMA BranchIsCurrent ==
  ASSUME IInv, FreshInv, AbsentInv, next \notin DOMAIN fn.code[bb],
         NEW b \in Block, b \in fn.succ[bb], drvd_rmp[b] # 0, <<bb, b>> \notin StaleBranches
  PROVE  (IF <<bb, b>> \in updated THEN cur
          ELSE IF <<bb, b>> \in static THEN early
          ELSE IF LeavesExtract(bb) THEN fresh ELSE cur) = cur
<1>1. ~ Replaces(bb) => fresh = cur /\ early = cur
  BY FreshAtEnd
<1>2. <<bb, b>> \in Branches /\ <<bb, b>>[1] = bb /\ <<bb, b>>[2] = b
  BY DEF Branches, IInv, TypeOK
<1>3. CASE Replaces(bb)
  <2>1. IF <<bb, b>> \in static THEN <<bb, b>> \in updated ELSE ~ LeavesExtract(bb)
    BY <1>2, <1>3 DEF StaleBranches
  <2> QED BY <2>1 DEF IInv, TypeOK
<1> QED BY <1>1, <1>3

LEMMA JumpSInv ==
  ASSUME IInv, SInv, NEW b \in Block, Jump(b)
  PROVE  SInv'
<1> SUFFICES ASSUME Sound' PROVE SInv'
  BY DEF SInv
<1>1. /\ bb' = b /\ next' = 1 /\ fresh' = cur' /\ early' = cur'
      /\ cur' = IF drvd_rmp[b] = 0 THEN Absent ELSE Incoming(b)
      /\ UNCHANGED <<fn, drvd_rmp, static, updated, pc, reg, state, seen>>
      /\ pc = "run" /\ b \in fn.succ[bb]
      /\ next \notin DOMAIN fn.code[bb]
  BY DEF Jump, analysisVars, compileVars
<1>2. Sound /\ Supported(fn) /\ fn \in Function /\ bb \in Block
  BY <1>1, RunIsSound DEF Sound, IInv, TypeOK
<1>3. drvd_rmp[b] = Derived(fn, b) /\ Derived(fn, b) \in {0, 8}
  BY <1>2, DerivedWidth DEF IInv, AnalysisInv, Supported
<1>4. LoadsAgree' /\ ArgumentsAgree' /\ ResultsAgree'
  BY <1>1, <1>2 DEF SInv, LoadsAgree, ArgumentsAgree, ResultsAgree
<1>5. DirtyInv'
  <2> SUFFICES ASSUME reg # state PROVE StoredBehind(b)
    BY <1>1 DEF DirtyInv, StoredBehind
  <2>1. PICK s \in Block : BlockStore(fn, s) # 0 /\ Reaches(fn, s, bb)
    BY <1>1, <1>2 DEF SInv, DirtyInv, StoredBehind
  <2> QED BY <1>1, <2>1, ReachStep DEF StoredBehind
<1>6. FreshInv' /\ (drvd_rmp[b] = 0 => AbsentInv')
  BY <1>1 DEF FreshInv, AbsentInv
<1>7. ~ StoredInBlock'
  <2>1. \A i \in Stores(fn, b) : ~ i < 1
    BY <1>2, PositionsInCode
  <2> QED BY <1>1, <2>1 DEF StoredInBlock
<1>8. CASE Derived(fn, b) = 0
  <2>1. cur' = Absent
    BY <1>1, <1>3, <1>8
  <2>2. reg # state => ~ ReadBehind(fn, b)
    <3> SUFFICES ASSUME reg # state PROVE ~ ReadBehind(fn, b)
      OBVIOUS
    <3>1. PICK s \in Block : BlockStore(fn, s) # 0 /\ Reaches(fn, s, bb)
      BY <1>1, <1>2 DEF SInv, DirtyInv, StoredBehind
    <3> QED BY <1>1, <1>2, <1>8, <3>1, NotDerivedNotRead DEF Supported
  <2>3. RegisterIsKept'
    BY <1>1, <1>7, <2>1, <2>2 DEF RegisterIsKept
  <2> QED BY <1>3, <1>4, <1>5, <1>6, <1>8, <2>1, <2>3 DEF SInv, WholeInv
<1>9. CASE Derived(fn, b) = 8
  <2> DEFINE from == IF <<bb, b>> \in updated THEN cur
                     ELSE IF <<bb, b>> \in static THEN early
                     ELSE IF LeavesExtract(bb) THEN fresh ELSE cur
  <2>1. <<bb, b>> \notin StaleBranches
    BY <1>2 DEF Sound
  <2>2. from = cur
    BY <1>1, <1>2, <1>3, <1>9, <2>1, BranchIsCurrent DEF SInv
  <2>3. cur' = IF cur = Absent THEN Virtual(8, state) ELSE Virtual(8, cur.word)
    <3>1. cur' = Incoming(b) /\ drvd_rmp[b] = 8
      BY <1>1, <1>3, <1>9
    <3>2. Incoming(b) = IF from = Absent THEN Virtual(8, state) ELSE Virtual(8, from.word)
      BY <3>1 DEF Incoming
    <3> QED BY <2>2, <3>1, <3>2
  <2>4. state \in Word /\ cur.word \in Word
    BY ValueIsWord DEF IInv, TypeOK
  <2>5. cur'.width = 8 /\ cur'.word = IF cur = Absent THEN state ELSE cur.word
    BY <2>3, <2>4, CastIsWord
  <2>6. cur' # Absent
    BY <2>5, AbsentIsValue
  <2>7. RegisterIsKept'
    <3>1. CASE reg = IF cur = Absent THEN state ELSE cur.word
      BY <1>1, <2>5, <2>6, <3>1 DEF RegisterIsKept
    <3>2. CASE ~ ReadBehind(fn, bb)
      <4>1. Reaches(fn, bb, b)
        BY <1>1, ReachReflexive, ReachStep
      <4>2. ~ ReadBehind(fn, b)
        BY <3>2, <4>1, ReachTransitive DEF ReadBehind
      <4> QED BY <1>1, <1>7, <4>2 DEF RegisterIsKept
    <3> QED BY <1>1, <1>2, <3>1, <3>2 DEF SInv, RegisterIsKept
  <2>8. AbsentInv'
    BY <1>1, <1>3, <1>9 DEF AbsentInv
  <2> QED BY <1>4, <1>5, <1>6, <2>5, <2>7, <2>8 DEF SInv, WholeInv
<1> QED BY <1>3, <1>8, <1>9

LEMMA ReturnSInv == IInv /\ SInv /\ Return => SInv'
<1> SUFFICES ASSUME IInv, SInv, Return, Sound' PROVE SInv'
  BY DEF SInv
<1>1. /\ UNCHANGED <<fn, drvd_rmp, static, updated, bb, next, reg, cur, fresh, early>>
      /\ pc = "run" /\ pc' = "returned"
      /\ next \notin DOMAIN fn.code[bb] /\ fn.succ[bb] = {}
      /\ state' = StoredForReturn
      /\ seen' = IF Returned("call") THEN Shown("return", reg, state') ELSE seen
  BY DEF Return, analysisVars, compileVars
<1>2. Sound /\ fn \in Function /\ bb \in Block
  BY <1>1, RunIsSound DEF IInv, TypeOK
<1>3. ASSUME Returned("call") PROVE state' = reg
  <2>1. Reads(fn, bb) \/ StoredInBlock
    <3> SUFFICES ASSUME NEW i \in Stores(fn, bb) PROVE i < next
      BY <1>1, <1>3 DEF Reads, StoredInBlock
    <3>1. /\ Len(fn.code[bb]) \in Nat /\ DOMAIN fn.code[bb] = 1 .. Len(fn.code[bb])
          /\ i \in 1 .. Len(fn.code[bb])
      BY <1>2, PositionsInCode
    <3>2. next \in 1 .. Len(fn.code[bb]) + 1
      BY DEF IInv, TypeOK
    <3> QED BY <1>1, <3>1, <3>2
  <2>2. reg = IF cur = Absent THEN state ELSE cur.word
    BY <1>1, <1>2, <2>1, KeptWhereRead
  <2> QED BY <1>1, <1>3, <2>2 DEF StoredForReturn
<1>4. LoadsAgree' /\ ArgumentsAgree' /\ ResultsAgree'
  BY <1>1, <1>2, <1>3 DEF SInv, LoadsAgree, ArgumentsAgree, ResultsAgree, Shown
<1>5. DirtyInv' /\ RegisterIsKept'
  BY <1>1 DEF DirtyInv, RegisterIsKept
<1>6. WholeInv' /\ FreshInv' /\ AbsentInv'
  BY <1>1, <1>2 DEF SInv, WholeInv, FreshInv, NotReloaded, ReloadAt, AccessAt,
                    AbsentInv, NotAccessed
<1> QED BY <1>4, <1>5, <1>6 DEF SInv

LEMMA NextSInv == IInv /\ SInv /\ [Next]_vars => SInv'
<1> SUFFICES ASSUME IInv, SInv, [Next]_vars PROVE SInv'
  OBVIOUS
<1>1. ASSUME NEW b \in Block, Optimize(b) PROVE SInv'
  BY <1>1 DEF Optimize, analysisVars, SInv, Sound
<1>2. CASE Compiled
  <2>1. /\ UNCHANGED <<fn, bb, next, reg, state, cur, fresh, early, seen>>
        /\ pc = "compile"
    BY <1>2 DEF Compiled, analysisVars, compileVars, runVars
  <2>2. /\ reg = state /\ cur = Absent /\ fresh = Absent /\ early = Absent
        /\ seen.what = "nothing"
    BY <2>1 DEF IInv, StartInv
  <2> QED BY <2>1, <2>2 DEF SInv, WholeInv, FreshInv, AbsentInv, DirtyInv,
                      RegisterIsKept, LoadsAgree, ArgumentsAgree, ResultsAgree
<1>3. CASE Done \/ UNCHANGED vars
  <2>1. UNCHANGED vars
    BY <1>3 DEF Done
  <2>2. UNCHANGED <<fn, drvd_rmp, static, updated, pc, bb, next, reg, state, cur, fresh,
                    early, seen>>
    BY <2>1 DEF vars, analysisVars, compileVars, runVars
  <2>3. Sound' = Sound
    BY <2>2, StaleFixed DEF Sound
  <2> QED BY <2>2, <2>3 DEF SInv, WholeInv, FreshInv, NotReloaded, ReloadAt, AccessAt,
                      AbsentInv, NotAccessed, DirtyInv, StoredBehind, RegisterIsKept,
                      StoredInBlock, LoadsAgree, ArgumentsAgree, ResultsAgree
<1> QED BY <1>1, <1>2, <1>3, LoadSInv, StoreSInv, CallSInv, JumpSInv, ReturnSInv DEF Next

(* And that of the functions the optimiser supports.                       *)
THEOREM SupportedInductive == Spec => [](IInv /\ SInv)
<1>1. IInv /\ SInv /\ [Next]_vars => (IInv /\ SInv)'
  BY NextIInv, NextSInv
<1> QED BY <1>1, InitIInv, InitSInv, PTL DEF Spec

LEMMA SoundShown ==
  ASSUME IInv, SInv, Supported(fn)
  PROVE  SoundLoads /\ SoundArguments /\ SoundResults /\ SoundRegister
<1>1. CASE pc = "compile"
  BY <1>1 DEF IInv, StartInv, SoundLoads, SoundArguments, SoundResults, SoundRegister,
              LoadsAgree, ArgumentsAgree, ResultsAgree, RegisterIsKept
<1>2. CASE pc # "compile" /\ StaleBranches = {}
  BY <1>2 DEF SInv, Sound, SoundLoads, SoundArguments, SoundResults, SoundRegister
<1> QED BY <1>1, <1>2 DEF SoundLoads, SoundArguments, SoundResults, SoundRegister

(* In a supported function the register is in its virtual value, in the    *)
(* State, or nowhere because nothing will look for it, unless a call left  *)
(* a phi node behind.                                                      *)
THEOREM KeptTheorem == Spec => [](Supported(fn) => SoundRegister)
<1>1. IInv /\ SInv => (Supported(fn) => SoundRegister)
  BY SoundShown
<1> QED BY <1>1, SupportedInductive, PTL

(* Every load of a supported function that was optimised yields what it    *)
(* yielded in the lifted one, unless a call left a phi node behind.        *)
THEOREM LoadsTheorem == Spec => [](Supported(fn) => SoundLoads)
<1>1. IInv /\ SInv => (Supported(fn) => SoundLoads)
  BY SoundShown
<1> QED BY <1>1, SupportedInductive, PTL

(* Every callee of a supported function finds in the State the arguments   *)
(* that it found before the optimisation, unless a call left a phi node    *)
(* behind.                                                                 *)
THEOREM ArgumentsTheorem == Spec => [](Supported(fn) => SoundArguments)
<1>1. IInv /\ SInv => (Supported(fn) => SoundArguments)
  BY SoundShown
<1> QED BY <1>1, SupportedInductive, PTL

(* The caller of a supported function finds in the State the result that   *)
(* it found before the optimisation, unless a call left a phi node behind. *)
THEOREM ResultsTheorem == Spec => [](Supported(fn) => SoundResults)
<1>1. IInv /\ SInv => (Supported(fn) => SoundResults)
  BY SoundShown
<1> QED BY <1>1, SupportedInductive, PTL
-----------------------------------------------------------------------------
(***************************************************************************)
(* Functions in which no call leaves a phi node behind, whatever order the *)
(* blocks are optimised in.                                                *)
(***************************************************************************)
QueueInv ==
  /\ Entry \in finished \cup phi_bb_queue
  /\ \A b \in finished : fn.succ[b] \subseteq finished \cup phi_bb_queue
  /\ pc # "compile" => finished = Block

UpdatedInv ==
  OneWay(fn) => \A e \in static : e[1] \in finished /\ Replaces(e[1]) => e \in updated

OInv == QueueInv /\ static \subseteq Branches /\ UpdatedInv

(* All branches of such a block that has a call are one.                   *)
LEMMA OneBranch ==
  ASSUME IInv, OneWay(fn), NEW e \in Branches, NEW d \in Branches,
         e[1] = d[1], Replaces(e[1])
  PROVE  /\ ~ ReadsPair(fn, e[1])
         /\ e = d
         /\ e # <<e[1], e[1]>>
<1>1. /\ e[1] \in Block /\ e[2] \in fn.succ[e[1]] /\ d[2] \in fn.succ[e[1]]
      /\ e = <<e[1], e[2]>> /\ d = <<d[1], d[2]>>
  BY DEF Branches
<1>2. Reloads(fn, e[1]) # {}
  BY DEF Replaces
<1>3. ~ ReadsPair(fn, e[1]) /\ \E c \in Block \ {e[1]} : fn.succ[e[1]] \subseteq {c}
  BY <1>1, <1>2 DEF OneWay
<1>4. PICK c \in Block \ {e[1]} : fn.succ[e[1]] \subseteq {c}
  BY <1>3
<1>5. e[2] = c /\ d[2] = c
  BY <1>1, <1>4
<1> QED BY <1>1, <1>3, <1>4, <1>5

LEMMA InitOInv == Init => OInv
BY DEF Init, OInv, QueueInv, UpdatedInv

LEMMA OptimizeOInv ==
  ASSUME IInv, OInv, NEW b \in Block, Optimize(b)
  PROVE  OInv'
<1> DEFINE asked == {e \in Branches : e[2] \in NewPhis(b) /\ e[1] \notin finished}
           mine == {e \in static' : e[1] = b}
<1>1. /\ pc = "compile" /\ pc' = "compile" /\ b \in phi_bb_queue
      /\ static' = static \cup asked
      /\ finished' = finished \cup {b}
      /\ phi_bb_queue' = (phi_bb_queue \cup fn.succ[b]) \ finished'
      /\ UNCHANGED <<fn, drvd_rmp>>
  BY DEF Optimize, analysisVars
<1>2. PICK branches \in Updates(b, mine) : updated' = updated \cup branches
  BY DEF Optimize
<1>3. static' \subseteq Branches /\ UNCHANGED Branches
  BY <1>1 DEF OInv, Branches
<1>4. QueueInv'
  BY <1>1 DEF OInv, QueueInv
<1> HIDE DEF asked, mine
<1>5. \A c : Replaces(c)' = Replaces(c)
  BY <1>1 DEF Replaces
<1>6. UpdatedInv'
  <2> SUFFICES ASSUME OneWay(fn), NEW e \in static', e[1] \in finished', Replaces(e[1])
               PROVE  e \in updated'
    BY <1>1, <1>5 DEF UpdatedInv
  <2>1. CASE e[1] = b
    <3>1. e \in mine /\ mine \subseteq static'
      BY <2>1 DEF mine
    <3>2. /\ ~ ReadsPair(fn, b)
          /\ \A d \in mine : d = e
          /\ e # <<b, b>>
      <4>1. \A d \in mine : d \in Branches /\ d[1] = b
        BY <1>3 DEF mine
      <4> QED BY <1>3, <2>1, <3>1, <4>1, OneBranch
    <3>3. mine = {e} /\ mine \ {<<b, b>>} = {e}
      BY <3>1, <3>2
    <3>4. Updates(b, mine) = {{e}}
      BY <2>1, <3>2, <3>3 DEF Updates
    <3> QED BY <1>2, <3>4
  <2>2. CASE e[1] # b
    <3>1. e \in static /\ e[1] \in finished
      BY <1>1, <2>2 DEF asked
    <3> QED BY <1>2, <3>1 DEF OInv, UpdatedInv
  <2> QED BY <2>1, <2>2
<1> QED BY <1>3, <1>4, <1>6 DEF OInv

(* The queue runs dry when every block is optimised.                       *)
LEMMA CompiledOInv ==
  ASSUME IInv, OInv, Compiled
  PROVE  OInv'
<1>1. /\ UNCHANGED <<fn, drvd_rmp, phi_bb_queue, finished, static, updated>>
      /\ phi_bb_queue = {} /\ pc' = "run"
  BY DEF Compiled, analysisVars, compileVars
<1>2. finished \subseteq Block
  BY DEF IInv, TypeOK
<1>3. Closed(fn, finished) /\ Entry \in finished
  BY <1>1 DEF OInv, QueueInv, Closed
<1>4. \A b \in Block : Reaches(fn, Entry, b)
  BY OfFunction DEF IInv, WellFormed
<1>5. finished = Block
  BY <1>2, <1>3, <1>4 DEF Reaches
<1> QED BY <1>1, <1>5 DEF OInv, QueueInv, UpdatedInv, Branches, Replaces

LEMMA NextOInv == IInv /\ OInv /\ [Next]_vars => OInv'
<1> SUFFICES ASSUME IInv, OInv, [Next]_vars PROVE OInv'
  OBVIOUS
<1> DEFINE Kept == /\ UNCHANGED <<fn, drvd_rmp, phi_bb_queue, finished, static, updated>>
                   /\ pc # "compile" \/ pc' = "compile"
<1>1. Kept => OInv'
  BY DEF OInv, QueueInv, UpdatedInv, Branches, Replaces
<1>2. CASE Load
  BY <1>1, <1>2 DEF Load, Runs, analysisVars, compileVars
<1>3. ASSUME NEW op \in {"store", "pair"}, Store(op) PROVE OInv'
  BY <1>1, <1>3 DEF Store, Runs, analysisVars, compileVars
<1>4. ASSUME NEW op \in {"call", "svc"}, Call(op) PROVE OInv'
  BY <1>1, <1>4 DEF Call, Runs, analysisVars, compileVars
<1>5. ASSUME NEW b \in Block, Jump(b) PROVE OInv'
  BY <1>1, <1>5 DEF Jump, analysisVars, compileVars
<1>6. CASE Return
  BY <1>1, <1>6 DEF Return, analysisVars, compileVars
<1>7. CASE Done \/ UNCHANGED vars
  BY <1>1, <1>7 DEF Done, vars, analysisVars, compileVars
<1> QED BY <1>2, <1>3, <1>4, <1>5, <1>6, <1>7, OptimizeOInv, CompiledOInv DEF Next

LEMMA OneWayIsSound ==
  ASSUME IInv, OInv, OneWay(fn), pc # "compile"
  PROVE  StaleBranches = {}
<1> SUFFICES ASSUME NEW e \in Branches, Replaces(e[1]),
                    IF e \in static THEN e \notin updated ELSE LeavesExtract(e[1])
             PROVE  FALSE
  BY DEF StaleBranches
<1>1. e[1] \in finished
  BY DEF OInv, QueueInv, Branches
<1>2. CASE e \in static
  BY <1>1, <1>2 DEF OInv, UpdatedInv
<1>3. CASE e \notin static
  <2>1. PICK d \in static : d[1] = e[1]
    BY <1>3 DEF LeavesExtract
  <2>2. d = e
    BY <2>1, OneBranch DEF OInv
  <2> QED BY <1>3, <2>2
<1> QED BY <1>2, <1>3

(* A supported function, each of whose blocks that end in a call which     *)
(* returns the register goes on in one way, shows what it showed before it *)
(* was optimised, in whatever order its blocks were.                       *)
THEOREM OneWayTheorem ==
  Spec => [](Supported(fn) /\ OneWay(fn) =>
               LoadsAgree /\ ArgumentsAgree /\ ResultsAgree /\ RegisterIsKept)
<1>1. IInv /\ OInv /\ [Next]_vars => (IInv /\ OInv)'
  BY NextIInv, NextOInv
<1>2. IInv /\ SInv /\ OInv =>
        (Supported(fn) /\ OneWay(fn) =>
           LoadsAgree /\ ArgumentsAgree /\ ResultsAgree /\ RegisterIsKept)
  <2>1. CASE pc = "compile"
    BY <2>1 DEF IInv, StartInv, LoadsAgree, ArgumentsAgree, ResultsAgree, RegisterIsKept
  <2>2. CASE pc # "compile"
    BY <2>2, OneWayIsSound DEF SInv, Sound
  <2> QED BY <2>1, <2>2
<1> QED BY <1>1, <1>2, InitIInv, InitOInv, SupportedInductive, PTL DEF Spec
=============================================================================
