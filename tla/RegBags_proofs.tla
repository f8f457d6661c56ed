--------------------------- MODULE RegBags_proofs ---------------------------
(***************************************************************************)
(* The register analysis, for every acyclic graph of bags and all own      *)
(* registers.  fin_num counts the finished parents, then the finished      *)
(* children, of a bag; so a bag is finished after all that is before it    *)
(* (behind it, in the second pass), and what it takes from its neighbours  *)
(* is already complete.  In the first pass a bag whose parents are all     *)
(* finished is in the queue, in the second one the root stays on the stack *)
(* until it is finished: neither work list runs empty too early.           *)
(***************************************************************************)
EXTENDS RegBags, FiniteSetTheorems, WellFoundedInduction, SequenceTheorems, TLAPS

USE BagAssumption, RegAssumption

RegsType ==
  /\ graph \in BagGraphs
  /\ pc \in {"pres", "sucs", "drvd", "done"}
  /\ bag_queue \in Seq(Bag) /\ bag_stack \in Seq(Bag)
  /\ fins \subseteq Bag
  /\ fin_num \in [Bag -> Nat]
  /\ pres_ld_rmp \in [Bag -> RegMap] /\ pres_str_rmp \in [Bag -> RegMap]
  /\ sucs_ld_rmp \in [Bag -> RegMap] /\ drvd_rmp \in [Bag -> RegMap]

CountInv ==
  /\ pc = "pres" => \A b \in Bag : fin_num[b] = Cardinality(Parents(graph, b) \cap fins)
  /\ pc = "sucs" => \A b \in Bag : fin_num[b] = Cardinality(graph.children[b] \cap fins)

OrderInv ==
  /\ pc = "pres" => \A b \in fins : Parents(graph, b) \subseteq fins
  /\ pc = "sucs" => \A b \in fins : graph.children[b] \subseteq fins

WorkInv ==
  /\ pc = "pres" => \A b \in Bag \ fins : Parents(graph, b) \subseteq fins => b \in Range(bag_queue)
  /\ pc = "sucs" => Root \in fins \cup Range(bag_stack)

(* What is known before b, and what is known behind it.                    *)
PrecedingIs(b) ==
  /\ IsWidestOf(pres_ld_rmp[b], graph.own_ld, Before(b))
  /\ IsWidestOf(pres_str_rmp[b], graph.own_str, Before(b))

(* A bag that nothing follows keeps the loads of the block it started      *)
(* from, so a loop that is not left lacks those of its other blocks.       *)
KeepsLoads(c) == graph.children[c] # {} \/ graph.first_ld[c] = graph.own_ld[c]

SucceedingIs(b) ==
  \A c \in Behind(b) \cup {b}, r \in Reg :
    KeepsLoads(c) => graph.own_ld[c][r] <= sucs_ld_rmp[b][r]

PrecedingInv == \A b \in Bag : (pc = "pres" => b \in fins) => PrecedingIs(b)

SucceedingInv ==
  \A b \in Bag :
    /\ pc = "pres" \/ (pc = "sucs" /\ b \notin fins) => sucs_ld_rmp[b] = graph.first_ld[b]
    /\ pc \in {"drvd", "done"} \/ (pc = "sucs" /\ b \in fins) => SucceedingIs(b)

DerivedInv == \A b \in Bag : pc = "done" \/ (pc = "drvd" /\ b \in fins) => drvd_rmp[b] = Derived(b)

DoneInv == pc = "done" => fins = Bag

RInv == RegsType /\ CountInv /\ OrderInv /\ WorkInv /\ PrecedingInv /\ SucceedingInv /\ DerivedInv
-----------------------------------------------------------------------------
(***************************************************************************)
(* Numbers and register maps.                                              *)
(***************************************************************************)
Family(F, D) == IsFiniteSet(D) /\ F # {} /\ \A s \in F : s \subseteq D

LEMMA MinimalSet ==
  ASSUME NEW D, NEW F, Family(F, D)
  PROVE  \E s \in F : \A t \in F : t \subseteq s => t = s
<1>1. F \subseteq FiniteSubsetsOf(D)
  BY FS_Subset DEF FiniteSubsetsOf, Family
<1>2. IsWellFoundedOn(StrictSubsetOrdering(D), FiniteSubsetsOf(D))
  BY FS_StrictSubsetOrderingWellFounded
<1>3. PICK s \in F : \A t \in F : <<t, s>> \notin StrictSubsetOrdering(D)
  BY <1>1, <1>2, WFMin DEF Family
<1> QED BY <1>1, <1>3 DEF StrictSubsetOrdering, Family

LEMMA Greatest ==
  ASSUME NEW S \in SUBSET Nat, IsFiniteSet(S), S # {}
  PROVE  \E m \in S : \A i \in S : i <= m
<1> DEFINE above(i) == {k \in S : k > i}
           F == {above(i) : i \in S}
<1>1. Family(F, S)
  BY DEF Family
<1> HIDE DEF F
<1>2. PICK s \in F : \A t \in F : t \subseteq s => t = s
  BY <1>1, MinimalSet
<1>3. PICK m \in S : s = above(m)
  BY DEF F
<1>4. ASSUME NEW i \in S, i > m PROVE FALSE
  <2>1. ~ i > i /\ \A k \in S : k > i => k > m
    BY <1>3, <1>4
  <2>2. above(i) \subseteq s /\ i \in s /\ i \notin above(i)
    BY <1>3, <1>4, <2>1
  <2>3. above(i) \in F
    BY DEF F
  <2> QED BY <1>2, <2>2, <2>3
<1> QED BY <1>4

(* The widest of some register maps. *)
LEMMA WidestIs ==
  ASSUME NEW M, IsFiniteSet(M), M \subseteq RegMap
  PROVE  /\ Widest(M) \in RegMap
         /\ \A m \in M, r \in Reg : m[r] <= Widest(M)[r]
         /\ \A r \in Reg : Widest(M)[r] # 0 => \E m \in M : m[r] = Widest(M)[r]
<1>1. ASSUME NEW r \in Reg
      PROVE  /\ Widest(M)[r] \in {m[r] : m \in M} \cup {0}
             /\ \A m \in M : m[r] <= Widest(M)[r]
  <2> DEFINE S == {m[r] : m \in M} \cup {0}
             f == [m \in M |-> m[r]]
  <2>1. \A m \in M : m[r] \in Width /\ m[r] \in Nat
    BY DEF RegMap
  <2>2. IsFiniteSet(S)
    <3>1. IsFiniteSet({m[r] : m \in M})
      <4>1. f \in Surjection(M, {m[r] : m \in M})
        BY DEF Surjection
      <4> QED BY <4>1, FS_Surjection
    <3> QED BY <3>1, FS_AddElement
  <2>3. S \in SUBSET Nat /\ S # {}
    BY <2>1
  <2>4. \E w \in S : \A i \in S : i <= w
    BY <2>2, <2>3, Greatest
  <2>5. \E w \in S : \A m \in M : m[r] <= w
    BY <2>4
  <2>6. Widest(M)[r] = CHOOSE w \in S : \A m \in M : m[r] <= w
    BY DEF Widest
  <2> HIDE DEF S
  <2>7. Widest(M)[r] \in S /\ \A m \in M : m[r] <= Widest(M)[r]
    BY <2>5, <2>6
  <2> QED BY <2>7 DEF S
<1>2. Widest(M) \in RegMap
  <2>1. \A r \in Reg : Widest(M)[r] \in Width
    BY <1>1 DEF RegMap
  <2>2. Widest(M) = [r \in Reg |-> Widest(M)[r]]
    BY DEF Widest
  <2> QED BY <2>1, <2>2 DEF RegMap
<1> QED BY <1>1, <1>2
-----------------------------------------------------------------------------
(***************************************************************************)
(* The graph of bags.                                                      *)
(***************************************************************************)
LEMMA ReachesItself == ASSUME NEW e, NEW b PROVE Reaches(e, b, b)
BY DEF Reaches

LEMMA ReachesTransitive ==
  ASSUME NEW e, NEW b, NEW c, NEW d, Reaches(e, b, c), Reaches(e, c, d)
  PROVE  Reaches(e, b, d)
BY DEF Reaches

LEMMA ReachesChild ==
  ASSUME NEW e, NEW b, NEW c \in e[b]
  PROVE  Reaches(e, b, c)
BY DEF Reaches, Closed

(* A path has a first and a last edge. *)
LEMMA PathEnds ==
  ASSUME NEW e \in [Bag -> SUBSET Bag], NEW a \in Bag, NEW b \in Bag, a # b, Reaches(e, a, b)
  PROVE  /\ \E c \in e[a] : Reaches(e, c, b)
         /\ \E p \in Bag : b \in e[p] /\ Reaches(e, a, p)
<1>1. \E c \in e[a] : Reaches(e, c, b)
  <2> DEFINE S == {x \in Bag : x = a \/ \E c \in e[a] : Reaches(e, c, x)}
  <2>1. ASSUME NEW x \in S, NEW y \in e[x] PROVE y \in S
    <3>1. y \in Bag
      OBVIOUS
    <3>2. CASE x = a
      BY <3>1, <3>2, ReachesItself
    <3>3. CASE x # a
      <4>1. PICK c \in e[a] : Reaches(e, c, x)
        BY <3>3
      <4>2. Reaches(e, c, y)
        BY <4>1, ReachesChild, ReachesTransitive
      <4> QED BY <3>1, <4>1, <4>2
    <3> QED BY <3>2, <3>3
  <2>2. Closed(e, S) /\ a \in S /\ S \in SUBSET Bag
    BY <2>1 DEF Closed
  <2> HIDE DEF S
  <2>3. b \in S
    BY <2>2 DEF Reaches
  <2> QED BY <2>3 DEF S
<1>2. \E p \in Bag : b \in e[p] /\ Reaches(e, a, p)
  <2> DEFINE S == {x \in Bag : x = a \/ \E p \in Bag : x \in e[p] /\ Reaches(e, a, p)}
  <2>1. ASSUME NEW x \in S, NEW y \in e[x] PROVE y \in S
    <3>1. y \in Bag /\ x \in Bag
      OBVIOUS
    <3>2. Reaches(e, a, x)
      <4>1. CASE x = a
        BY <4>1, ReachesItself
      <4>2. CASE x # a
        BY <4>2, ReachesChild, ReachesTransitive
      <4> QED BY <4>1, <4>2
    <3> QED BY <3>1, <3>2
  <2>2. Closed(e, S) /\ a \in S /\ S \in SUBSET Bag
    BY <2>1 DEF Closed
  <2> HIDE DEF S
  <2>3. b \in S
    BY <2>2 DEF Reaches
  <2> QED BY <2>3 DEF S
<1> QED BY <1>1, <1>2

LEMMA GraphIs ==
  ASSUME graph \in BagGraphs
  PROVE  /\ graph.children \in [Bag -> SUBSET Bag]
         /\ graph.first_ld \in [Bag -> RegMap] /\ graph.own_ld \in [Bag -> RegMap]
         /\ graph.own_str \in [Bag -> RegMap] /\ graph.is_loop \in [Bag -> BOOLEAN]
         /\ \A b \in Bag : Reaches(graph.children, Root, b)
         /\ \A b \in Bag : \A c \in graph.children[b] : ~ Reaches(graph.children, c, b)
BY BagGraphsAssumption DEF BagGraph, WellFormed

LEMMA Neighbours ==
  ASSUME graph \in BagGraphs, NEW b \in Bag
  PROVE  /\ Parents(graph, b) \subseteq Bag /\ graph.children[b] \subseteq Bag
         /\ \A c \in Bag : c \in graph.children[b] <=> b \in Parents(graph, c)
         /\ b \notin Parents(graph, b) /\ b \notin graph.children[b]
BY GraphIs, ReachesItself DEF Parents

(* What is before a bag are its parents and what is before them, and what  *)
(* is behind it are its children and what is behind them.                  *)
LEMMA BeforeIs ==
  ASSUME graph \in BagGraphs, NEW b \in Bag
  PROVE  Before(b) = UNION {{p} \cup Before(p) : p \in Parents(graph, b)}
<1> DEFINE e == graph.children
<1>1. e \in [Bag -> SUBSET Bag] /\ \A x \in Bag : \A c \in e[x] : ~ Reaches(e, c, x)
  BY GraphIs
<1> HIDE DEF e
<1>2. ASSUME NEW a \in Before(b) PROVE \E p \in Parents(graph, b) : a \in {p} \cup Before(p)
  <2>1. a \in Bag /\ a # b /\ Reaches(e, a, b)
    BY DEF Before, e
  <2>2. PICK p \in Bag : b \in e[p] /\ Reaches(e, a, p)
    BY <1>1, <2>1, PathEnds
  <2>3. p \in Parents(graph, b)
    BY <2>2 DEF Parents, e
  <2> QED BY <2>1, <2>2, <2>3 DEF Before, e
<1>3. ASSUME NEW p \in Parents(graph, b), NEW a \in {p} \cup Before(p) PROVE a \in Before(b)
  <2>1. p \in Bag /\ b \in e[p]
    BY DEF Parents, e
  <2>2. a \in Bag /\ Reaches(e, a, p)
    BY <2>1, ReachesItself DEF Before, e
  <2>3. Reaches(e, a, b)
    BY <2>1, <2>2, ReachesChild, ReachesTransitive
  <2>4. a # b
    BY <1>1, <2>1, <2>2
  <2> QED BY <2>2, <2>3, <2>4 DEF Before, e
<1> QED BY <1>2, <1>3

LEMMA BehindIs ==
  ASSUME graph \in BagGraphs, NEW b \in Bag, NEW c \in Behind(b)
  PROVE  \E d \in graph.children[b] : c \in {d} \cup Behind(d)
<1> DEFINE e == graph.children
<1>1. e \in [Bag -> SUBSET Bag]
  BY GraphIs
<1>2. c \in Bag /\ c # b /\ Reaches(e, b, c)
  BY DEF Behind
<1>3. PICK d \in e[b] : Reaches(e, d, c)
  BY <1>1, <1>2, PathEnds
<1> QED BY <1>2, <1>3 DEF Behind

(* Nothing is before itself, so a bag has less before it than its child.   *)
LEMMA ParentHasLess ==
  ASSUME graph \in BagGraphs, NEW b \in Bag, NEW p \in Parents(graph, b)
  PROVE  Before(p) \subseteq Before(b) /\ Before(p) # Before(b)
<1>1. p \in Before(b) /\ Before(p) \subseteq Before(b)
  BY BeforeIs
<1> QED BY <1>1 DEF Before

(* A bag that is not finished, although all before it are. *)
LEMMA FirstUnfinished ==
  ASSUME graph \in BagGraphs, NEW F \in SUBSET Bag, F # Bag
  PROVE  \E b \in Bag \ F : Parents(graph, b) \subseteq F
<1> DEFINE Fam == {Before(b) : b \in Bag \ F}
<1>1. Family(Fam, Bag)
  BY DEF Family, Before
<1> HIDE DEF Fam
<1>2. PICK s \in Fam : \A t \in Fam : t \subseteq s => t = s
  BY <1>1, MinimalSet
<1>3. PICK b \in Bag \ F : s = Before(b)
  BY DEF Fam
<1>4. ASSUME NEW p \in Parents(graph, b), p \notin F PROVE FALSE
  <2>1. p \in Bag
    BY DEF Parents
  <2>2. Before(p) \in Fam
    BY <1>4, <2>1 DEF Fam
  <2> QED BY <1>2, <1>3, <2>2, ParentHasLess
<1> QED BY <1>4

(* A set that holds the root and the children of its members is all.       *)
LEMMA RootReachesAll ==
  ASSUME graph \in BagGraphs, NEW F \in SUBSET Bag, Root \in F,
         \A b \in F : graph.children[b] \subseteq F
  PROVE  F = Bag
BY GraphIs DEF Reaches, Closed

-----------------------------------------------------------------------------
(***************************************************************************)
(* Sequences.                                                              *)
(***************************************************************************)
(* What is queued or pushed: all of a set of bags. *)
LEMMA AscendingIs ==
  ASSUME NEW S \in SUBSET Bag, NEW cs \in Ascending(S)
  PROVE  cs \in Seq(Bag) /\ Range(cs) = S
<1> DEFINE n == Cardinality(S)
<1>1. IsFiniteSet(S) /\ n \in Nat
  BY FS_Subset, FS_CardinalityType
<1>2. cs \in [1 .. n -> S] /\ \A i, j \in 1 .. n : i < j => cs[i] < cs[j]
  BY DEF Ascending
<1>3. \A i \in 1 .. n : cs[i] \in Nat
  BY <1>2
<1>4. \A i, j \in 1 .. n : cs[i] = cs[j] => i = j
  <2> SUFFICES ASSUME NEW i \in 1 .. n, NEW j \in 1 .. n, i # j PROVE cs[i] # cs[j]
    OBVIOUS
  <2>1. CASE i < j
    BY <1>2, <1>3, <2>1
  <2>2. CASE j < i
    BY <1>2, <1>3, <2>2
  <2> QED BY <1>1, <2>1, <2>2
<1>5. cs \in Surjection(1 .. n, S)
  <2>1. cs \in Injection(1 .. n, S)
    BY <1>2, <1>4 DEF Injection, IsInjective
  <2>2. IsFiniteSet(1 .. n) /\ Cardinality(1 .. n) = n
    BY <1>1, FS_Interval
  <2> QED BY <1>1, <2>1, <2>2, FS_Injection
<1>6. cs \in Seq(Bag)
  <2>1. cs \in [1 .. n -> Bag]
    BY <1>2
  <2> QED BY <1>1, <2>1
<1> QED BY <1>2, <1>5, <1>6 DEF Surjection, Range

LEMMA RangeOfConcat ==
  ASSUME NEW s \in Seq(Bag), NEW t \in Seq(Bag)
  PROVE  s \o t \in Seq(Bag) /\ Range(s \o t) = Range(s) \cup Range(t)
<1>1. s \o t \in Seq(Bag)
  BY ConcatProperties
<1>2. Range(s \o t) = Range(s) \cup Range(t)
  BY RangeConcatenation
<1> QED BY <1>1, <1>2

LEMMA RangeOfTail ==
  ASSUME NEW s \in Seq(Bag), s # <<>>
  PROVE  /\ Tail(s) \in Seq(Bag) /\ Head(s) \in Bag
         /\ Range(s) = {Head(s)} \cup Range(Tail(s))
<1>1. Len(s) \in Nat \ {0} /\ DOMAIN s = 1 .. Len(s) /\ Head(s) = s[1]
  BY EmptySeq, LenProperties
<1>2. Tail(s) \in Seq(Bag) /\ Len(Tail(s)) = Len(s) - 1 /\ DOMAIN Tail(s) = 1 .. Len(s) - 1
  BY <1>1, HeadTailProperties, LenProperties
<1>3. \A i \in 1 .. Len(s) - 1 : Tail(s)[i] = s[i + 1]
  BY <1>1, HeadTailProperties
<1>4. ASSUME NEW x \in Range(s), x # Head(s) PROVE x \in Range(Tail(s))
  <2>1. PICK i \in 1 .. Len(s) : s[i] = x
    BY <1>1 DEF Range
  <2>2. i # 1
    BY <1>1, <1>4, <2>1
  <2>3. i - 1 \in 1 .. Len(s) - 1 /\ i - 1 + 1 = i
    BY <1>1, <2>1, <2>2
  <2>4. Tail(s)[i - 1] = x
    BY <1>3, <2>1, <2>3
  <2> QED BY <1>2, <2>3, <2>4 DEF Range
<1>5. ASSUME NEW x \in Range(Tail(s)) PROVE x \in Range(s)
  <2>1. PICK i \in 1 .. Len(s) - 1 : Tail(s)[i] = x
    BY <1>2 DEF Range
  <2>2. i + 1 \in 1 .. Len(s)
    BY <1>1, <2>1
  <2> QED BY <1>1, <1>3, <2>1, <2>2 DEF Range
<1>6. Head(s) \in Range(s) /\ Head(s) \in Bag
  BY <1>1, ElementOfSeq DEF Range
<1> QED BY <1>2, <1>4, <1>5, <1>6

LEMMA RangeOfFront ==
  ASSUME NEW s \in Seq(Bag), s # <<>>
  PROVE  /\ Front(s) \in Seq(Bag) /\ Last(s) \in Bag
         /\ Range(s) = {Last(s)} \cup Range(Front(s))
<1>1. Len(s) \in Nat \ {0} /\ DOMAIN s = 1 .. Len(s) /\ \A i \in 1 .. Len(s) : s[i] \in Bag
  BY EmptySeq, LenProperties, ElementOfSeq
<1>2. \A i \in 1 .. Len(s) - 1 : s[i] \in Bag
  BY <1>1
<1>3. Len(s) - 1 \in Int /\ 1 \in Int
  BY <1>1
<1>4. /\ SubSeq(s, 1, Len(s) - 1) \in Seq(Bag)
      /\ Len(SubSeq(s, 1, Len(s) - 1)) = IF 1 <= Len(s) - 1 THEN (Len(s) - 1) - 1 + 1 ELSE 0
      /\ \A i \in 1 .. (Len(s) - 1) - 1 + 1 : SubSeq(s, 1, Len(s) - 1)[i] = s[1 + i - 1]
  BY <1>2, <1>3, SubSeqProperties
<1>5. Front(s) = SubSeq(s, 1, Len(s) - 1) /\ Last(s) = s[Len(s)]
  BY DEF Front, Last
<1>6. /\ Front(s) \in Seq(Bag) /\ DOMAIN Front(s) = 1 .. Len(s) - 1
      /\ \A i \in 1 .. Len(s) - 1 : Front(s)[i] = s[i]
  BY <1>1, <1>4, <1>5, LenProperties
<1>7. PICK n \in Nat \ {0} : n = Len(s)
  BY <1>1
<1>8. ASSUME NEW x \in Range(s), x # Last(s) PROVE x \in Range(Front(s))
  <2>1. PICK i \in 1 .. n : s[i] = x
    BY <1>1, <1>7 DEF Range
  <2>2. i # n
    BY <1>5, <1>7, <1>8, <2>1
  <2>3. i \in 1 .. n - 1
    BY <2>1, <2>2
  <2> QED BY <1>6, <1>7, <2>1, <2>3 DEF Range
<1>9. ASSUME NEW x \in Range(Front(s)) PROVE x \in Range(s)
  <2>1. PICK i \in 1 .. n - 1 : Front(s)[i] = x
    BY <1>6, <1>7 DEF Range
  <2>2. i \in 1 .. n
    BY <2>1
  <2> QED BY <1>1, <1>6, <1>7, <2>1, <2>2 DEF Range
<1>10. Last(s) \in Range(s) /\ Last(s) \in Bag
  <2>1. n \in 1 .. n
    BY <1>7
  <2> QED BY <1>1, <1>5, <1>7, <2>1 DEF Range
<1> QED BY <1>6, <1>8, <1>9, <1>10

-----------------------------------------------------------------------------
(***************************************************************************)
(* What a bag takes from its neighbours.                                   *)
(***************************************************************************)
LEMMA FiniteImage ==
  ASSUME NEW f, NEW S \in SUBSET Bag
  PROVE  IsFiniteSet({f[p] : p \in S})
<1> DEFINE h == [p \in S |-> f[p]]
<1>1. IsFiniteSet(S)
  BY FS_Subset
<1>2. h \in Surjection(S, {f[p] : p \in S})
  BY DEF Surjection
<1> QED BY <1>1, <1>2, FS_Surjection

LEMMA FewAreFinite ==
  ASSUME NEW x, NEW y, NEW z
  PROVE  IsFiniteSet({x, y}) /\ IsFiniteSet({x, y, z})
<1>1. IsFiniteSet({x})
  BY FS_Singleton
<1>2. IsFiniteSet({x} \cup {y})
  BY <1>1, FS_AddElement
<1>3. {x, y} = {x} \cup {y}
  OBVIOUS
<1>4. IsFiniteSet({x, y})
  BY <1>2, <1>3
<1>5. IsFiniteSet({x, y} \cup {z})
  BY <1>4, FS_AddElement
<1>6. {x, y, z} = {x, y} \cup {z}
  OBVIOUS
<1> QED BY <1>4, <1>5, <1>6

LEMMA WidthOf ==
  ASSUME NEW m \in RegMap, NEW r \in Reg
  PROVE  m[r] \in Width /\ m[r] \in Nat
BY DEF RegMap

LEMMA PrecedingStep ==
  ASSUME graph \in BagGraphs, NEW m \in [Bag -> RegMap], NEW own \in [Bag -> RegMap],
         NEW b \in Bag, \A p \in Parents(graph, b) : IsWidestOf(m[p], own, Before(p)),
         NEW w, w = Widest({m[p] : p \in Parents(graph, b)} \cup {own[p] : p \in Parents(graph, b)})
  PROVE  w \in RegMap /\ IsWidestOf(w, own, Before(b))
<1> DEFINE pars == Parents(graph, b)
           M == {m[p] : p \in pars} \cup {own[p] : p \in pars}
<1>1. pars \subseteq Bag
  BY Neighbours
<1>2. IsFiniteSet(M) /\ M \subseteq RegMap
  <2>1. IsFiniteSet({m[p] : p \in pars}) /\ IsFiniteSet({own[p] : p \in pars})
    BY <1>1, FiniteImage
  <2> QED BY <1>1, <2>1, FS_Union
<1>3. /\ w \in RegMap
      /\ \A n \in M, r \in Reg : n[r] <= w[r]
      /\ \A r \in Reg : w[r] # 0 => \E n \in M : n[r] = w[r]
  BY <1>2, WidestIs
<1>4. /\ \A p \in pars, r \in Reg : m[p][r] <= w[r] /\ own[p][r] <= w[r]
      /\ \A r \in Reg : w[r] # 0 => \E p \in pars : m[p][r] = w[r] \/ own[p][r] = w[r]
  BY <1>3
<1> HIDE DEF M, pars
<1>5. /\ \A a \in Before(b) : \E p \in pars : a = p \/ a \in Before(p)
      /\ \A p \in pars : p \in Before(b) /\ Before(p) \subseteq Before(b)
  BY BeforeIs DEF pars
<1>6. ASSUME NEW r \in Reg, NEW a \in Before(b) PROVE own[a][r] <= w[r]
  <2>1. PICK p \in pars : a = p \/ a \in Before(p)
    BY <1>5
  <2>2. CASE a = p
    BY <1>4, <2>1, <2>2
  <2>3. CASE a \in Before(p)
    <3>1. own[a][r] <= m[p][r] /\ m[p][r] <= w[r]
      BY <1>4, <2>1, <2>3 DEF IsWidestOf, pars
    <3>2. own[a][r] \in Nat /\ m[p][r] \in Nat /\ w[r] \in Nat
      <4>1. a \in Bag /\ p \in Bag
        BY <1>1, <2>1, <2>3 DEF Before
      <4> QED BY <1>3, <4>1, WidthOf
    <3> QED BY <3>1, <3>2
  <2> QED BY <2>1, <2>2, <2>3
<1>7. ASSUME NEW r \in Reg, w[r] # 0 PROVE \E a \in Before(b) : own[a][r] = w[r]
  <2>1. PICK p \in pars : m[p][r] = w[r] \/ own[p][r] = w[r]
    BY <1>4, <1>7
  <2>2. CASE own[p][r] = w[r]
    BY <1>5, <2>1, <2>2
  <2>3. CASE m[p][r] = w[r]
    <3>1. \E a \in Before(p) : own[a][r] = m[p][r]
      BY <1>7, <2>1, <2>3 DEF IsWidestOf, pars
    <3> QED BY <1>5, <2>1, <2>3, <3>1
  <2> QED BY <2>1, <2>2, <2>3
<1> QED BY <1>3, <1>6, <1>7 DEF IsWidestOf

(* All neighbours are finished when their number is. *)
LEMMA AllCounted ==
  ASSUME NEW S \in SUBSET Bag, NEW F \in SUBSET Bag, Cardinality(S \cap F) = Cardinality(S)
  PROVE  S \subseteq F
<1>1. IsFiniteSet(S) /\ S \cap F \in SUBSET S
  BY FS_Subset
<1>2. S \cap F = S
  BY <1>1, FS_Subset
<1> QED BY <1>2

LEMMA CountOne ==
  ASSUME NEW S \in SUBSET Bag, NEW F \in SUBSET Bag, NEW b \in Bag \ F
  PROVE  Cardinality(S \cap (F \cup {b})) = Cardinality(S \cap F) + (IF b \in S THEN 1 ELSE 0)
<1>1. IsFiniteSet(S \cap F) /\ Cardinality(S \cap F) \in Nat
  BY FS_Subset, FS_CardinalityType
<1>2. CASE b \in S
  <2>1. S \cap (F \cup {b}) = (S \cap F) \cup {b} /\ b \notin S \cap F
    BY <1>2
  <2> QED BY <1>1, <1>2, <2>1, FS_AddElement
<1>3. CASE b \notin S
  <2>1. S \cap (F \cup {b}) = S \cap F
    BY <1>3
  <2> QED BY <1>1, <1>3, <2>1
<1> QED BY <1>2, <1>3

LEMMA CountNone == ASSUME NEW S PROVE Cardinality(S \cap {}) = 0
<1>1. S \cap {} = {}
  OBVIOUS
<1> QED BY <1>1, FS_EmptySet

LEMMA SameGraph ==
  ASSUME UNCHANGED graph
  PROVE  /\ \A b : Before(b)' = Before(b) /\ Behind(b)' = Behind(b)
         /\ \A c : KeepsLoads(c)' = KeepsLoads(c)
BY DEF Before, Behind, KeepsLoads

-----------------------------------------------------------------------------
(***************************************************************************)
(* The steps.                                                              *)
(***************************************************************************)
LEMMA InitRInv == Init => RInv
<1> SUFFICES ASSUME Init PROVE RInv
  OBVIOUS
<1>1. /\ graph \in BagGraphs /\ pc = "pres" /\ bag_queue = <<Root>> /\ bag_stack = <<>> /\ fins = {}
      /\ fin_num = [b \in Bag |-> 0] /\ sucs_ld_rmp = graph.first_ld
      /\ pres_ld_rmp = [b \in Bag |-> NoRegs] /\ pres_str_rmp = [b \in Bag |-> NoRegs]
      /\ drvd_rmp = [b \in Bag |-> NoRegs]
  BY DEF Init
<1>2. RegsType
  <2>1. NoRegs \in RegMap
    BY DEF NoRegs, RegMap
  <2>2. <<Root>> \in Seq(Bag) /\ <<>> \in Seq(Bag)
    OBVIOUS
  <2> QED BY <1>1, <2>1, <2>2, GraphIs DEF RegsType
<1>3. CountInv
  BY <1>1, CountNone DEF CountInv
<1>4. WorkInv
  <2> SUFFICES ASSUME NEW b \in Bag, Parents(graph, b) \subseteq {} PROVE b \in Range(bag_queue)
    BY <1>1 DEF WorkInv
  <2>1. b = Root
    <3> SUFFICES ASSUME b # Root PROVE FALSE
      OBVIOUS
    <3>1. \E p \in Bag : b \in graph.children[p]
      BY <1>1, GraphIs, PathEnds
    <3> QED BY <3>1 DEF Parents
  <2> QED BY <1>1, <2>1 DEF Range
<1>5. OrderInv /\ PrecedingInv /\ SucceedingInv /\ DerivedInv
  BY <1>1 DEF OrderInv, PrecedingInv, SucceedingInv, DerivedInv
<1> QED BY <1>2, <1>3, <1>4, <1>5 DEF RInv

(* A step that only works on the queue or the stack. *)
LEMMA WorkStep ==
  ASSUME RInv, UNCHANGED <<graph, pc, fins, fin_num, regVars>>,
         bag_queue' \in Seq(Bag), bag_stack' \in Seq(Bag), WorkInv'
  PROVE  RInv'
<1>1. RegsType' /\ CountInv' /\ OrderInv'
  BY DEF RInv, RegsType, CountInv, OrderInv, regVars
<1>2. PrecedingInv'
  BY SameGraph DEF RInv, PrecedingInv, PrecedingIs, regVars
<1>3. SucceedingInv'
  BY SameGraph DEF RInv, SucceedingInv, SucceedingIs, regVars
<1>4. DerivedInv'
  BY DEF RInv, DerivedInv, Derived, regVars
<1> QED BY <1>1, <1>2, <1>3, <1>4 DEF RInv

LEMMA DropStep ==
  ASSUME RInv, NEW b \in Bag, Drop(b)
  PROVE  RInv'
<1>1. /\ pc = "pres" /\ bag_queue # <<>> /\ b = Head(bag_queue) /\ bag_queue' = Tail(bag_queue)
      /\ b \in fins \/ fin_num[b] # Cardinality(Parents(graph, b))
      /\ UNCHANGED <<graph, pc, bag_stack, fins, fin_num, regVars>>
  BY DEF Drop, Dequeue, ParentsFinished
<1>2. bag_queue \in Seq(Bag) /\ fins \subseteq Bag /\ graph \in BagGraphs
  BY DEF RInv, RegsType
<1>3. bag_queue' \in Seq(Bag) /\ Range(bag_queue) = {b} \cup Range(bag_queue')
  BY <1>1, <1>2, RangeOfTail
<1>4. ASSUME NEW c \in Bag \ fins, Parents(graph, c) \subseteq fins PROVE c \in Range(bag_queue')
  <2>1. c \in Range(bag_queue)
    BY <1>1, <1>4 DEF RInv, WorkInv
  <2>2. Parents(graph, c) \cap fins = Parents(graph, c)
    BY <1>4
  <2>3. fin_num[c] = Cardinality(Parents(graph, c))
    BY <1>1, <2>2 DEF RInv, CountInv
  <2> QED BY <1>1, <1>3, <2>1, <2>3
<1>5. WorkInv'
  BY <1>1, <1>4 DEF WorkInv
<1> QED BY <1>1, <1>2, <1>3, <1>5, WorkStep DEF RInv, RegsType

LEMMA SkipStep ==
  ASSUME RInv, NEW b \in Bag, Skip(b)
  PROVE  RInv'
<1>1. /\ pc = "sucs" /\ bag_stack # <<>> /\ b = Last(bag_stack) /\ bag_stack' = Front(bag_stack)
      /\ b \in fins /\ UNCHANGED <<graph, pc, bag_queue, fins, fin_num, regVars>>
  BY DEF Skip, Pop
<1>2. bag_stack' \in Seq(Bag) /\ Range(bag_stack) = {b} \cup Range(bag_stack')
  BY <1>1, RangeOfFront DEF RInv, RegsType
<1>3. WorkInv'
  BY <1>1, <1>2 DEF RInv, WorkInv
<1> QED BY <1>1, <1>2, <1>3, WorkStep DEF RInv, RegsType

LEMMA SearchStep ==
  ASSUME RInv, NEW b \in Bag, SearchChildren(b)
  PROVE  RInv'
<1>1. /\ pc = "sucs" /\ UNCHANGED <<graph, pc, bag_queue, fins, fin_num, regVars>>
      /\ graph \in BagGraphs /\ bag_stack \in Seq(Bag)
  BY DEF SearchChildren, Pop, RInv, RegsType
<1>2. PICK cs \in Ascending(graph.children[b] \ fins) : bag_stack' = bag_stack \o cs
  BY DEF SearchChildren
<1>3. cs \in Seq(Bag)
  <2>1. graph.children[b] \ fins \in SUBSET Bag
    BY <1>1, Neighbours
  <2> QED BY <2>1, AscendingIs
<1>4. bag_stack' \in Seq(Bag) /\ Range(bag_stack) \subseteq Range(bag_stack')
  BY <1>1, <1>2, <1>3, RangeOfConcat
<1>5. WorkInv'
  BY <1>1, <1>4 DEF RInv, WorkInv
<1> QED BY <1>1, <1>4, <1>5, WorkStep DEF RInv, RegsType

LEMMA FinishPrecedingStep ==
  ASSUME RInv, NEW b \in Bag, FinishPreceding(b)
  PROVE  RInv'
<1> DEFINE pars == Parents(graph, b)
           ld == Widest({pres_ld_rmp[p] : p \in pars} \cup {graph.own_ld[p] : p \in pars})
           str == Widest({pres_str_rmp[p] : p \in pars} \cup {graph.own_str[p] : p \in pars})
<1>1. /\ pc = "pres" /\ bag_queue # <<>> /\ b = Head(bag_queue) /\ b \notin fins
      /\ fin_num[b] = Cardinality(pars)
      /\ pres_ld_rmp' = [pres_ld_rmp EXCEPT ![b] = ld]
      /\ pres_str_rmp' = [pres_str_rmp EXCEPT ![b] = str]
      /\ fins' = fins \cup {b}
      /\ fin_num' = [c \in Bag |-> fin_num[c] + (IF c \in graph.children[b] THEN 1 ELSE 0)]
      /\ UNCHANGED <<graph, pc, bag_stack, sucs_ld_rmp, drvd_rmp>>
  BY DEF FinishPreceding, Dequeue, ParentsFinished
<1>2. PICK cs \in Ascending(graph.children[b] \ fins') : bag_queue' = Tail(bag_queue) \o cs
  BY DEF FinishPreceding
<1> HIDE DEF ld, str
<1>3. /\ graph \in BagGraphs /\ bag_queue \in Seq(Bag) /\ fins \in SUBSET Bag
      /\ fin_num \in [Bag -> Nat]
      /\ pres_ld_rmp \in [Bag -> RegMap] /\ pres_str_rmp \in [Bag -> RegMap]
  BY DEF RInv, RegsType
<1>4. pars \in SUBSET Bag /\ graph.children[b] \in SUBSET Bag
  BY <1>3, Neighbours
<1>5. pars \subseteq fins
  <2>1. Cardinality(pars \cap fins) = Cardinality(pars)
    BY <1>1 DEF RInv, CountInv
  <2> QED BY <1>3, <1>4, <2>1, AllCounted
<1>6. \A p \in pars : PrecedingIs(p)
  BY <1>4, <1>5 DEF RInv, PrecedingInv
<1>7. ld \in RegMap /\ IsWidestOf(ld, graph.own_ld, Before(b))
  <2>1. graph.own_ld \in [Bag -> RegMap]
    BY <1>3, GraphIs
  <2> QED BY <1>3, <1>6, <2>1, PrecedingStep DEF ld, PrecedingIs
<1>8. str \in RegMap /\ IsWidestOf(str, graph.own_str, Before(b))
  <2>1. graph.own_str \in [Bag -> RegMap]
    BY <1>3, GraphIs
  <2> QED BY <1>3, <1>6, <2>1, PrecedingStep DEF str, PrecedingIs
<1>9. /\ bag_queue' \in Seq(Bag)
      /\ Range(bag_queue) \ {b} \subseteq Range(bag_queue')
      /\ graph.children[b] \ fins' \subseteq Range(bag_queue')
  <2>1. cs \in Seq(Bag) /\ Range(cs) = graph.children[b] \ fins'
    <3>1. graph.children[b] \ fins' \in SUBSET Bag
      BY <1>4
    <3> QED BY <3>1, AscendingIs
  <2>2. Tail(bag_queue) \in Seq(Bag) /\ Range(bag_queue) = {b} \cup Range(Tail(bag_queue))
    BY <1>1, <1>3, RangeOfTail
  <2>3. bag_queue' \in Seq(Bag) /\ Range(bag_queue') = Range(Tail(bag_queue)) \cup Range(cs)
    BY <1>2, <2>1, <2>2, RangeOfConcat
  <2> QED BY <2>1, <2>2, <2>3
<1>10. RegsType'
  <2>1. fin_num' \in [Bag -> Nat] /\ fins' \subseteq Bag
    <3>1. ASSUME NEW c \in Bag PROVE fin_num[c] + (IF c \in graph.children[b] THEN 1 ELSE 0) \in Nat
      <4>1. fin_num[c] \in Nat
        BY <1>3
      <4>2. PICK n \in Nat : n = fin_num[c]
        BY <4>1
      <4>3. n + 1 \in Nat /\ n + 0 \in Nat
        OBVIOUS
      <4> QED BY <4>2, <4>3
    <3> QED BY <1>1, <1>3, <3>1
  <2>2. pres_ld_rmp' \in [Bag -> RegMap] /\ pres_str_rmp' \in [Bag -> RegMap]
    BY <1>1, <1>3, <1>7, <1>8
  <2> QED BY <1>1, <1>9, <2>1, <2>2 DEF RInv, RegsType
<1>11. CountInv'
  <2> SUFFICES ASSUME NEW c \in Bag PROVE fin_num'[c] = Cardinality(Parents(graph, c) \cap fins')
    BY <1>1 DEF CountInv
  <2>1. fin_num[c] = Cardinality(Parents(graph, c) \cap fins)
    BY <1>1 DEF RInv, CountInv
  <2>2. Parents(graph, c) \in SUBSET Bag /\ (c \in graph.children[b] <=> b \in Parents(graph, c))
    BY <1>3, Neighbours
  <2>3. Cardinality(Parents(graph, c) \cap (fins \cup {b}))
          = Cardinality(Parents(graph, c) \cap fins) + (IF b \in Parents(graph, c) THEN 1 ELSE 0)
    <3>1. b \in Bag \ fins
      BY <1>1
    <3>2. PICK S \in SUBSET Bag : S = Parents(graph, c)
      BY <2>2
    <3>3. Cardinality(S \cap (fins \cup {b}))
            = Cardinality(S \cap fins) + (IF b \in S THEN 1 ELSE 0)
      BY <1>3, <3>1, CountOne
    <3> QED BY <3>2, <3>3
  <2> QED BY <1>1, <2>1, <2>2, <2>3
<1>12. OrderInv'
  BY <1>1, <1>5 DEF RInv, OrderInv
<1>13. WorkInv'
  <2> SUFFICES ASSUME NEW c \in Bag \ fins', Parents(graph, c) \subseteq fins'
               PROVE  c \in Range(bag_queue')
    BY <1>1 DEF WorkInv
  <2>1. CASE b \in Parents(graph, c)
    <3>1. c \in graph.children[b]
      BY <1>3, <2>1, Neighbours
    <3> QED BY <1>9, <3>1
  <2>2. CASE b \notin Parents(graph, c)
    <3>1. Parents(graph, c) \subseteq fins /\ c \notin fins /\ c # b
      BY <1>1, <2>2
    <3>2. c \in Range(bag_queue)
      BY <1>1, <3>1 DEF RInv, WorkInv
    <3> QED BY <1>9, <3>1, <3>2
  <2> QED BY <2>1, <2>2
<1>14. PrecedingInv'
  <2> SUFFICES ASSUME NEW c \in fins', c \in Bag
               PROVE  /\ IsWidestOf(pres_ld_rmp'[c], graph.own_ld, Before(c))
                      /\ IsWidestOf(pres_str_rmp'[c], graph.own_str, Before(c))
    BY <1>1, SameGraph DEF PrecedingInv, PrecedingIs
  <2>1. CASE c = b
    BY <1>1, <1>3, <1>7, <1>8, <2>1
  <2>2. CASE c # b
    <3>1. PrecedingIs(c)
      BY <1>1, <2>2 DEF RInv, PrecedingInv
    <3> QED BY <1>1, <1>3, <2>2, <3>1 DEF PrecedingIs
  <2> QED BY <2>1, <2>2
<1>15. SucceedingInv' /\ DerivedInv'
  BY <1>1 DEF RInv, SucceedingInv, DerivedInv
<1> QED BY <1>10, <1>11, <1>12, <1>13, <1>14, <1>15 DEF RInv

LEMMA AllFinished ==
  ASSUME fins \subseteq Bag, Cardinality(fins) = bag_num
  PROVE  fins = Bag
BY FS_Subset DEF bag_num

LEMMA PrecedingDoneStep ==
  ASSUME RInv, PrecedingDone
  PROVE  RInv'
<1>1. /\ pc = "pres" /\ pc' = "sucs" /\ bag_stack' = <<Root>> /\ fins' = {}
      /\ fin_num' = [b \in Bag |-> 0] /\ UNCHANGED <<graph, bag_queue, regVars>>
  BY DEF PrecedingDone
<1>2. fins = Bag
  BY AllFinished DEF PrecedingDone, RInv, RegsType
<1>3. RegsType'
  <2>1. <<Root>> \in Seq(Bag)
    OBVIOUS
  <2> QED BY <1>1, <2>1 DEF RInv, RegsType, regVars
<1>4. CountInv' /\ OrderInv'
  BY <1>1, CountNone DEF CountInv, OrderInv
<1>5. WorkInv'
  BY <1>1 DEF WorkInv, Range
<1>6. PrecedingInv'
  BY <1>1, <1>2, SameGraph DEF RInv, PrecedingInv, PrecedingIs, regVars
<1>7. SucceedingInv' /\ DerivedInv'
  BY <1>1 DEF RInv, SucceedingInv, DerivedInv, regVars
<1> QED BY <1>3, <1>4, <1>5, <1>6, <1>7 DEF RInv


LEMMA FinishSucceedingStep ==
  ASSUME RInv, NEW b \in Bag, FinishSucceeding(b)
  PROVE  RInv'
<1> DEFINE chn == graph.children[b]
           own == IF chn = {} THEN {} ELSE {graph.own_ld[b]}
           M == {sucs_ld_rmp[b]} \cup own \cup {sucs_ld_rmp[c] : c \in chn}
<1>1. /\ pc = "sucs" /\ bag_stack # <<>> /\ b = Last(bag_stack) /\ b \notin fins
      /\ fin_num[b] = Cardinality(chn)
      /\ sucs_ld_rmp' = [sucs_ld_rmp EXCEPT ![b] = Widest(M)]
      /\ fins' = fins \cup {b}
      /\ fin_num' = [p \in Bag |-> fin_num[p] + (IF b \in graph.children[p] THEN 1 ELSE 0)]
      /\ bag_stack' = Front(bag_stack)
      /\ UNCHANGED <<graph, pc, bag_queue, pres_ld_rmp, pres_str_rmp, drvd_rmp>>
  BY DEF FinishSucceeding, Pop
<1>2. /\ graph \in BagGraphs /\ bag_stack \in Seq(Bag) /\ fins \in SUBSET Bag
      /\ fin_num \in [Bag -> Nat] /\ sucs_ld_rmp \in [Bag -> RegMap]
  BY DEF RInv, RegsType
<1>3. chn \in SUBSET Bag /\ graph.own_ld \in [Bag -> RegMap]
  BY <1>2, Neighbours, GraphIs
<1>4. chn \subseteq fins
  <2>1. Cardinality(chn \cap fins) = Cardinality(chn)
    BY <1>1 DEF RInv, CountInv
  <2> QED BY <1>2, <1>3, <2>1, AllCounted
<1>5. IsFiniteSet(M) /\ M \subseteq RegMap
  <2>1. IsFiniteSet({sucs_ld_rmp[c] : c \in chn})
    BY <1>3, FiniteImage
  <2>2. IsFiniteSet({sucs_ld_rmp[b]} \cup own)
    BY FS_Singleton, FS_EmptySet, FS_Union
  <2>3. IsFiniteSet(M)
    BY <2>1, <2>2, FS_Union
  <2> QED BY <1>2, <1>3, <2>3
<1>6. /\ Widest(M) \in RegMap
      /\ \A r \in Reg : /\ sucs_ld_rmp[b][r] <= Widest(M)[r]
                        /\ chn # {} => graph.own_ld[b][r] <= Widest(M)[r]
                        /\ \A c \in chn : sucs_ld_rmp[c][r] <= Widest(M)[r]
  <2>1. Widest(M) \in RegMap /\ \A m \in M, r \in Reg : m[r] <= Widest(M)[r]
    BY <1>5, WidestIs
  <2> QED BY <2>1
<1> HIDE DEF M, own
<1>7. ASSUME NEW c \in Behind(b) \cup {b}, NEW r \in Reg, KeepsLoads(c)
      PROVE  graph.own_ld[c][r] <= Widest(M)[r]
  <2>1. CASE c = b /\ chn # {}
    BY <1>6, <2>1
  <2>2. CASE c = b /\ chn = {}
    <3>1. sucs_ld_rmp[b] = graph.first_ld[b]
      BY <1>1 DEF RInv, SucceedingInv
    <3>2. graph.first_ld[b] = graph.own_ld[b]
      BY <1>7, <2>2 DEF KeepsLoads
    <3> QED BY <1>6, <2>2, <3>1, <3>2
  <2>3. CASE c \in Behind(b)
    <3>1. PICK d \in chn : c \in {d} \cup Behind(d)
      BY <1>2, <2>3, BehindIs
    <3>2. d \in Bag /\ c \in Bag
      BY <1>3, <2>3 DEF Behind
    <3>3. graph.own_ld[c][r] <= sucs_ld_rmp[d][r]
      <4>1. SucceedingIs(d)
        BY <1>1, <1>4, <1>7, <3>1, <3>2 DEF RInv, SucceedingInv
      <4> QED BY <1>7, <3>1, <4>1 DEF SucceedingIs
    <3>4. sucs_ld_rmp[d][r] <= Widest(M)[r]
      BY <1>6, <3>1
    <3>5. graph.own_ld[c][r] \in Nat /\ sucs_ld_rmp[d][r] \in Nat /\ Widest(M)[r] \in Nat
      BY <1>2, <1>3, <1>6, <3>2, WidthOf
    <3> QED BY <3>3, <3>4, <3>5
  <2> QED BY <2>1, <2>2, <2>3
<1>8. bag_stack' \in Seq(Bag) /\ Range(bag_stack) = {b} \cup Range(bag_stack')
  BY <1>1, <1>2, RangeOfFront
<1>9. RegsType'
  <2>1. fin_num' \in [Bag -> Nat] /\ fins' \subseteq Bag
    <3>1. ASSUME NEW p \in Bag PROVE fin_num[p] + (IF b \in graph.children[p] THEN 1 ELSE 0) \in Nat
      <4>1. fin_num[p] \in Nat
        BY <1>2
      <4>2. PICK n \in Nat : n = fin_num[p]
        BY <4>1
      <4>3. n + 1 \in Nat /\ n + 0 \in Nat
        OBVIOUS
      <4> QED BY <4>2, <4>3
    <3> QED BY <1>1, <1>2, <3>1
  <2>2. sucs_ld_rmp' \in [Bag -> RegMap]
    BY <1>1, <1>2, <1>6
  <2> QED BY <1>1, <1>8, <2>1, <2>2 DEF RInv, RegsType
<1>10. CountInv'
  <2> SUFFICES ASSUME NEW p \in Bag PROVE fin_num'[p] = Cardinality(graph.children[p] \cap fins')
    BY <1>1 DEF CountInv
  <2>1. fin_num[p] = Cardinality(graph.children[p] \cap fins)
    BY <1>1 DEF RInv, CountInv
  <2>2. graph.children[p] \in SUBSET Bag /\ b \in Bag \ fins
    BY <1>1, <1>2, Neighbours
  <2>3. Cardinality(graph.children[p] \cap (fins \cup {b}))
          = Cardinality(graph.children[p] \cap fins) + (IF b \in graph.children[p] THEN 1 ELSE 0)
    BY <1>2, <2>2, CountOne
  <2> QED BY <1>1, <2>1, <2>3
<1>11. OrderInv'
  BY <1>1, <1>4 DEF RInv, OrderInv
<1>12. WorkInv'
  BY <1>1, <1>8 DEF RInv, WorkInv
<1>13. PrecedingInv'
  BY <1>1, SameGraph DEF RInv, PrecedingInv, PrecedingIs
<1>14. SucceedingInv'
  <2> SUFFICES ASSUME NEW c \in Bag
               PROVE  /\ c \notin fins' => sucs_ld_rmp'[c] = graph.first_ld[c]
                      /\ c \in fins' => SucceedingIs(c)'
    BY <1>1, SameGraph DEF SucceedingInv
  <2>1. CASE c = b
    <3>1. sucs_ld_rmp'[c] = Widest(M)
      BY <1>1, <1>2, <2>1
    <3> QED BY <1>1, <1>7, <2>1, <3>1, SameGraph DEF SucceedingIs
  <2>2. CASE c # b
    <3>1. sucs_ld_rmp'[c] = sucs_ld_rmp[c] /\ (c \in fins' <=> c \in fins)
      BY <1>1, <1>2, <2>2
    <3>2. /\ c \notin fins => sucs_ld_rmp[c] = graph.first_ld[c]
          /\ c \in fins => SucceedingIs(c)
      BY <1>1 DEF RInv, SucceedingInv
    <3> QED BY <1>1, <3>1, <3>2, SameGraph DEF SucceedingIs
  <2> QED BY <2>1, <2>2
<1>15. DerivedInv'
  BY <1>1 DEF DerivedInv
<1> QED BY <1>9, <1>10, <1>11, <1>12, <1>13, <1>14, <1>15 DEF RInv

LEMMA SucceedingDoneStep ==
  ASSUME RInv, SucceedingDone
  PROVE  RInv'
<1>1. /\ pc = "sucs" /\ pc' = "drvd" /\ fins' = {}
      /\ UNCHANGED <<graph, bag_queue, bag_stack, fin_num, regVars>>
  BY DEF SucceedingDone
<1>2. fins = Bag
  BY AllFinished DEF SucceedingDone, RInv, RegsType
<1>3. RegsType' /\ CountInv' /\ OrderInv' /\ WorkInv' /\ DerivedInv'
  BY <1>1 DEF RInv, RegsType, CountInv, OrderInv, WorkInv, DerivedInv, regVars
<1>4. PrecedingInv'
  BY <1>1, SameGraph DEF RInv, PrecedingInv, PrecedingIs, regVars
<1>5. SucceedingInv'
  BY <1>1, <1>2, SameGraph DEF RInv, SucceedingInv, SucceedingIs, regVars
<1> QED BY <1>3, <1>4, <1>5 DEF RInv

(* What a bag derives: the loads of a loop, and what is live.              *)
LEMMA DerivedIs ==
  ASSUME RegsType, NEW b \in Bag
  PROVE  /\ Derived(b) \in RegMap
         /\ graph.is_loop[b] => \A r \in Reg : graph.own_ld[b][r] <= Derived(b)[r]
         /\ \A r \in Reg : sucs_ld_rmp[b][r] # 0 =>
              pres_ld_rmp[b][r] <= Derived(b)[r] /\ pres_str_rmp[b][r] <= Derived(b)[r]
<1> DEFINE args == [r \in Reg |-> IF r \in ArgRegs THEN pres_str_rmp[b][r] ELSE 0]
           loop == IF graph.is_loop[b] THEN graph.own_ld[b] ELSE NoRegs
           pre == Widest({pres_ld_rmp[b], pres_str_rmp[b]})
           live == [r \in Reg |-> IF sucs_ld_rmp[b][r] # 0 THEN pre[r] ELSE 0]
<1>1. pres_ld_rmp[b] \in RegMap /\ pres_str_rmp[b] \in RegMap /\ sucs_ld_rmp[b] \in RegMap
  BY DEF RegsType
<1>2. pre \in RegMap /\ \A r \in Reg : pres_ld_rmp[b][r] <= pre[r] /\ pres_str_rmp[b][r] <= pre[r]
  <2>1. IsFiniteSet({pres_ld_rmp[b], pres_str_rmp[b]})
    BY FewAreFinite
  <2> QED BY <1>1, <2>1, WidestIs
<1> HIDE DEF pre
<1>3. args \in RegMap /\ live \in RegMap
  BY <1>1, <1>2 DEF RegMap
<1>4. loop \in RegMap /\ (graph.is_loop[b] => loop = graph.own_ld[b])
  <2>1. NoRegs \in RegMap
    BY DEF NoRegs, RegMap
  <2> QED BY <2>1, GraphIs DEF RegsType
<1>5. \A r \in Reg : sucs_ld_rmp[b][r] # 0 => live[r] = pre[r]
  OBVIOUS
<1>6. Derived(b) = Widest({args, loop, live})
  BY DEF Derived, pre
<1> HIDE DEF args, loop, live
<1>7. Derived(b) \in RegMap /\ \A r \in Reg : live[r] <= Derived(b)[r] /\ loop[r] <= Derived(b)[r]
  <2>1. IsFiniteSet({args, loop, live})
    BY FewAreFinite
  <2> QED BY <1>3, <1>4, <1>6, <2>1, WidestIs
<1>8. ASSUME NEW r \in Reg, sucs_ld_rmp[b][r] # 0
      PROVE  pres_ld_rmp[b][r] <= Derived(b)[r] /\ pres_str_rmp[b][r] <= Derived(b)[r]
  <2>1. /\ pres_ld_rmp[b][r] <= pre[r] /\ pres_str_rmp[b][r] <= pre[r] /\ pre[r] <= Derived(b)[r]
    BY <1>2, <1>5, <1>7, <1>8
  <2>2. /\ pres_ld_rmp[b][r] \in Nat /\ pres_str_rmp[b][r] \in Nat /\ pre[r] \in Nat
        /\ Derived(b)[r] \in Nat
    BY <1>1, <1>2, <1>7, WidthOf
  <2> QED BY <2>1, <2>2
<1> QED BY <1>4, <1>7, <1>8

LEMMA DeriveStep ==
  ASSUME RInv, NEW b \in Bag, Derive(b)
  PROVE  RInv'
<1>1. /\ pc = "drvd" /\ b \in Bag \ fins
      /\ drvd_rmp' = [drvd_rmp EXCEPT ![b] = Derived(b)] /\ fins' = fins \cup {b}
      /\ UNCHANGED <<graph, pc, bag_queue, bag_stack, fin_num, pres_ld_rmp, pres_str_rmp, sucs_ld_rmp>>
  BY DEF Derive
<1>2. drvd_rmp \in [Bag -> RegMap] /\ Derived(b) \in RegMap
  BY DerivedIs DEF RInv, RegsType
<1>3. RegsType'
  <2>1. drvd_rmp' \in [Bag -> RegMap] /\ fins' \subseteq Bag
    BY <1>1, <1>2 DEF RInv, RegsType
  <2> QED BY <1>1, <2>1 DEF RInv, RegsType
<1>4. CountInv' /\ OrderInv' /\ WorkInv'
  BY <1>1 DEF CountInv, OrderInv, WorkInv
<1>5. PrecedingInv'
  BY <1>1, SameGraph DEF RInv, PrecedingInv, PrecedingIs
<1>6. SucceedingInv'
  BY <1>1, SameGraph DEF RInv, SucceedingInv, SucceedingIs
<1>7. DerivedInv'
  <2> SUFFICES ASSUME NEW c \in Bag, c \in fins' PROVE drvd_rmp'[c] = Derived(c)'
    BY <1>1 DEF DerivedInv
  <2>1. Derived(c)' = Derived(c)
    BY <1>1 DEF Derived
  <2>2. CASE c = b
    BY <1>1, <1>2, <2>1, <2>2
  <2>3. CASE c # b
    <3>1. drvd_rmp[c] = Derived(c)
      BY <1>1, <2>3 DEF RInv, DerivedInv
    <3> QED BY <1>1, <1>2, <2>1, <2>3, <3>1
  <2> QED BY <2>2, <2>3
<1> QED BY <1>3, <1>4, <1>5, <1>6, <1>7 DEF RInv

LEMMA DerivedDoneStep ==
  ASSUME RInv, DerivedDone
  PROVE  RInv'
<1>1. /\ pc = "drvd" /\ fins = Bag /\ pc' = "done"
      /\ UNCHANGED <<graph, bag_queue, bag_stack, fins, fin_num, regVars>>
  BY DEF DerivedDone
<1>2. RegsType' /\ CountInv' /\ OrderInv' /\ WorkInv'
  BY <1>1 DEF RInv, RegsType, CountInv, OrderInv, WorkInv, regVars
<1>3. PrecedingInv'
  BY <1>1, SameGraph DEF RInv, PrecedingInv, PrecedingIs, regVars
<1>4. SucceedingInv'
  BY <1>1, SameGraph DEF RInv, SucceedingInv, SucceedingIs, regVars
<1>5. DerivedInv'
  BY <1>1 DEF RInv, DerivedInv, Derived, regVars
<1> QED BY <1>2, <1>3, <1>4, <1>5 DEF RInv

LEMMA NextRInv == RInv /\ [Next]_vars => RInv'
<1> SUFFICES ASSUME RInv, [Next]_vars PROVE RInv'
  OBVIOUS
<1>1. CASE UNCHANGED vars
  <2>1. WorkInv' /\ bag_queue' \in Seq(Bag) /\ bag_stack' \in Seq(Bag)
    BY <1>1 DEF RInv, RegsType, WorkInv, vars
  <2> QED BY <1>1, <2>1, WorkStep DEF vars
<1>2. ASSUME NEW b \in Bag,
             \/ Drop(b) \/ FinishPreceding(b)
             \/ Skip(b) \/ SearchChildren(b) \/ FinishSucceeding(b)
             \/ Derive(b)
      PROVE  RInv'
  BY <1>2, DropStep, FinishPrecedingStep, SkipStep, SearchStep, FinishSucceedingStep, DeriveStep
<1> QED BY <1>1, <1>2, PrecedingDoneStep, SucceedingDoneStep, DerivedDoneStep DEF Next, Done

-----------------------------------------------------------------------------
(***************************************************************************)
(* The theorems.                                                           *)
(***************************************************************************)
(* What the two passes and the combination of their results rest on holds  *)
(* always, for every acyclic graph of bags behind a root.                  *)
THEOREM RegsInductive == Spec => []RInv
BY InitRInv, NextRInv, PTL DEF Spec

(* The work lists hold bags, and every bag has a map of register widths    *)
(* for what is accessed before it, behind it, and derived.                 *)
THEOREM TypeCorrect == Spec => []TypeOK
<1>1. RInv => TypeOK
  BY BagGraphsAssumption DEF RInv, RegsType, TypeOK
<1> QED BY <1>1, RegsInductive, PTL

(* A bag that GetPrecedingVirtualRegsBags has finished knows the widest    *)
(* load and store of every register on every path to it, and nothing else. *)
THEOREM PrecedingTheorem == Spec => []PrecedingIsComplete
<1>1. RInv => PrecedingIsComplete
  BY DEF RInv, RegsType, PrecedingInv, PrecedingIs, PrecedingIsComplete
<1> QED BY <1>1, RegsInductive, PTL

(* The CHECKs behind both passes hold: when the queue, or the stack, is    *)
(* empty, every bag has been finished.                                     *)
THEOREM NoBagTheorem == Spec => []NoBagIsForgotten
<1>1. ASSUME RInv, pc = "pres", bag_queue = <<>> PROVE fins = Bag
  <2>1. graph \in BagGraphs /\ fins \in SUBSET Bag /\ Range(bag_queue) = {}
    BY <1>1 DEF RInv, RegsType, Range
  <2>2. \A b \in Bag \ fins : ~ Parents(graph, b) \subseteq fins
    BY <1>1, <2>1 DEF RInv, WorkInv
  <2> QED BY <2>1, <2>2, FirstUnfinished
<1>2. ASSUME RInv, pc = "sucs", bag_stack = <<>> PROVE fins = Bag
  <2>1. graph \in BagGraphs /\ fins \in SUBSET Bag /\ Range(bag_stack) = {}
    BY <1>2 DEF RInv, RegsType, Range
  <2>2. Root \in fins /\ \A b \in fins : graph.children[b] \subseteq fins
    BY <1>2, <2>1 DEF RInv, WorkInv, OrderInv
  <2> QED BY <2>1, <2>2, RootReachesAll
<1>3. RInv => NoBagIsForgotten
  BY <1>1, <1>2 DEF NoBagIsForgotten
<1> QED BY <1>3, RegsInductive, PTL

(***************************************************************************)
(* What is derived in every graph: a register that was accessed before a   *)
(* bag and is loaded in it or behind it, but for the loads of a loop       *)
(* behind it that is not left again.                                       *)
(***************************************************************************)
LoadIsSeen(b, r, v) ==
  \E c \in Behind(b) \cup {b} : graph.own_ld[c][r] = v /\ (c = b \/ KeepsLoads(c))

SeenRegsAreDerived ==
  pc = "done" =>
    \A b \in Bag, r \in Reg, w, v \in Width \ {0} :
      AccessedBefore(b, r, w) /\ LoadIsSeen(b, r, v)
        => w <= drvd_rmp[b][r] \/ v <= drvd_rmp[b][r]

(* The only loads GetPhiRegsBags misses are those of a loop without exit,  *)
(* in the bags before that loop.                                           *)
THEOREM SeenTheorem == Spec => []SeenRegsAreDerived
<1>1. ASSUME RInv, pc = "done", NEW b \in Bag, NEW r \in Reg,
             NEW w \in Width \ {0}, NEW v \in Width \ {0},
             AccessedBefore(b, r, w), LoadIsSeen(b, r, v)
      PROVE  w <= drvd_rmp[b][r] \/ v <= drvd_rmp[b][r]
  <2>1. /\ pres_ld_rmp[b] \in RegMap /\ pres_str_rmp[b] \in RegMap /\ sucs_ld_rmp[b] \in RegMap
        /\ graph \in BagGraphs /\ RegsType /\ drvd_rmp[b] = Derived(b)
    BY <1>1 DEF RInv, RegsType, DerivedInv
  <2>2. PICK c \in Behind(b) \cup {b} : graph.own_ld[c][r] = v /\ (c = b \/ KeepsLoads(c))
    BY <1>1 DEF LoadIsSeen
  <2>3. CASE ~ KeepsLoads(c)
    <3>1. c = b /\ graph.is_loop[b]
      BY <2>1, <2>2, <2>3, BagGraphsAssumption DEF KeepsLoads, WellFormed
    <3>2. graph.own_ld[b][r] <= Derived(b)[r]
      BY <2>1, <3>1, DerivedIs
    <3>3. v <= drvd_rmp[b][r]
      BY <2>1, <2>2, <3>1, <3>2
    <3> QED BY <3>3
  <2>4. CASE KeepsLoads(c)
    <3>1. sucs_ld_rmp[b][r] # 0
      <4>1. SucceedingIs(b)
        BY <1>1 DEF RInv, SucceedingInv
      <4>2. v <= sucs_ld_rmp[b][r]
        BY <2>2, <2>4, <4>1 DEF SucceedingIs
      <4>3. sucs_ld_rmp[b][r] \in Nat /\ v \in Nat \ {0}
        BY <2>1, WidthOf
      <4> QED BY <4>2, <4>3
    <3>2. w <= pres_ld_rmp[b][r] \/ w <= pres_str_rmp[b][r]
      <4>1. PICK a \in Before(b) : w \in {graph.own_ld[a][r], graph.own_str[a][r]}
        BY <1>1 DEF AccessedBefore
      <4>2. PrecedingIs(b)
        BY <1>1 DEF RInv, PrecedingInv
      <4> QED BY <4>1, <4>2 DEF PrecedingIs, IsWidestOf
    <3>3. /\ Derived(b) \in RegMap
          /\ pres_ld_rmp[b][r] <= Derived(b)[r] /\ pres_str_rmp[b][r] <= Derived(b)[r]
      BY <2>1, <3>1, DerivedIs
    <3>4. /\ w \in Nat /\ Derived(b)[r] \in Nat
          /\ pres_ld_rmp[b][r] \in Nat /\ pres_str_rmp[b][r] \in Nat
      BY <2>1, <3>3, WidthOf
    <3> QED BY <2>1, <3>2, <3>3, <3>4
  <2> QED BY <2>3, <2>4
<1>2. RInv => SeenRegsAreDerived
  BY <1>1 DEF SeenRegsAreDerived
<1> QED BY <1>2, RegsInductive, PTL

(* No loop without exit lacks a load of its blocks, so all of them have an *)
(* exit or no more loads than the block they started from.                 *)
LoopsAreLeft == \A b \in Bag : graph.children[b] = {} => graph.first_ld[b] = graph.own_ld[b]

(* Then GetPhiRegsBags derives every register that was accessed before a   *)
(* bag and is loaded in it or behind it.                                   *)
THEOREM LiveTheorem == Spec => [](LoopsAreLeft => LiveRegsAreDerived)
<1>1. SeenRegsAreDerived => (LoopsAreLeft => LiveRegsAreDerived)
  <2> SUFFICES ASSUME SeenRegsAreDerived, LoopsAreLeft, pc = "done",
                      NEW b \in Bag, NEW r \in Reg,
                      NEW w \in Width \ {0}, NEW v \in Width \ {0},
                      AccessedBefore(b, r, w), LoadedFrom(b, r, v)
               PROVE  w <= drvd_rmp[b][r] \/ v <= drvd_rmp[b][r]
    BY DEF LiveRegsAreDerived
  <2>1. PICK c \in Behind(b) \cup {b} : graph.own_ld[c][r] = v
    BY DEF LoadedFrom
  <2>2. c \in Bag
    BY <2>1 DEF Behind
  <2>3. KeepsLoads(c)
    BY <2>2 DEF LoopsAreLeft, KeepsLoads
  <2>4. LoadIsSeen(b, r, v)
    BY <2>1, <2>3 DEF LoadIsSeen
  <2> QED BY <2>4 DEF SeenRegsAreDerived
<1> QED BY <1>1, SeenTheorem, PTL
=============================================================================
