------------------------- MODULE SystemCalls_proofs -------------------------
(***************************************************************************)
(* BytesAreItsOwnUntilBrk for all section tables, sizes of the areas and   *)
(* numbers of maps.  As long as brk is not used after mmap, what mmap gave *)
(* away lies above the break and one map above the other, below heap_cur;  *)
(* and two addresses never share a byte, so areas that are apart in the    *)
(* guest are apart in the host.  And AnswersItself: the switch leaves the   *)
(* case of the call only from a case without a break.                      *)
(***************************************************************************)
EXTENDS SystemCalls, TLAPS

USE AreasAssumption

MemoryType ==
  /\ sections \in SectionTables
  /\ heap_cur \in Nat
  /\ break_area \in Nat \X Nat
  /\ maps \in Seq(Nat \X Nat)
  /\ mixed \in BOOLEAN

BreakIsBelow ==
  /\ HeapStart <= heap_cur
  /\ \/ break_area = NoBreak
     \/ HeapStart <= break_area[1] /\ break_area[1] <= break_area[2]
  /\ break_area[2] <= heap_cur

MapsAreStacked ==
  /\ \A i \in DOMAIN maps :
       /\ HeapStart <= maps[i][1] /\ break_area[2] <= maps[i][1]
       /\ maps[i][1] <= maps[i][2] /\ maps[i][2] <= heap_cur
  /\ \A i, j \in DOMAIN maps : i < j => maps[i][2] <= maps[j][1]

SInv == MemoryType /\ (~mixed => BreakIsBelow /\ MapsAreStacked)

-----------------------------------------------------------------------------
LEMMA SInit == Init => SInv
<1> SUFFICES ASSUME Init
             PROVE  SInv
  OBVIOUS
<1>1. heap_cur = HeapStart /\ break_area = <<0, 0>> /\ maps = <<>> /\ mixed = FALSE
  BY DEF Init, NoBreak
<1>2. MemoryType
  <2>1. sections \in SectionTables
    BY DEF Init
  <2>2. <<0, 0>> \in Nat \X Nat /\ maps \in Seq(Nat \X Nat)
    BY <1>1
  <2>3. heap_cur \in Nat
    BY <1>1
  <2> QED  BY <1>1, <2>1, <2>2, <2>3 DEF MemoryType
<1>3. BreakIsBelow
  BY <1>1 DEF BreakIsBelow, NoBreak
<1>4. MapsAreStacked
  BY <1>1 DEF MapsAreStacked
<1> QED  BY <1>2, <1>3, <1>4 DEF SInv

LEMMA BrkQueryStep ==
  ASSUME SInv, BrkQuery
  PROVE  SInv'
<1> USE DEF SInv
<1>1. /\ UNCHANGED <<sections, heap_cur, maps>> /\ mixed' = (mixed \/ maps # <<>>)
      /\ break_area' = IF break_area = NoBreak THEN <<heap_cur, heap_cur>>
                       ELSE <<break_area[1], heap_cur>>
  BY DEF BrkQuery, EndOfCase
<1>2. MemoryType'
  BY <1>1 DEF MemoryType
<1>3. ASSUME ~mixed'
      PROVE  BreakIsBelow' /\ MapsAreStacked'
  <2>1. ~mixed /\ maps = <<>>
    BY <1>1, <1>3
  <2>2. break_area'[2] = heap_cur
    BY <1>1
  <2>3. HeapStart <= break_area'[1] /\ break_area'[1] <= heap_cur
    BY <1>1, <2>1 DEF BreakIsBelow, MemoryType
  <2> QED  BY <1>1, <2>1, <2>2, <2>3 DEF BreakIsBelow, MapsAreStacked, MemoryType
<1> QED  BY <1>2, <1>3

LEMMA BrkMoveStep ==
  ASSUME SInv, NEW a \in HeapStart .. HeapEnd, BrkMove(a)
  PROVE  SInv'
<1> USE DEF SInv
<1>1. /\ UNCHANGED <<sections, maps>> /\ mixed' = (mixed \/ maps # <<>>)
      /\ break_area # NoBreak /\ break_area[1] <= a
      /\ heap_cur' = a /\ break_area' = <<break_area[1], a>>
      /\ a \in Nat /\ HeapStart <= a
  BY DEF BrkMove, EndOfCase, HeapEnd
<1>2. MemoryType'
  BY <1>1 DEF MemoryType
<1>3. ASSUME ~mixed'
      PROVE  BreakIsBelow' /\ MapsAreStacked'
  <2>1. ~mixed /\ maps = <<>>
    BY <1>1, <1>3
  <2>2. break_area'[2] = a /\ break_area'[1] = break_area[1]
    BY <1>1
  <2> QED  BY <1>1, <2>1, <2>2 DEF BreakIsBelow, MapsAreStacked
<1> QED  BY <1>2, <1>3

LEMMA MmapStep ==
  ASSUME SInv, NEW n \in Lengths, Mmap(n)
  PROVE  SInv'
<1> USE DEF SInv
<1>1. /\ UNCHANGED <<sections, break_area, mixed>>
      /\ maps' = Append(maps, <<heap_cur, heap_cur + n>>) /\ heap_cur' = heap_cur + n
  BY DEF Mmap, EndOfCase
<1>2. n \in Nat
  BY LengthsAssumption
<1>3. MemoryType'
  BY <1>1, <1>2 DEF MemoryType
<1>4. ASSUME ~mixed
      PROVE  BreakIsBelow' /\ MapsAreStacked'
  <2>1. /\ DOMAIN maps' = 1 .. Len(maps) + 1 /\ DOMAIN maps = 1 .. Len(maps) /\ Len(maps) \in Nat
        /\ \A i \in DOMAIN maps : maps'[i] = maps[i]
        /\ maps'[Len(maps) + 1] = <<heap_cur, heap_cur + n>>
    BY <1>1, <1>2 DEF MemoryType
  <2>2. \A i \in DOMAIN maps : maps[i][1] \in Nat /\ maps[i][2] \in Nat
    BY DEF MemoryType
  <2>3. heap_cur <= heap_cur' /\ break_area[2] \in Nat
    BY <1>1, <1>2 DEF MemoryType
  <2>4. BreakIsBelow'
    BY <1>1, <1>2, <1>4 DEF BreakIsBelow, MemoryType
  <2>5. ASSUME NEW i \in DOMAIN maps'
        PROVE  /\ HeapStart <= maps'[i][1] /\ break_area'[2] <= maps'[i][1]
               /\ maps'[i][1] <= maps'[i][2] /\ maps'[i][2] <= heap_cur'
    <3>1. CASE i \in DOMAIN maps
      <4>1. maps'[i] = maps[i] /\ break_area' = break_area
        BY <1>1, <2>1, <3>1
      <4>2. /\ HeapStart <= maps[i][1] /\ break_area[2] <= maps[i][1]
            /\ maps[i][1] <= maps[i][2] /\ maps[i][2] <= heap_cur
        BY <1>4, <3>1 DEF MapsAreStacked
      <4>3. maps[i][2] <= heap_cur'
        BY <2>2, <2>3, <3>1, <4>2, <1>1, <1>2 DEF MemoryType
      <4> QED  BY <4>1, <4>2, <4>3
    <3>2. CASE i = Len(maps) + 1
      BY <1>1, <1>2, <1>4, <2>1, <3>2 DEF BreakIsBelow, MemoryType
    <3> QED  BY <2>1, <3>1, <3>2
  <2>6. ASSUME NEW i \in DOMAIN maps', NEW j \in DOMAIN maps', i < j
        PROVE  maps'[i][2] <= maps'[j][1]
    <3>1. i \in DOMAIN maps
      BY <2>1, <2>6
    <3>2. CASE j \in DOMAIN maps
      BY <1>4, <2>1, <2>6, <3>1, <3>2 DEF MapsAreStacked
    <3>3. CASE j = Len(maps) + 1
      BY <1>4, <2>1, <3>1, <3>3 DEF MapsAreStacked
    <3> QED  BY <2>1, <3>2, <3>3
  <2> QED  BY <2>4, <2>5, <2>6 DEF MapsAreStacked
<1> QED  BY <1>1, <1>3, <1>4

LEMMA SNext == SInv /\ [Next]_vars => SInv'
<1> SUFFICES ASSUME SInv, [Next]_vars
             PROVE  SInv'
  OBVIOUS
<1>1. CASE BrkQuery
  BY <1>1, BrkQueryStep
<1>2. CASE \E a \in HeapStart .. HeapEnd : BrkMove(a)
  BY <1>2, BrkMoveStep
<1>3. CASE \E n \in Lengths : Mmap(n)
  BY <1>3, MmapStep
<1>4. CASE UNCHANGED <<sections, memoryVars>>
  BY <1>4 DEF memoryVars, SInv, MemoryType, BreakIsBelow, MapsAreStacked
<1>5. \/ BrkQuery \/ \E a \in HeapStart .. HeapEnd : BrkMove(a)
      \/ \E n \in Lengths : Mmap(n)
      \/ UNCHANGED <<sections, memoryVars>>
  BY DEF Next, vars, Svc, Answer, IgnoredIoctl, Exit, ExitGroupReturns, Refuse, Ended, EndOfCase
<1> QED  BY <1>1, <1>2, <1>3, <1>4, <1>5

LEMMA SInvariance == Spec => []SInv
BY SInit, SNext, PTL DEF Spec

-----------------------------------------------------------------------------
(* Translation of an address. *)
LEMMA TableIs ==
  ASSUME MemoryType
  PROVE  /\ \A i \in Mapped : /\ i \in DOMAIN sections
                            /\ sections[i].vma \in Nat /\ sections[i].len \in Nat
                            /\ sections[i].vma + sections[i].len <= HeapStart
         /\ \A i, j \in Mapped : i # j =>
              \/ sections[i].vma + sections[i].len <= sections[j].vma
              \/ sections[j].vma + sections[j].len <= sections[i].vma
BY TablesAssumption DEF MemoryType, SectionTable, Mapped

(* Two addresses have no byte in common. *)
LEMMA AddressesAreApart ==
  ASSUME MemoryType, NEW a \in Nat, NEW b \in Nat, a # b
  PROVE  TranslateVMA(a) \cap TranslateVMA(b) = {}
<1> SUFFICES ASSUME NEW t, t \in TranslateVMA(a), t \in TranslateVMA(b)
             PROVE  FALSE
  OBVIOUS
<1>1. ASSUME NEW c \in Nat, t \in TranslateVMA(c)
      PROVE  \/ t.buffer = "stack" /\ c = t.offset + StackStart
             \/ t.buffer = "heap" /\ c = t.offset + HeapStart
             \/ t.buffer = "section" /\ c = t.offset + sections[t.no].vma
  <2>1. CASE c >= StackStart
    BY <1>1, <2>1 DEF TranslateVMA
  <2>2. CASE ~(c >= StackStart) /\ c >= HeapStart
    BY <1>1, <2>2 DEF TranslateVMA
  <2>3. CASE ~(c >= StackStart) /\ ~(c >= HeapStart)
    <3>1. PICK i \in Including(c) :
            t = [buffer |-> "section", no |-> i, offset |-> c - sections[i].vma]
      BY <1>1, <2>3 DEF TranslateVMA
    <3>2. sections[i].vma \in Nat
      BY TableIs DEF Including
    <3> QED  BY <3>1, <3>2
  <2> QED  BY <2>1, <2>2, <2>3
<1> QED  BY <1>1

(* The areas of the guest, and between which addresses they are. *)
LEMMA AreaIs ==
  ASSUME SInv, ~mixed, heap_cur <= HeapEnd, NEW A \in Areas
  PROVE  \/ \E i \in Mapped : A = Area("section", i, sections[i].vma, sections[i].vma + sections[i].len)
         \/ A = Area("stack", 0, StackStart, StackStart + StackLen)
         \/ A = Area("break", 0, break_area[1], break_area[2])
         \/ \E i \in DOMAIN maps : A = Area("map", i, maps[i][1], maps[i][2])
BY Zenon DEF Areas

LEMMA AreaIsWhere ==
  ASSUME SInv, ~mixed, heap_cur <= HeapEnd, NEW A \in Areas, NEW a \in Addresses(A)
  PROVE  /\ a \in Nat /\ a \in Int /\ A.first <= a /\ a < A.end
         /\ A.what = "section" => a < HeapStart
         /\ A.what = "stack" => StackStart <= a /\ a < StackStart + StackLen
         /\ A.what \in {"break", "map"} => HeapStart <= a /\ a < HeapEnd
<1> USE DEF Addresses, Area
<1>1. CASE \E i \in Mapped : A = Area("section", i, sections[i].vma, sections[i].vma + sections[i].len)
  BY <1>1, TableIs DEF SInv
<1>2. CASE A = Area("stack", 0, StackStart, StackStart + StackLen)
  BY <1>2
<1>3. CASE A = Area("break", 0, break_area[1], break_area[2])
  <2>1. break_area[1] \in Nat /\ break_area[2] \in Nat /\ heap_cur \in Nat /\ HeapEnd \in Nat
    BY DEF SInv, MemoryType, HeapEnd
  <2>2. break_area[1] <= a /\ a < break_area[2]
    BY <1>3, <2>1
  <2>3. HeapStart <= break_area[1] /\ break_area[2] <= heap_cur
    BY <2>1, <2>2 DEF SInv, BreakIsBelow, NoBreak
  <2> QED  BY <1>3, <2>1, <2>2, <2>3
<1>4. CASE \E i \in DOMAIN maps : A = Area("map", i, maps[i][1], maps[i][2])
  <2>1. PICK i \in DOMAIN maps : A = Area("map", i, maps[i][1], maps[i][2])
    BY <1>4
  <2>2. maps[i][1] \in Nat /\ maps[i][2] \in Nat /\ heap_cur \in Nat /\ HeapEnd \in Nat
    BY DEF SInv, MemoryType, HeapEnd
  <2>3. maps[i][1] <= a /\ a < maps[i][2]
    BY <2>1, <2>2
  <2>4. HeapStart <= maps[i][1] /\ maps[i][2] <= heap_cur
    BY DEF SInv, MapsAreStacked
  <2> QED  BY <2>1, <2>2, <2>3, <2>4
<1> QED  BY <1>1, <1>2, <1>3, <1>4, AreaIs

(* Two areas have no address in common. *)
LEMMA AreasAreApart ==
  ASSUME SInv, ~mixed, heap_cur <= HeapEnd, NEW A \in Areas, NEW B \in Areas, A # B,
         NEW a \in Addresses(A), a \in Addresses(B)
  PROVE  FALSE
<1>1. /\ a \in Nat /\ A.first <= a /\ a < A.end /\ B.first <= a /\ a < B.end
      /\ A.what = "section" => a < HeapStart
      /\ A.what = "stack" => StackStart <= a
      /\ A.what \in {"break", "map"} => HeapStart <= a /\ a < HeapEnd
      /\ B.what = "section" => a < HeapStart
      /\ B.what = "stack" => StackStart <= a
      /\ B.what \in {"break", "map"} => HeapStart <= a /\ a < HeapEnd
  BY AreaIsWhere
<1>2. A.what \in {"section", "stack", "break", "map"} /\ B.what \in {"section", "stack", "break", "map"}
  BY AreaIs DEF Area
<1>3. HeapStart <= HeapEnd /\ HeapEnd <= StackStart /\ {HeapStart, HeapEnd, StackStart} \subseteq Nat
  BY DEF HeapEnd
<1>4. CASE A.what = "section" /\ B.what = "section"
  <2>1. PICK i \in Mapped : A = Area("section", i, sections[i].vma, sections[i].vma + sections[i].len)
    BY <1>4, AreaIs DEF Area
  <2>2. PICK j \in Mapped : B = Area("section", j, sections[j].vma, sections[j].vma + sections[j].len)
    BY <1>4, AreaIs DEF Area
  <2>3. i # j
    BY <2>1, <2>2
  <2> QED  BY <1>1, <2>1, <2>2, <2>3, TableIs DEF SInv, Area
<1>5. CASE A.what = "stack" /\ B.what = "stack"
  BY <1>5, AreaIs DEF Area
<1>6. CASE A.what = "break" /\ B.what = "break"
  BY <1>6, AreaIs DEF Area
<1>7. ASSUME NEW C \in {A, B}, NEW D \in {A, B}, C.what = "break", D.what = "map"
      PROVE  FALSE
  <2>1. C = Area("break", 0, break_area[1], break_area[2])
    BY <1>7, AreaIs DEF Area
  <2>2. PICK i \in DOMAIN maps : D = Area("map", i, maps[i][1], maps[i][2])
    BY <1>7, AreaIs DEF Area
  <2>3. break_area[2] <= maps[i][1] /\ break_area[2] \in Nat /\ maps[i][1] \in Nat
    BY DEF SInv, MapsAreStacked, MemoryType
  <2>4. a < C.end /\ D.first <= a
    BY <1>1
  <2> QED  BY <1>1, <2>1, <2>2, <2>3, <2>4 DEF Area
<1>8. CASE A.what = "map" /\ B.what = "map"
  <2>1. PICK i \in DOMAIN maps : A = Area("map", i, maps[i][1], maps[i][2])
    BY <1>8, AreaIs DEF Area
  <2>2. PICK j \in DOMAIN maps : B = Area("map", j, maps[j][1], maps[j][2])
    BY <1>8, AreaIs DEF Area
  <2>3. i # j
    BY <2>1, <2>2
  <2>4. /\ i \in Nat /\ j \in Nat /\ maps[i] \in Nat \X Nat /\ maps[j] \in Nat \X Nat
    BY DEF SInv, MemoryType
  <2>5. maps[i][2] <= maps[j][1] \/ maps[j][2] <= maps[i][1]
    BY <2>3, <2>4 DEF SInv, MapsAreStacked
  <2> QED  BY <1>1, <2>1, <2>2, <2>4, <2>5 DEF Area
<1>9. CASE \/ A.what = "break" /\ B.what = "map"
           \/ A.what = "map" /\ B.what = "break"
  BY <1>7, <1>9
<1>10. CASE \/ A.what = "section" /\ B.what # "section"
            \/ A.what # "section" /\ B.what = "section"
            \/ A.what = "stack" /\ B.what # "stack"
            \/ A.what # "stack" /\ B.what = "stack"
  BY <1>1, <1>2, <1>3, <1>10
<1> QED  BY <1>2, <1>4, <1>5, <1>6, <1>8, <1>9, <1>10

(* Every address of an area has one byte, within its buffer. *)
LEMMA AddressHasItsByte ==
  ASSUME SInv, ~mixed, heap_cur <= HeapEnd, NEW A \in Areas, NEW a \in Addresses(A)
  PROVE  HasItsByte(a)
<1>1. /\ a \in Nat /\ a \in Int /\ A.first <= a /\ a < A.end
      /\ A.what = "section" => a < HeapStart
      /\ A.what = "stack" => StackStart <= a /\ a < StackStart + StackLen
      /\ A.what \in {"break", "map"} => HeapStart <= a /\ a < HeapEnd
  BY AreaIsWhere
<1>2. CASE A.what = "stack"
  <2> DEFINE t == [buffer |-> "stack", no |-> 0, offset |-> a - StackStart]
  <2>1. TranslateVMA(a) = {t}
    BY <1>1, <1>2 DEF TranslateVMA
  <2>2. t.offset \in 0 .. BufferLen(t) - 1
    BY <1>1, <1>2 DEF BufferLen
  <2> QED  BY <2>1, <2>2 DEF HasItsByte
<1>3. CASE A.what \in {"break", "map"}
  <2> DEFINE t == [buffer |-> "heap", no |-> 0, offset |-> a - HeapStart]
  <2>1. TranslateVMA(a) = {t}
    BY <1>1, <1>3 DEF TranslateVMA, HeapEnd
  <2>2. t.offset \in 0 .. BufferLen(t) - 1
    BY <1>1, <1>3 DEF BufferLen, HeapEnd
  <2> QED  BY <2>1, <2>2 DEF HasItsByte
<1>4. CASE A.what = "section"
  <2>1. PICK i \in Mapped : A = Area("section", i, sections[i].vma, sections[i].vma + sections[i].len)
    BY <1>4, AreaIs DEF Area
  <2> DEFINE t == [buffer |-> "section", no |-> i, offset |-> a - sections[i].vma]
  <2>2. /\ sections[i].vma \in Nat /\ sections[i].len \in Nat
        /\ sections[i].vma <= a /\ a < sections[i].vma + sections[i].len
    BY <1>1, <2>1, TableIs DEF SInv, Area
  <2>3. \A j \in Including(a) : j = i
    <3> SUFFICES ASSUME NEW j \in Including(a), j # i
                 PROVE  FALSE
      OBVIOUS
    <3>1. /\ j \in Mapped /\ sections[j].vma <= a /\ a < sections[j].vma + sections[j].len
      BY DEF Including
    <3>2. /\ sections[j].vma \in Nat /\ sections[j].len \in Nat
          /\ \/ sections[i].vma + sections[i].len <= sections[j].vma
             \/ sections[j].vma + sections[j].len <= sections[i].vma
      BY <3>1, TableIs DEF SInv
    <3> QED  BY <1>1, <2>2, <3>1, <3>2
  <2>4. i \in Including(a) /\ i \in Nat
    <3>1. i \in Nat
      BY TablesAssumption DEF SInv, MemoryType, SectionTable, Mapped
    <3> QED  BY <2>2, <3>1 DEF Including
  <2>5. Including(a) = {i}
    BY <2>3, <2>4
  <2>6. {k \in Including(a) : \A j \in Including(a) : k <= j} = {i}
    BY <2>4, <2>5
  <2>7. ~(a >= StackStart) /\ ~(a >= HeapStart)
    BY <1>1, <1>4 DEF HeapEnd
  <2>8. TranslateVMA(a) = {t}
    BY <2>6, <2>7 DEF TranslateVMA
  <2>9. t.offset \in 0 .. BufferLen(t) - 1
    BY <1>1, <2>2 DEF BufferLen
  <2> QED  BY <2>8, <2>9 DEF HasItsByte
<1>5. A.what \in {"section", "stack", "break", "map"}
  BY AreaIs DEF Area
<1> QED  BY <1>2, <1>3, <1>4, <1>5

(* A guest that uses brk only before its first mmap keeps what it stores:  *)
(* each of its areas has bytes of its own in the memory of the runtime.    *)
THEOREM BytesTheorem == Spec => []BytesAreItsOwnUntilBrk
<1>1. ASSUME SInv
      PROVE  BytesAreItsOwnUntilBrk
  <2> SUFFICES ASSUME ~mixed, heap_cur <= HeapEnd, NEW A \in Areas
               PROVE  /\ \A a \in Addresses(A) : HasItsByte(a)
                      /\ \A B \in Areas : A # B => Separate(A, B)
    BY DEF BytesAreItsOwnUntilBrk, BytesAreItsOwn
  <2>1. \A a \in Addresses(A) : HasItsByte(a)
    BY <1>1, AddressHasItsByte
  <2>2. ASSUME NEW B \in Areas, A # B,
               NEW a \in Addresses(A), NEW b \in Addresses(B)
        PROVE  TranslateVMA(a) \cap TranslateVMA(b) = {}
    <3>1. a # b
      BY <1>1, <2>2, AreasAreApart
    <3>2. a \in Nat /\ b \in Nat
      BY <1>1, AreaIsWhere
    <3> QED  BY <1>1, <3>1, <3>2, AddressesAreApart DEF SInv
  <2> QED  BY <2>1, <2>2 DEF Separate
<1> QED  BY <1>1, SInvariance, PTL
-----------------------------------------------------------------------------
(* The calls whose answer may be that of another case, per platform. *)
AnsweredByAnother ==
  \/ platform = "native"  /\ sysnum \in {"dup", "ioctl", "getrusage", "wait4", "exit_group"}
  \/ platform = "browser" /\ sysnum \in {"dup", "ioctl"}

(* The switch is at the case of the call, unless it went on from a case    *)
(* without a break; then the call is one of those above.                   *)
AnswerInv ==
  /\ platform \in Platform
  /\ pc = "switch" => case = sysnum \/ AnsweredByAnother
  /\ pc = "guest" /\ sysnum # NoCall => x0 = sysnum \/ AnsweredByAnother

(* A case ends with its break, or it is one of those without. *)
LEMMA CaseEnds ==
  ASSUME AnswerInv, pc = "switch", EndOfCase,
         \/ x0' = case
         \/ case = "ioctl" /\ platform # "wasi"
         \/ case = "exit_group" /\ platform = "native"
  PROVE  AnswerInv'
<1>1. UNCHANGED <<platform, sysnum>> /\ pc' = IF case \in FallsThrough(platform) THEN "switch" ELSE "guest"
  BY DEF EndOfCase
<1>2. AnsweredByAnother' <=> AnsweredByAnother
  BY <1>1 DEF AnsweredByAnother
<1>3. platform \in {"native", "browser", "wasi"} /\ (case = sysnum \/ AnsweredByAnother)
  BY DEF AnswerInv, Platform
<1>4. CASE AnsweredByAnother
  BY <1>1, <1>2, <1>3, <1>4 DEF AnswerInv, Platform
<1>5. CASE case = sysnum /\ case \in FallsThrough(platform)
  <2>1. AnsweredByAnother
    BY <1>3, <1>5 DEF FallsThrough, AnsweredByAnother
  <2> QED BY <1>4, <2>1
<1>6. CASE case = sysnum /\ case \notin FallsThrough(platform) /\ ~ AnsweredByAnother
  <2>1. pc' = "guest"
    BY <1>1, <1>6
  <2>2. case # "exit_group" \/ platform # "native"
    BY <1>6 DEF AnsweredByAnother
  <2>3. case # "ioctl" \/ platform = "wasi"
    BY <1>3, <1>6 DEF AnsweredByAnother
  <2>4. x0' = sysnum'
    BY <1>1, <1>6, <2>2, <2>3
  <2> QED BY <1>1, <1>3, <2>1, <2>4 DEF AnswerInv, Platform
<1> QED BY <1>3, <1>4, <1>5, <1>6

LEMMA AnswerNext == AnswerInv /\ [Next]_vars => AnswerInv'
<1> SUFFICES ASSUME AnswerInv, [Next]_vars PROVE AnswerInv'
  OBVIOUS
<1>1. ASSUME NEW c \in Call, Svc(c) PROVE AnswerInv'
  BY <1>1 DEF Svc, AnswerInv
<1>2. CASE Answer
  BY <1>2, CaseEnds DEF Answer
<1>3. CASE IgnoredIoctl
  BY <1>3, CaseEnds DEF IgnoredIoctl, In
<1>4. CASE ExitGroupReturns
  BY <1>4, CaseEnds DEF ExitGroupReturns, In
<1>5. CASE BrkQuery
  BY <1>5, CaseEnds DEF BrkQuery, In
<1>6. ASSUME NEW a \in HeapStart .. HeapEnd, BrkMove(a) PROVE AnswerInv'
  BY <1>6, CaseEnds DEF BrkMove, In
<1>7. ASSUME NEW n \in Lengths, Mmap(n) PROVE AnswerInv'
  BY <1>7, CaseEnds DEF Mmap, In
<1>8. CASE Exit \/ Refuse
  BY <1>8 DEF Exit, Refuse, AnswerInv
<1>9. CASE UNCHANGED vars
  BY <1>9 DEF vars, AnswerInv, AnsweredByAnother
<1>10. CASE Ended
  BY <1>9, <1>10 DEF Ended
<1> QED BY <1>1, <1>2, <1>3, <1>4, <1>5, <1>6, <1>7, <1>8, <1>9, <1>10 DEF Next

(* The guest finds the answer of its own call in X0, on each platform,     *)
(* except for the calls whose case has no break and the native exit_group. *)
THEOREM AnswersTheorem == Spec => []AnswersItself
<1>1. Init => AnswerInv
  BY DEF Init, AnswerInv
<1>2. AnswerInv => AnswersItself
  BY DEF AnswerInv, AnswersItself, AnsweredByAnother
<1> QED BY <1>1, <1>2, AnswerNext, PTL DEF Spec
=============================================================================
