------------------------ MODULE FunctionTable_proofs ------------------------
(***************************************************************************)
(* The properties of FunctionTable for every set of ELF files: the table   *)
(* is fit for the lifter, the entry function has its name, a file is       *)
(* refused only for a reason, and in a file whose sections are covered by  *)
(* their symbols every instruction belongs to one function.                *)
(***************************************************************************)
EXTENDS FunctionTable, TLAPS

USE MaxAddrAssumption DEF Addr

(* The symbols that are left are below the function that was defined last, *)
(* or they are other names of it.                                          *)
SymbolsAreBelow ==
  pc = "walk" => \A t \in func_entrys :
                   \/ t.entry < fun_end_addr
                   \/ t.entry = fun_end_addr /\ IsFunctionEntry(t.entry)

(* A function is not empty and its instructions can be read. *)
FunctionsAreMapped ==
  \A f \in DOMAIN disasm_funcs :
    /\ disasm_funcs[f].size > 0 /\ f + disasm_funcs[f].size <= MaxAddr
    /\ \A a \in f .. f + disasm_funcs[f].size - 1 : memory[a] # Unmapped

NothingAtTheTop == memory[MaxAddr] = Unmapped

TInv == TypeOK /\ SymbolsAreBelow /\ FunctionsAreMapped /\ NothingAtTheTop

-----------------------------------------------------------------------------
(* What Emplace does to the functions: one more at most, and none changes. *)
LEMMA EmplaceKeeps ==
  ASSUME NEW a, NEW name, NEW size, disasm_funcs' = Emplace(a, name, size)
  PROVE  /\ DOMAIN disasm_funcs' = DOMAIN disasm_funcs \cup {a}
         /\ \A f \in DOMAIN disasm_funcs : disasm_funcs'[f] = disasm_funcs[f]
         /\ a \notin DOMAIN disasm_funcs => disasm_funcs'[a] = [name |-> name, size |-> size]
BY DEF Emplace, IsFunctionEntry

(* The file is one the loader accepts. *)
LEMMA FileIsElf ==
  ASSUME TypeOK
  PROVE  ElfFile(file)
BY FilesAssumption DEF TypeOK

(* One more function, from an address to the end of what is read for it.   *)
LEMMA FunctionAdded ==
  ASSUME TypeOK, FunctionsAreMapped, NothingAtTheTop,
         NEW lo \in Addr, NEW hi \in Addr, NEW name,
         lo < hi \/ (lo = hi /\ IsFunctionEntry(lo)),
         NEW sec, memory' = Copied(sec, lo, hi),
         disasm_funcs' = Emplace(lo, name, hi - lo)
  PROVE  /\ memory' \in [Addr -> Addr \cup {Unmapped, Garbage}]
         /\ DOMAIN disasm_funcs' \subseteq Addr
         /\ \A f \in DOMAIN disasm_funcs' : disasm_funcs'[f].size \in Nat
         /\ FunctionsAreMapped' /\ NothingAtTheTop'
<1>1. /\ DOMAIN disasm_funcs' = DOMAIN disasm_funcs \cup {lo}
      /\ \A f \in DOMAIN disasm_funcs : disasm_funcs'[f] = disasm_funcs[f]
      /\ lo \notin DOMAIN disasm_funcs => disasm_funcs'[lo] = [name |-> name, size |-> hi - lo]
  BY EmplaceKeeps
<1>2. memory' \in [Addr -> Addr \cup {Unmapped, Garbage}]
  BY DEF TypeOK, Copied, ByteOf
<1>3. \A a \in Addr : memory[a] # Unmapped => memory'[a] # Unmapped
  BY MarkersAssumption DEF TypeOK, Copied, ByteOf
<1>4. \A a \in lo .. hi - 1 : memory'[a] # Unmapped
  BY MarkersAssumption DEF Copied, ByteOf
<1>5. DOMAIN disasm_funcs' \subseteq Addr
  BY <1>1 DEF TypeOK
<1>6. ASSUME NEW f \in DOMAIN disasm_funcs'
      PROVE  /\ disasm_funcs'[f].size \in Nat /\ disasm_funcs'[f].size > 0
             /\ f + disasm_funcs'[f].size <= MaxAddr
             /\ \A a \in f .. f + disasm_funcs'[f].size - 1 : memory'[a] # Unmapped
  <2>1. CASE f \in DOMAIN disasm_funcs
    <3>1. disasm_funcs'[f] = disasm_funcs[f] /\ f \in Addr
      BY <1>1, <2>1 DEF TypeOK
    <3>2. /\ disasm_funcs[f].size \in Nat /\ disasm_funcs[f].size > 0
          /\ f + disasm_funcs[f].size <= MaxAddr
          /\ \A a \in f .. f + disasm_funcs[f].size - 1 : memory[a] # Unmapped
      BY <2>1 DEF TypeOK, FunctionsAreMapped
    <3>3. f .. f + disasm_funcs[f].size - 1 \subseteq Addr
      BY <3>1, <3>2
    <3> QED  BY <3>1, <3>2, <3>3, <1>3
  <2>2. CASE f \notin DOMAIN disasm_funcs
    <3>1. f = lo /\ disasm_funcs'[f].size = hi - lo
      BY <1>1, <2>2
    <3>2. lo < hi
      BY <3>1, <2>2 DEF IsFunctionEntry
    <3>3. disasm_funcs'[f].size \in Nat /\ disasm_funcs'[f].size > 0
      BY ONLY <3>1, <3>2, lo \in 0 .. MaxAddr, hi \in 0 .. MaxAddr, MaxAddr \in Nat
    <3>4. f + disasm_funcs'[f].size = hi /\ hi <= MaxAddr
      BY ONLY <3>1, <3>2, lo \in 0 .. MaxAddr, hi \in 0 .. MaxAddr, MaxAddr \in Nat
    <3>5. \A a \in f .. f + disasm_funcs'[f].size - 1 : memory'[a] # Unmapped
      BY ONLY <3>1, <3>4, <1>4
    <3> QED  BY <3>3, <3>4, <3>5
  <2> QED  BY <2>1, <2>2
<1>7. FunctionsAreMapped'
  BY <1>6 DEF FunctionsAreMapped
<1>8. NothingAtTheTop'
  BY DEF NothingAtTheTop, TypeOK, Copied
<1> QED  BY <1>2, <1>5, <1>6, <1>7, <1>8

-----------------------------------------------------------------------------
LEMMA InitTInv == Init => TInv
<1> SUFFICES ASSUME Init
             PROVE  TInv
  OBVIOUS
<1>1. TypeOK
  BY DEF Init, TypeOK, End
<1>2. SymbolsAreBelow /\ FunctionsAreMapped /\ NothingAtTheTop
  BY DEF Init, SymbolsAreBelow, FunctionsAreMapped, NothingAtTheTop
<1> QED  BY <1>1, <1>2 DEF TInv

LEMMA FindSectionStep ==
  ASSUME TInv, NEW s \in func_entrys, FindSection(s)
  PROVE  TInv'
<1> USE DEF TInv
<1>1. PICK n \in Included(s.entry) :
        /\ section' = file.sections[n]
        /\ fun_end_addr' = End(file.sections[n])
  BY DEF FindSection
<1>2. /\ n \in DOMAIN file.sections /\ s.entry \in Inside(file.sections[n])
      /\ file.sections[n].vma \in Addr /\ file.sections[n].size \in Nat
      /\ End(file.sections[n]) <= MaxAddr
  BY <1>1, FileIsElf DEF Included, ElfFile
<1>3. /\ UNCHANGED <<file, func_entrys, memory, disasm_funcs, ins_i>>
      /\ pc' = "walk" /\ \A t \in func_entrys : t.entry <= s.entry
  BY DEF FindSection, Highest
<1>4. TypeOK'
  BY <1>1, <1>2, <1>3 DEF TypeOK, End
<1>5. \A t \in func_entrys : t.entry \in Nat
  BY FileIsElf DEF TypeOK, ElfFile
<1>6. SymbolsAreBelow'
  <2>1. s.entry < End(file.sections[n])
    BY <1>2, <1>5 DEF Inside, End
  <2>2. End(file.sections[n]) \in Nat
    BY <1>2 DEF End
  <2> QED  BY <1>1, <1>3, <1>5, <2>1, <2>2 DEF SymbolsAreBelow
<1>7. FunctionsAreMapped' /\ NothingAtTheTop'
  BY <1>3 DEF FunctionsAreMapped, NothingAtTheTop
<1> QED  BY <1>4, <1>6, <1>7

LEMMA AssignStep ==
  ASSUME TInv, NEW s \in func_entrys, Assign(s)
  PROVE  TInv'
<1> USE DEF TInv
<1>1. /\ UNCHANGED <<file, section, ins_i>>
      /\ pc = "walk" /\ \A t \in func_entrys : t.entry <= s.entry
      /\ fun_end_addr' = s.entry /\ func_entrys' = func_entrys \ {s}
      /\ pc' \in {"walk", "symbols"}
      /\ memory' = Copied(section, s.entry, fun_end_addr)
      /\ disasm_funcs' = Emplace(s.entry, s.name, fun_end_addr - s.entry)
  BY DEF Assign, Highest, AfterAssign
<1>2. \A t \in func_entrys : t.entry \in Addr
  BY FileIsElf DEF TypeOK, ElfFile
<1>5. s.entry < fun_end_addr \/ (s.entry = fun_end_addr /\ IsFunctionEntry(s.entry))
  BY <1>1 DEF SymbolsAreBelow
<1>6. fun_end_addr \in Addr /\ s.entry \in Addr
  BY <1>2 DEF TypeOK
<1>7. /\ memory' \in [Addr -> Addr \cup {Unmapped, Garbage}]
      /\ DOMAIN disasm_funcs' \subseteq Addr
      /\ \A f \in DOMAIN disasm_funcs' : disasm_funcs'[f].size \in Nat
      /\ FunctionsAreMapped' /\ NothingAtTheTop'
  BY <1>1, <1>5, <1>6, FunctionAdded
<1>8. TypeOK'
  BY <1>1, <1>6, <1>7 DEF TypeOK, End
<1>9. s.entry \in DOMAIN disasm_funcs'
  BY <1>1, EmplaceKeeps
<1>10. SymbolsAreBelow'
  BY <1>1, <1>2, <1>9 DEF SymbolsAreBelow, IsFunctionEntry
<1> QED  BY <1>7, <1>8, <1>10

LEMMA PltBlockStep ==
  ASSUME TInv, NEW p \in PltSections, NEW n \in Addr, PltBlock(file.sections[p], n)
  PROVE  TInv'
<1> USE DEF TInv
<1> DEFINE sec == file.sections[p]
           lo == sec.vma + ins_i
           hi == sec.vma + n
<1>1. sec.vma \in Addr /\ sec.size \in Nat /\ sec.vma + sec.size <= MaxAddr
  BY FileIsElf DEF PltSections, ElfFile, End
<1>2. /\ UNCHANGED <<file, pc, func_entrys, section, fun_end_addr>>
      /\ pc = "plt" /\ n \in ins_i + 1 .. sec.size /\ ins_i' = n
      /\ memory' = Copied(sec, lo, hi)
      /\ disasm_funcs' = Emplace(lo, PltName, n - ins_i)
  BY DEF PltBlock
<1>3. ins_i \in Nat /\ n \in Nat
  BY DEF TypeOK
<1>4. lo \in Addr /\ hi \in Addr /\ lo < hi /\ hi - lo = n - ins_i
  <2> HIDE DEF sec
  <2>1. ins_i < n /\ n <= sec.size
    BY <1>1, <1>2, <1>3
  <2> QED  BY <2>1, <1>1, <1>3
<1>7. disasm_funcs' = Emplace(lo, PltName, hi - lo)
  BY <1>2, <1>4
<1> HIDE DEF lo, hi
<1>8. /\ memory' \in [Addr -> Addr \cup {Unmapped, Garbage}]
      /\ DOMAIN disasm_funcs' \subseteq Addr
      /\ \A f \in DOMAIN disasm_funcs' : disasm_funcs'[f].size \in Nat
      /\ FunctionsAreMapped' /\ NothingAtTheTop'
  BY <1>2, <1>4, <1>7, FunctionAdded
<1>9. TypeOK'
  BY <1>2, <1>3, <1>8 DEF TypeOK, End
<1>10. SymbolsAreBelow'
  BY <1>2 DEF SymbolsAreBelow
<1> QED  BY <1>8, <1>9, <1>10

LEMMA WrapMainStep ==
  ASSUME TInv, NEW a \in Addr, DefineWrapMain(a)
  PROVE  TInv'
<1> USE DEF TInv
<1>1. /\ UNCHANGED <<file, func_entrys, section, fun_end_addr, memory, ins_i>>
      /\ IsFunctionEntry(StartOf) /\ IsWrap(a)
      /\ disasm_funcs' = Emplace(a, WrapMain, WrapSize) /\ pc' = "done"
  BY DEF DefineWrapMain
<1>2. /\ DOMAIN disasm_funcs' = DOMAIN disasm_funcs \cup {a}
      /\ \A f \in DOMAIN disasm_funcs : disasm_funcs'[f] = disasm_funcs[f]
      /\ a \notin DOMAIN disasm_funcs => disasm_funcs'[a] = [name |-> WrapMain, size |-> WrapSize]
  BY <1>1, EmplaceKeeps
<1>3. /\ StartOf \in DOMAIN disasm_funcs /\ StartOf \in Addr
      /\ disasm_funcs[StartOf].size \in Nat
      /\ StartEnd = StartOf + disasm_funcs[StartOf].size
  BY <1>1 DEF IsFunctionEntry, TypeOK, StartEnd
<1>4. /\ StartEnd <= MaxAddr /\ \A b \in StartOf .. StartEnd - 1 : memory[b] # Unmapped
  BY <1>3 DEF FunctionsAreMapped
<1>5. StartOf <= a /\ a + WrapSize <= StartEnd
  BY <1>1, <1>3 DEF IsWrap, WrapSize
<1>6. a + WrapSize <= MaxAddr /\ \A b \in a .. a + WrapSize - 1 : memory[b] # Unmapped
  BY <1>3, <1>4, <1>5 DEF WrapSize
<1>7. \A f \in DOMAIN disasm_funcs' : disasm_funcs'[f].size \in Nat
  BY <1>2 DEF TypeOK, WrapSize
<1>8. TypeOK'
  BY <1>1, <1>2, <1>7 DEF TypeOK, End, Ended
<1>9. FunctionsAreMapped'
  BY <1>1, <1>2, <1>6 DEF FunctionsAreMapped, WrapSize
<1>10. SymbolsAreBelow' /\ NothingAtTheTop'
  BY <1>1 DEF SymbolsAreBelow, NothingAtTheTop
<1> QED  BY <1>8, <1>9, <1>10

(* The other steps change only how far SetELFData has come. *)
LEMMA StopStep ==
  ASSUME TInv, NEW how \in {"plt", "wrap"} \cup Ended, Stop(how)
  PROVE  TInv'
BY DEF TInv, Stop, TypeOK, End, SymbolsAreBelow, FunctionsAreMapped, NothingAtTheTop, Ended

LEMMA SameStep ==
  ASSUME TInv, UNCHANGED vars
  PROVE  TInv'
BY DEF TInv, vars, TypeOK, End, SymbolsAreBelow, IsFunctionEntry, FunctionsAreMapped,
       NothingAtTheTop, Ended

(* The steps of Next: those that change the table, and those that only go  *)
(* on or stop.                                                             *)
LEMMA NextCases ==
  ASSUME [Next]_vars
  PROVE  \/ \E s \in func_entrys : FindSection(s) \/ Assign(s)
         \/ \E p \in PltSections, n \in Addr : PltBlock(file.sections[p], n)
         \/ \E a \in Addr : DefineWrapMain(a)
         \/ \E s \in func_entrys : NotInOneSection(s) \/ MultipleEntryPoints(s)
         \/ RunPastTheEnd \/ SymbolsDone \/ PltDone
         \/ NoWrapMain \/ StartOutsideText \/ NoEntryFunction
         \/ UNCHANGED vars
BY DEF Next, Done

LEMMA Stops ==
  ASSUME \/ \E s \in func_entrys : NotInOneSection(s) \/ MultipleEntryPoints(s)
         \/ RunPastTheEnd \/ SymbolsDone \/ PltDone
         \/ NoWrapMain \/ StartOutsideText \/ NoEntryFunction
  PROVE  \E how \in {"plt", "wrap"} \cup Ended : Stop(how)
BY DEF NotInOneSection, MultipleEntryPoints, RunPastTheEnd, SymbolsDone, PltDone,
       NoWrapMain, StartOutsideText, NoEntryFunction, Ended

LEMMA NextTInv == TInv /\ [Next]_vars => TInv'
<1> SUFFICES ASSUME TInv, [Next]_vars
             PROVE  TInv'
  OBVIOUS
<1>1. CASE \E s \in func_entrys : FindSection(s) \/ Assign(s)
  BY <1>1, FindSectionStep, AssignStep
<1>2. CASE \E p \in PltSections, n \in Addr : PltBlock(file.sections[p], n)
  BY <1>2, PltBlockStep
<1>3. CASE \E a \in Addr : DefineWrapMain(a)
  BY <1>3, WrapMainStep
<1>4. CASE \E how \in {"plt", "wrap"} \cup Ended : Stop(how)
  BY <1>4, StopStep
<1>5. CASE UNCHANGED vars
  BY <1>5, SameStep
<1> QED  BY <1>1, <1>2, <1>3, <1>4, <1>5, NextCases, Stops

LEMMA TInvariance == Spec => []TInv
BY InitTInv, NextTInv, PTL DEF Spec

(* The type invariant of SetELFData. *)
THEOREM TypeTheorem == Spec => []TypeOK
BY TInvariance, PTL DEF TInv

(* Whatever the symbols are, the table SetELFData ends with is one that    *)
(* the lifter can use.                                                     *)
THEOREM LifterCanUseItTheorem == Spec => []LifterCanUseIt
<1>1. ASSUME TInv
      PROVE  LifterCanUseIt
  <2> SUFFICES ASSUME pc = "done"
               PROVE  WellFormed(Image)
    BY DEF LifterCanUseIt
  <2> USE DEF TInv
  <2>1. \A f \in DOMAIN disasm_funcs :
          /\ disasm_funcs[f].size \in Nat /\ disasm_funcs[f].size > 0
          /\ f \in Addr /\ f + disasm_funcs[f].size <= MaxAddr
          /\ \A a \in f .. f + disasm_funcs[f].size - 1 : memory[a] # Unmapped
    BY <1>1 DEF TypeOK, FunctionsAreMapped
  <2>2. Image.insn \in [Addr -> Insn]
    BY <1>1, FileIsElf DEF Image, Decoded, Insn, Category, ElfFile, Code
  <2>3. Image.memory \subseteq 0 .. MaxAddr - 1
    BY <1>1 DEF Image, NothingAtTheTop
  <2>4. Image.end \in [Image.entries -> Addr]
    BY <2>1 DEF Image, FunctionEnd
  <2>5. \A f \in Image.entries :
          f < Image.end[f] /\ f .. Image.end[f] - 1 \subseteq Image.memory /\ f \in Image.memory
    BY <2>1 DEF Image, FunctionEnd
  <2> QED  BY <2>2, <2>3, <2>4, <2>5 DEF WellFormed
<1> QED  BY <1>1, TInvariance, PTL

-----------------------------------------------------------------------------
(* The name of the entry function is set when its symbol is taken, and     *)
(* what is at the entry point has that name.                               *)
EntryIsFound ==
  /\ entry_func_lifted_name # NoName =>
       /\ IsFunctionEntry(file.entry_point)
       /\ disasm_funcs[file.entry_point].name = entry_func_lifted_name
       /\ \E s \in file.symbols \ func_entrys : IsEntryPoint(s)
  /\ pc \in {"symbols", "walk"} /\ entry_func_lifted_name = NoName =>
       ~IsFunctionEntry(file.entry_point)

LEMMA EntryInit == Init => EntryIsFound
BY DEF Init, EntryIsFound, IsFunctionEntry

LEMMA EntryNext == TInv /\ EntryIsFound /\ [Next]_vars => EntryIsFound'
<1> SUFFICES ASSUME TInv, EntryIsFound, [Next]_vars
             PROVE  EntryIsFound'
  OBVIOUS
<1> USE DEF EntryIsFound
<1>1. ASSUME NEW s \in func_entrys, FindSection(s)
      PROVE  EntryIsFound'
  BY <1>1 DEF FindSection, IsFunctionEntry, IsEntryPoint
<1>2. ASSUME NEW s \in func_entrys, Assign(s)
      PROVE  EntryIsFound'
  <2>1. /\ s \in file.symbols /\ s.name # NoName
        /\ pc = "walk" /\ file' = file /\ func_entrys' = func_entrys \ {s}
        /\ IsEntryPoint(s) => entry_func_lifted_name = NoName
        /\ entry_func_lifted_name' = IF IsEntryPoint(s) THEN s.name ELSE entry_func_lifted_name
        /\ disasm_funcs' = Emplace(s.entry, s.name, fun_end_addr - s.entry)
    BY <1>2, FileIsElf DEF TInv, TypeOK, ElfFile, Assign
  <2>2. /\ DOMAIN disasm_funcs' = DOMAIN disasm_funcs \cup {s.entry}
        /\ \A f \in DOMAIN disasm_funcs : disasm_funcs'[f] = disasm_funcs[f]
        /\ s.entry \notin DOMAIN disasm_funcs =>
             disasm_funcs'[s.entry] = [name |-> s.name, size |-> fun_end_addr - s.entry]
    BY <2>1, EmplaceKeeps
  <2>3. CASE IsEntryPoint(s)
    BY <2>1, <2>2, <2>3 DEF IsFunctionEntry, IsEntryPoint
  <2>4. CASE ~IsEntryPoint(s)
    BY <2>1, <2>2, <2>4 DEF IsFunctionEntry, IsEntryPoint
  <2> QED  BY <2>3, <2>4
<1>3. ASSUME NEW p \in PltSections, NEW n \in Addr, PltBlock(file.sections[p], n)
      PROVE  EntryIsFound'
  <2>1. /\ pc = "plt" /\ UNCHANGED <<file, pc, func_entrys, entry_func_lifted_name>>
        /\ \E a : disasm_funcs' = Emplace(a, PltName, n - ins_i)
    BY <1>3 DEF PltBlock
  <2>2. /\ DOMAIN disasm_funcs \subseteq DOMAIN disasm_funcs'
        /\ \A f \in DOMAIN disasm_funcs : disasm_funcs'[f] = disasm_funcs[f]
    BY <2>1, EmplaceKeeps
  <2> QED  BY <2>1, <2>2 DEF IsFunctionEntry, IsEntryPoint
<1>4. ASSUME NEW a \in Addr, DefineWrapMain(a)
      PROVE  EntryIsFound'
  <2>1. /\ pc' = "done" /\ UNCHANGED <<file, func_entrys, entry_func_lifted_name>>
        /\ disasm_funcs' = Emplace(a, WrapMain, WrapSize)
    BY <1>4 DEF DefineWrapMain
  <2>2. /\ DOMAIN disasm_funcs \subseteq DOMAIN disasm_funcs'
        /\ \A f \in DOMAIN disasm_funcs : disasm_funcs'[f] = disasm_funcs[f]
    BY <2>1, EmplaceKeeps
  <2> QED  BY <2>1, <2>2 DEF IsFunctionEntry, IsEntryPoint
<1>5. ASSUME NEW how \in {"plt", "wrap"} \cup Ended, Stop(how)
      PROVE  EntryIsFound'
  BY <1>5 DEF Stop, Ended, IsFunctionEntry, IsEntryPoint
<1>6. CASE UNCHANGED vars
  BY <1>6 DEF vars, IsFunctionEntry, IsEntryPoint
<1> QED  BY <1>1, <1>2, <1>3, <1>4, <1>5, <1>6, NextCases, Stops

LEMMA EntryInvariance == Spec => []EntryIsFound
BY EntryInit, EntryNext, TInvariance, PTL DEF Spec

(* The function at the entry point has the name main() is told, whatever   *)
(* other names its address has.                                            *)
THEOREM EntryIsNamedTheorem == Spec => []EntryIsNamed
<1>1. EntryIsFound => EntryIsNamed
  BY DEF EntryIsFound, EntryIsNamed
<1> QED  BY <1>1, EntryInvariance, PTL

-----------------------------------------------------------------------------
(* The walk of a section takes the symbols from the highest to the lowest, *)
(* and under Covered there is one left that is not below the section.      *)
FromTheTop == \A c \in file.symbols \ func_entrys, r \in func_entrys : r.entry <= c.entry

WalkIsInside ==
  pc = "walk" =>
    \E n \in DOMAIN file.sections :
      /\ section = Section(n)
      /\ section.vma < fun_end_addr /\ fun_end_addr <= End(section)
      /\ \A t \in func_entrys : t.entry < End(section)
      /\ Covered => \E t \in func_entrys : section.vma <= t.entry

(* A function ends with its section at the latest. *)
FunctionsStayInside ==
  Covered /\ SectionsApart =>
    \A f \in DOMAIN disasm_funcs, n \in DOMAIN file.sections :
      f \in Inside(Section(n)) => FunctionEnd(f) <= End(Section(n))

HInv == FromTheTop /\ WalkIsInside /\ FunctionsStayInside /\ EndsAreJustified

LEMMA SymbolsAreAddresses ==
  ASSUME TypeOK
  PROVE  \A t \in file.symbols : t.entry \in Addr
BY FileIsElf DEF ElfFile

LEMMA SectionsAreAddresses ==
  ASSUME TypeOK
  PROVE  \A n \in DOMAIN file.sections :
           /\ Section(n).vma \in Addr /\ Section(n).size \in Nat
           /\ End(Section(n)) = Section(n).vma + Section(n).size
           /\ End(Section(n)) <= MaxAddr
           /\ \A a : a \in Inside(Section(n)) <=>
                      a \in Int /\ Section(n).vma <= a /\ a < End(Section(n))
BY FileIsElf DEF ElfFile, Section, End, Inside

(* What depends on the file alone does not change. *)
LEMMA SameFile ==
  ASSUME file' = file
  PROVE  /\ Covered' = Covered /\ SectionsApart' = SectionsApart
         /\ PltHasNoSymbols' = PltHasNoSymbols /\ PltSections' = PltSections
         /\ \A n : Section(n)' = Section(n) /\ HasSymbol(n)' = HasSymbol(n)
         /\ \A a : Included(a)' = Included(a) /\ InText(a)' = InText(a)
         /\ \A s : IsEntryPoint(s)' = IsEntryPoint(s)
BY DEF Covered, SectionsApart, PltHasNoSymbols, PltSections, Section, HasSymbol, Included,
       InText, IsEntryPoint

(* The symbol the walk takes next is inside the section. *)
LEMMA NextIsInside ==
  ASSUME TInv, WalkIsInside, Covered, pc = "walk",
         NEW s \in func_entrys, \A t \in func_entrys : t.entry <= s.entry
  PROVE  \E n \in DOMAIN file.sections :
           /\ section = Section(n) /\ s.entry \in Inside(Section(n))
           /\ s.entry <= fun_end_addr /\ fun_end_addr <= End(Section(n))
<1>1. PICK n \in DOMAIN file.sections :
        /\ section = Section(n)
        /\ section.vma < fun_end_addr /\ fun_end_addr <= End(section)
        /\ \A t \in func_entrys : t.entry < End(section)
        /\ \E t \in func_entrys : section.vma <= t.entry
  BY DEF WalkIsInside
<1>2. PICK t \in func_entrys : section.vma <= t.entry
  BY <1>1
<1>3. s.entry \in Nat /\ t.entry \in Nat /\ t.entry <= s.entry /\ s.entry < End(section)
  BY <1>1, SymbolsAreAddresses DEF TInv, TypeOK
<1>4. section.vma \in Nat
  BY DEF TInv, TypeOK
<1>5. s.entry \in Inside(Section(n))
  BY <1>1, <1>2, <1>3, <1>4, SectionsAreAddresses DEF TInv
<1>6. s.entry <= fun_end_addr
  BY <1>3 DEF TInv, TypeOK, SymbolsAreBelow
<1> QED  BY <1>1, <1>5, <1>6

LEMMA HInit == Init => HInv
BY DEF Init, HInv, FromTheTop, WalkIsInside, FunctionsStayInside, EndsAreJustified

LEMMA HFindSection ==
  ASSUME TInv, HInv, NEW s \in func_entrys, FindSection(s)
  PROVE  HInv'
<1>1. PICK n \in Included(s.entry) :
        /\ section' = file.sections[n]
        /\ fun_end_addr' = End(file.sections[n])
  BY DEF FindSection
<1>2. /\ UNCHANGED <<file, func_entrys, disasm_funcs>>
      /\ pc' = "walk" /\ \A t \in func_entrys : t.entry <= s.entry
  BY DEF FindSection, Highest
<1>3. FromTheTop'
  BY <1>2 DEF HInv, FromTheTop
<1>4. WalkIsInside'
  <2>1. n \in DOMAIN file.sections /\ s.entry \in Inside(Section(n))
    BY <1>1 DEF Included, Section
  <2>2. /\ Section(n).vma \in Nat /\ End(Section(n)) \in Nat /\ s.entry \in Nat
        /\ Section(n).vma <= s.entry /\ s.entry < End(Section(n))
    BY <2>1, SectionsAreAddresses DEF TInv
  <2>3. \A t \in func_entrys : t.entry \in Nat
    BY SymbolsAreAddresses DEF TInv, TypeOK
  <2>4. \A t \in func_entrys : t.entry < End(Section(n))
    BY <1>2, <2>2, <2>3
  <2>5. section' = Section(n) /\ End(section)' = End(Section(n))
    BY <1>1 DEF Section, End
  <2>6. Section(n)' = Section(n)
    BY <1>2, SameFile
  <2> QED  BY <1>1, <1>2, <2>1, <2>2, <2>4, <2>5, <2>6 DEF WalkIsInside, Section
<1>5. FunctionsStayInside'
  BY <1>2, SameFile DEF HInv, FunctionsStayInside, FunctionEnd, End, Inside
<1>6. EndsAreJustified'
  BY <1>2 DEF EndsAreJustified
<1> QED  BY <1>3, <1>4, <1>5, <1>6 DEF HInv

LEMMA HAssign ==
  ASSUME TInv, HInv, NEW s \in func_entrys, Assign(s)
  PROVE  HInv'
<1>1. /\ UNCHANGED <<file, section>>
      /\ pc = "walk" /\ \A t \in func_entrys : t.entry <= s.entry
      /\ fun_end_addr' = s.entry /\ func_entrys' = func_entrys \ {s}
      /\ pc' = IF section.vma < s.entry THEN "walk" ELSE "symbols"
      /\ disasm_funcs' = Emplace(s.entry, s.name, fun_end_addr - s.entry)
  BY DEF Assign, Highest, AfterAssign
<1>2. /\ func_entrys \subseteq file.symbols
      /\ \A t \in file.symbols : t.entry \in Nat
  BY SymbolsAreAddresses DEF TInv, TypeOK
<1>3. FromTheTop'
  BY <1>1, <1>2 DEF HInv, FromTheTop
<1>4. WalkIsInside'
  <2> SUFFICES ASSUME section.vma < s.entry
               PROVE  WalkIsInside'
    BY <1>1 DEF WalkIsInside
  <2>1. PICK n \in DOMAIN file.sections :
          /\ section = Section(n)
          /\ section.vma < fun_end_addr /\ fun_end_addr <= End(section)
          /\ \A t \in func_entrys : t.entry < End(section)
          /\ Covered => \E t \in func_entrys : section.vma <= t.entry
    BY <1>1 DEF HInv, WalkIsInside
  <2>2. /\ section.vma \in Nat /\ End(section) \in Nat
        /\ \A a : a \in Inside(Section(n)) <=> a \in Int /\ section.vma <= a /\ a < End(section)
    BY <2>1, SectionsAreAddresses DEF TInv
  <2>3. section.vma < s.entry /\ s.entry <= End(section)
    BY <1>2, <2>1, <2>2
  <2>4. ASSUME Covered
        PROVE  \E t \in func_entrys \ {s} : section.vma <= t.entry
    <3>1. s.entry \in Inside(Section(n))
      BY <1>1, <1>2, <2>1, <2>2
    <3>2. HasSymbol(n)
      BY <1>2, <3>1 DEF HasSymbol
    <3>3. PICK t \in file.symbols : t.entry = section.vma
      BY <2>1, <2>4, <3>2 DEF Covered
    <3>4. t \in func_entrys
      BY <1>2, <2>2, <3>3 DEF HInv, FromTheTop
    <3>5. t # s /\ section.vma <= t.entry
      BY <2>2, <3>3
    <3> QED  BY <3>4, <3>5
  <2>5. Section(n)' = Section(n) /\ Covered' = Covered /\ End(section)' = End(section)
    BY <1>1, SameFile DEF End
  <2> QED  BY <1>1, <2>1, <2>3, <2>4, <2>5 DEF WalkIsInside
<1>5. FunctionsStayInside'
  <2> SUFFICES ASSUME Covered, SectionsApart,
                      NEW f \in DOMAIN disasm_funcs', NEW n \in DOMAIN file.sections,
                      f \in Inside(Section(n))
               PROVE  FunctionEnd(f)' <= End(Section(n))
    BY <1>1, SameFile DEF FunctionsStayInside, End, Inside
  <2>1. /\ DOMAIN disasm_funcs' = DOMAIN disasm_funcs \cup {s.entry}
        /\ \A g \in DOMAIN disasm_funcs : disasm_funcs'[g] = disasm_funcs[g]
        /\ s.entry \notin DOMAIN disasm_funcs =>
             disasm_funcs'[s.entry] = [name |-> s.name, size |-> fun_end_addr - s.entry]
    BY <1>1, EmplaceKeeps
  <2>2. CASE f \in DOMAIN disasm_funcs
    BY <2>1, <2>2 DEF HInv, FunctionsStayInside, FunctionEnd
  <2>3. CASE f \notin DOMAIN disasm_funcs
    <3>1. f = s.entry /\ FunctionEnd(f)' = f + (fun_end_addr - s.entry)
      BY <2>1, <2>3 DEF FunctionEnd
    <3>2. FunctionEnd(f)' = fun_end_addr
      BY <1>2, <3>1 DEF TInv, TypeOK
    <3>3. PICK m \in DOMAIN file.sections :
            s.entry \in Inside(Section(m)) /\ fun_end_addr <= End(Section(m))
      BY <1>1, NextIsInside DEF HInv
    <3>4. m = n
      BY <3>1, <3>3 DEF SectionsApart
    <3> QED  BY <3>2, <3>3, <3>4
  <2> QED  BY <2>2, <2>3
<1>6. EndsAreJustified'
  BY <1>1 DEF EndsAreJustified
<1> QED  BY <1>3, <1>4, <1>5, <1>6 DEF HInv

LEMMA HPltBlock ==
  ASSUME TInv, HInv, NEW p \in PltSections, NEW n \in Addr, PltBlock(file.sections[p], n)
  PROVE  HInv'
<1> DEFINE lo == Section(p).vma + ins_i
<1>1. /\ UNCHANGED <<file, pc, func_entrys>> /\ pc = "plt"
      /\ n \in ins_i + 1 .. Section(p).size
      /\ disasm_funcs' = Emplace(lo, PltName, n - ins_i)
  BY DEF PltBlock, Section
<1>2. FromTheTop' /\ WalkIsInside' /\ EndsAreJustified'
  BY <1>1 DEF HInv, FromTheTop, WalkIsInside, EndsAreJustified
<1>3. FunctionsStayInside'
  <2> SUFFICES ASSUME Covered, SectionsApart,
                      NEW f \in DOMAIN disasm_funcs', NEW m \in DOMAIN file.sections,
                      f \in Inside(Section(m))
               PROVE  FunctionEnd(f)' <= End(Section(m))
    BY <1>1, SameFile DEF FunctionsStayInside, End, Inside
  <2>1. /\ DOMAIN disasm_funcs' = DOMAIN disasm_funcs \cup {lo}
        /\ \A g \in DOMAIN disasm_funcs : disasm_funcs'[g] = disasm_funcs[g]
        /\ lo \notin DOMAIN disasm_funcs =>
             disasm_funcs'[lo] = [name |-> PltName, size |-> n - ins_i]
    BY <1>1, EmplaceKeeps
  <2>2. CASE f \in DOMAIN disasm_funcs
    BY <2>1, <2>2 DEF HInv, FunctionsStayInside, FunctionEnd
  <2>3. CASE f \notin DOMAIN disasm_funcs
    <3>1. f = lo /\ FunctionEnd(f)' = f + (n - ins_i)
      BY <2>1, <2>3 DEF FunctionEnd
    <3>2. /\ p \in DOMAIN file.sections /\ Section(p).vma \in Nat /\ Section(p).size \in Nat
          /\ End(Section(p)) = Section(p).vma + Section(p).size
          /\ \A a : a \in Inside(Section(p)) <=>
                     a \in Int /\ Section(p).vma <= a /\ a < End(Section(p))
      BY SectionsAreAddresses DEF TInv, PltSections
    <3>3. ins_i \in Nat /\ n \in Nat /\ ins_i < n /\ n <= Section(p).size
      BY <1>1, <3>2 DEF TInv, TypeOK
    <3>4. FunctionEnd(f)' <= End(Section(p)) /\ lo \in Int
          /\ Section(p).vma <= lo /\ lo < End(Section(p))
      BY <3>1, <3>2, <3>3
    <3>5. p = m
      BY <3>1, <3>2, <3>4 DEF SectionsApart
    <3> QED  BY <3>4, <3>5
  <2> QED  BY <2>2, <2>3
<1> QED  BY <1>2, <1>3 DEF HInv

(* __wrap_main lies within _start, whose instructions are in .text. *)
LEMMA HWrapMain ==
  ASSUME TInv, HInv, NEW a \in Addr, DefineWrapMain(a)
  PROVE  HInv'
<1>1. /\ UNCHANGED <<file, func_entrys>> /\ pc' = "done"
      /\ IsFunctionEntry(StartOf) /\ ReadsText /\ IsWrap(a)
      /\ disasm_funcs' = Emplace(a, WrapMain, WrapSize)
  BY DEF DefineWrapMain
<1>2. FromTheTop' /\ WalkIsInside' /\ EndsAreJustified'
  BY <1>1 DEF HInv, FromTheTop, WalkIsInside, EndsAreJustified
<1>3. FunctionsStayInside'
  <2> SUFFICES ASSUME Covered, SectionsApart,
                      NEW f \in DOMAIN disasm_funcs', NEW m \in DOMAIN file.sections,
                      f \in Inside(Section(m))
               PROVE  FunctionEnd(f)' <= End(Section(m))
    BY <1>1, SameFile DEF FunctionsStayInside, End, Inside
  <2>1. /\ DOMAIN disasm_funcs' = DOMAIN disasm_funcs \cup {a}
        /\ \A g \in DOMAIN disasm_funcs : disasm_funcs'[g] = disasm_funcs[g]
        /\ a \notin DOMAIN disasm_funcs =>
             disasm_funcs'[a] = [name |-> WrapMain, size |-> WrapSize]
    BY <1>1, EmplaceKeeps
  <2>2. CASE f \in DOMAIN disasm_funcs
    BY <2>1, <2>2 DEF HInv, FunctionsStayInside, FunctionEnd
  <2>3. CASE f \notin DOMAIN disasm_funcs
    <3>1. f = a /\ FunctionEnd(f)' = f + WrapSize
      BY <2>1, <2>3 DEF FunctionEnd
    <3>2. /\ StartOf \in DOMAIN disasm_funcs /\ StartOf \in Nat /\ StartEnd \in Nat
          /\ StartEnd = FunctionEnd(StartOf) /\ a \in Nat
      BY <1>1 DEF IsFunctionEntry, TInv, TypeOK, StartEnd, FunctionEnd
    <3>3. StartOf <= a /\ a + WrapSize <= StartEnd
      BY <1>1, <3>2 DEF IsWrap, WrapSize
    <3>4. StartOf \in StartOf .. StartEnd - 1 /\ a \in StartOf .. StartEnd - 1
      BY <3>2, <3>3 DEF WrapSize
    <3>5. InText(StartOf) /\ InText(a)
      BY <1>1, <3>2, <3>3, <3>4 DEF ReadsText, WrapSize
    <3>6. /\ ".text" \in DOMAIN file.sections
          /\ StartOf \in Inside(Section(".text")) /\ a \in Inside(Section(".text"))
      BY <3>5 DEF InText, Section
    <3>7. m = ".text"
      BY <3>1, <3>6 DEF SectionsApart
    <3>8. StartEnd <= End(Section(".text"))
      BY <3>2, <3>6 DEF HInv, FunctionsStayInside
    <3>9. End(Section(".text")) \in Int
      BY <3>6, SectionsAreAddresses DEF TInv
    <3> QED  BY <3>1, <3>2, <3>3, <3>7, <3>8, <3>9 DEF WrapSize
  <2> QED  BY <2>2, <2>3
<1> QED  BY <1>2, <1>3 DEF HInv

LEMMA HStop ==
  ASSUME TInv, HInv, EntryIsFound, NEW how \in {"plt", "wrap"} \cup Ended, Stop(how),
         EndsAreJustified'
  PROVE  HInv'
BY SameFile DEF HInv, Stop, FromTheTop, WalkIsInside, FunctionsStayInside, FunctionEnd, Ended

(* Why elfconv gives up: each way to end is one of those that are named.   *)
LEMMA EndSteps ==
  ASSUME TInv, HInv, EntryIsFound,
         \/ \E s \in func_entrys : NotInOneSection(s) \/ MultipleEntryPoints(s)
         \/ RunPastTheEnd \/ SymbolsDone \/ PltDone
         \/ NoWrapMain \/ StartOutsideText \/ NoEntryFunction
  PROVE  EndsAreJustified'
<1>1. ASSUME NEW s \in func_entrys, NotInOneSection(s)
      PROVE  EndsAreJustified'
  <2>1. /\ pc' = "error" /\ file' = file /\ s \in file.symbols
        /\ \A n \in DOMAIN file.sections : Included(s.entry) # {n}
    BY <1>1 DEF NotInOneSection, Stop, TInv, TypeOK
  <2> QED  BY <2>1, SameFile DEF EndsAreJustified
<1>2. ASSUME NEW s \in func_entrys, MultipleEntryPoints(s)
      PROVE  EndsAreJustified'
  <2>1. /\ pc' = "error" /\ file' = file /\ s \in file.symbols
        /\ IsEntryPoint(s) /\ entry_func_lifted_name # NoName
    BY <1>2 DEF MultipleEntryPoints, Stop, TInv, TypeOK
  <2>2. PICK t \in file.symbols \ func_entrys : IsEntryPoint(t)
    BY <2>1 DEF EntryIsFound
  <2>3. s # t /\ s.entry = t.entry
    BY <2>1, <2>2 DEF IsEntryPoint
  <2> QED  BY <2>1, <2>2, <2>3, SameFile DEF EndsAreJustified
<1>3. CASE RunPastTheEnd
  <2>1. pc = "walk" /\ func_entrys = {} /\ pc' = "undefined" /\ file' = file
    BY <1>3 DEF RunPastTheEnd, Stop
  <2>2. ~Covered
    BY <2>1 DEF HInv, WalkIsInside
  <2> QED  BY <2>1, <2>2, SameFile DEF EndsAreJustified
<1>4. CASE SymbolsDone \/ PltDone \/ NoWrapMain
  BY <1>4 DEF SymbolsDone, PltDone, NoWrapMain, Stop, EndsAreJustified
<1>5. CASE StartOutsideText
  <2>1. /\ pc' = "undefined" /\ file' = file
        /\ IsFunctionEntry(StartOf) /\ ~ReadsText
    BY <1>5 DEF StartOutsideText, Stop
  <2>2. PICK a \in StartOf .. StartEnd - 1 : ~InText(a)
    BY <2>1 DEF ReadsText
  <2>3. /\ StartOf \in DOMAIN disasm_funcs /\ StartOf \in Nat /\ StartEnd \in Nat
        /\ StartEnd = FunctionEnd(StartOf)
    BY <2>1 DEF IsFunctionEntry, TInv, TypeOK, StartEnd, FunctionEnd
  <2>4. ASSUME Covered, SectionsApart, InText(StartOf)
        PROVE  FALSE
    <3>1. ".text" \in DOMAIN file.sections /\ StartOf \in Inside(Section(".text"))
      BY <2>4 DEF InText, Section
    <3>2. StartEnd <= End(Section(".text"))
      BY <2>3, <2>4, <3>1 DEF HInv, FunctionsStayInside
    <3>3. a \in Inside(Section(".text"))
      BY <2>2, <2>3, <3>1, <3>2, SectionsAreAddresses DEF TInv
    <3> QED  BY <2>2, <3>1, <3>3 DEF InText, Section
  <2>5. ~Covered \/ ~SectionsApart \/ ~InText(file.entry_point)
    BY <2>4 DEF StartOf
  <2> QED  BY <2>1, <2>5, SameFile DEF EndsAreJustified
<1>6. CASE NoEntryFunction
  BY <1>6 DEF NoEntryFunction, Stop, IsFunctionEntry, StartOf, EndsAreJustified
<1> QED  BY <1>1, <1>2, <1>3, <1>4, <1>5, <1>6

LEMMA HNext == TInv /\ EntryIsFound /\ HInv /\ [Next]_vars => HInv'
<1> SUFFICES ASSUME TInv, EntryIsFound, HInv, [Next]_vars
             PROVE  HInv'
  OBVIOUS
<1>1. CASE \E s \in func_entrys : FindSection(s) \/ Assign(s)
  BY <1>1, HFindSection, HAssign
<1>2. CASE \E p \in PltSections, n \in Addr : PltBlock(file.sections[p], n)
  BY <1>2, HPltBlock
<1>3. CASE \E a \in Addr : DefineWrapMain(a)
  BY <1>3, HWrapMain
<1>4. CASE \/ \E s \in func_entrys : NotInOneSection(s) \/ MultipleEntryPoints(s)
           \/ RunPastTheEnd \/ SymbolsDone \/ PltDone
           \/ NoWrapMain \/ StartOutsideText \/ NoEntryFunction
  BY <1>4, EndSteps, Stops, HStop
<1>5. CASE UNCHANGED vars
  <2>1. UNCHANGED <<file, pc, func_entrys, section, fun_end_addr, disasm_funcs>>
    BY <1>5 DEF vars
  <2>2. FromTheTop' /\ WalkIsInside' /\ FunctionsStayInside'
    BY <2>1, SameFile DEF HInv, FromTheTop, WalkIsInside, FunctionsStayInside, FunctionEnd
  <2>3. EndsAreJustified'
    BY <2>1, SameFile DEF HInv, EndsAreJustified
  <2> QED  BY <2>2, <2>3 DEF HInv
<1> QED  BY <1>1, <1>2, <1>3, <1>4, <1>5, NextCases

LEMMA HInvariance == Spec => []HInv
BY HInit, HNext, TInvariance, EntryInvariance, PTL DEF Spec

(* A file is refused only for one of three reasons, and nothing is read    *)
(* that is not there if the symbols cover the sections, the sections are   *)
(* apart and the entry point is in .text.                                  *)
THEOREM EndsAreJustifiedTheorem == Spec => []EndsAreJustified
BY HInvariance, PTL DEF HInv

-----------------------------------------------------------------------------
(* Who owns an instruction, while the table grows. *)
Tidy == Covered /\ SectionsApart /\ PltHasNoSymbols

Mine(n, a) == memory[a] = a /\ \E f \in Inside(Section(n)) : Owners(a) = {f}
Owned(n, first, end) == \A a \in first .. end - 1 : Mine(n, a)
Unowned(first, end) == \A a \in first .. end - 1 : Owners(a) = {}
OwnedSection(n) == Owned(n, Section(n).vma, End(Section(n)))

(* No function has the name of __wrap_main before it is defined. *)
NoWrapYet ==
  pc \in {"symbols", "walk", "plt", "wrap"} =>
    \A f \in DOMAIN disasm_funcs : disasm_funcs[f].name # WrapMain

(* A byte is the one of its address or not known. *)
BytesAreRight == \A a \in Addr : memory[a] \in {a, Unmapped}

(* A section is finished, or it is walked and owned from fun_end_addr on,  *)
(* or it has no function yet.                                              *)
Finished(n) ==
  /\ HasSymbol(n) /\ OwnedSection(n)
  /\ \A t \in func_entrys : t.entry <= Section(n).vma

Current(n) ==
  /\ pc = "walk" /\ section = Section(n) /\ HasSymbol(n)
  /\ Unowned(Section(n).vma, fun_end_addr)
  /\ Owned(n, fun_end_addr, End(Section(n)))

Untouched(n) ==
  /\ ~(pc = "walk" /\ section = Section(n))
  /\ Unowned(Section(n).vma, End(Section(n)))
  /\ HasSymbol(n) => \E t \in func_entrys : t.entry \in Inside(Section(n))

SectionsAreWalked ==
  pc \in {"symbols", "walk"} =>
    /\ ins_i = 0
    /\ \A n \in DOMAIN file.sections : Finished(n) \/ Current(n) \/ Untouched(n)

PltIsRead ==
  pc = "plt" =>
    /\ \A n \in DOMAIN file.sections : HasSymbol(n) => OwnedSection(n)
    /\ \A p \in PltSections :
         /\ Owned(p, Section(p).vma, Section(p).vma + ins_i)
         /\ Unowned(Section(p).vma + ins_i, End(Section(p)))

AllIsOwned ==
  pc \in {"wrap", "done"} =>
    \A n \in DOMAIN file.sections : HasSymbol(n) \/ n \in PltSections => OwnedSection(n)

OInv ==
  /\ NoWrapYet
  /\ Tidy => BytesAreRight /\ SectionsAreWalked /\ PltIsRead /\ AllIsOwned

(* The owners of an address, with the end of a function written out. *)
LEMMA OwnersAre ==
  ASSUME TypeOK
  PROVE  \A a, f : f \in Owners(a) <=>
           /\ f \in DOMAIN disasm_funcs /\ disasm_funcs[f].name # WrapMain
           /\ a \in f .. (f + disasm_funcs[f].size) - 1
BY DEF Owners, FunctionEnd

LEMMA OwnersAreNext ==
  ASSUME TypeOK'
  PROVE  \A a, f : f \in Owners(a)' <=>
           /\ f \in DOMAIN disasm_funcs' /\ disasm_funcs'[f].name # WrapMain
           /\ a \in f .. (f + disasm_funcs'[f].size) - 1
BY DEF Owners, FunctionEnd

(* A function that is there already, or that is __wrap_main, owns nothing  *)
(* new.                                                                    *)
LEMMA SameOwners ==
  ASSUME TypeOK, TypeOK', NEW lo, NEW name, NEW size,
         disasm_funcs' = Emplace(lo, name, size),
         IsFunctionEntry(lo) \/ name = WrapMain
  PROVE  \A a : Owners(a)' = Owners(a)
<1>1. /\ DOMAIN disasm_funcs' = DOMAIN disasm_funcs \cup {lo}
      /\ \A f \in DOMAIN disasm_funcs : disasm_funcs'[f] = disasm_funcs[f]
      /\ lo \notin DOMAIN disasm_funcs => disasm_funcs'[lo] = [name |-> name, size |-> size]
  BY EmplaceKeeps
<1>2. \A a, f : f \in Owners(a)' <=> f \in Owners(a)
  BY <1>1, OwnersAre, OwnersAreNext DEF IsFunctionEntry
<1> QED  BY <1>2

(* A new function owns the addresses nobody owned. *)
LEMMA NewOwner ==
  ASSUME TypeOK, TypeOK', NEW lo \in Addr, NEW hi \in Addr, NEW name, lo < hi, name # WrapMain,
         disasm_funcs' = Emplace(lo, name, hi - lo), ~IsFunctionEntry(lo), Unowned(lo, hi)
  PROVE  \A a \in Addr : Owners(a)' = IF a \in lo .. hi - 1 THEN {lo} ELSE Owners(a)
<1>1. /\ DOMAIN disasm_funcs' = DOMAIN disasm_funcs \cup {lo}
      /\ \A f \in DOMAIN disasm_funcs : disasm_funcs'[f] = disasm_funcs[f]
      /\ disasm_funcs'[lo] = [name |-> name, size |-> hi - lo]
  BY EmplaceKeeps DEF IsFunctionEntry
<1>2. disasm_funcs'[lo].name # WrapMain /\ lo + disasm_funcs'[lo].size = hi
  BY <1>1
<1>3. lo \notin DOMAIN disasm_funcs
  BY DEF IsFunctionEntry
<1>4. \A a, f : f \in Owners(a)' <=> f \in Owners(a) \/ (f = lo /\ a \in lo .. hi - 1)
  <2> TAKE a, f
  <2>1. CASE f = lo
    BY <1>1, <1>2, <1>3, <2>1, OwnersAre, OwnersAreNext
  <2>2. CASE f # lo
    BY <1>1, <2>2, OwnersAre, OwnersAreNext
  <2> QED  BY <2>1, <2>2
<1>5. ASSUME NEW a \in Addr, a \in lo .. hi - 1
      PROVE  Owners(a)' = {lo}
  <2>1. Owners(a) = {}
    BY <1>5 DEF Unowned
  <2>2. \A f : f \in Owners(a)' <=> f \in {lo}
    BY <1>4, <1>5, <2>1
  <2> QED  BY <2>2
<1>6. ASSUME NEW a \in Addr, a \notin lo .. hi - 1
      PROVE  Owners(a)' = Owners(a)
  BY <1>4, <1>6, Zenon
<1> QED  BY <1>5, <1>6

(* Nobody starts at an address that nobody owns. *)
LEMMA UnownedIsNoEntry ==
  ASSUME TInv, NEW a \in Addr, Owners(a) = {},
         \A f \in DOMAIN disasm_funcs : disasm_funcs[f].name # WrapMain
  PROVE  ~IsFunctionEntry(a)
<1> SUFFICES ASSUME a \in DOMAIN disasm_funcs
             PROVE  FALSE
  BY DEF IsFunctionEntry
<1>1. disasm_funcs[a].size \in Nat /\ disasm_funcs[a].size > 0
  BY DEF TInv, TypeOK, FunctionsAreMapped
<1>2. a \in a .. (a + disasm_funcs[a].size) - 1
  BY <1>1
<1>3. a \in Owners(a)
  BY <1>2, OwnersAre DEF TInv
<1> QED  BY <1>3

(* Who starts the section owns its first instruction. *)
LEMMA OwnedFromItsStart ==
  ASSUME TInv, NEW n \in DOMAIN file.sections, OwnedSection(n),
         Section(n).vma \in Inside(Section(n))
  PROVE  IsFunctionEntry(Section(n).vma)
<1> DEFINE v == Section(n).vma
<1>1. v \in Nat /\ End(Section(n)) \in Nat /\ v < End(Section(n))
  BY SectionsAreAddresses DEF TInv
<1>2. PICK f \in Inside(Section(n)) : Owners(v) = {f}
  BY <1>1 DEF OwnedSection, Owned, Mine
<1>3. f \in DOMAIN disasm_funcs /\ v \in f .. (f + disasm_funcs[f].size) - 1
  BY <1>2, OwnersAre DEF TInv
<1>4. f \in Int /\ v <= f
  BY SectionsAreAddresses DEF TInv
<1>5. f = v
  BY <1>1, <1>3, <1>4
<1> QED  BY <1>3, <1>5 DEF IsFunctionEntry

(* The bytes after a copy from the section they belong to. *)
LEMMA CopiedInside ==
  ASSUME NEW sec, NEW lo, NEW hi, lo .. hi - 1 \subseteq Inside(sec),
         memory' = Copied(sec, lo, hi)
  PROVE  \A a \in Addr : memory'[a] = IF a \in lo .. hi - 1 THEN a ELSE memory[a]
BY DEF Copied, ByteOf

LEMMA MineNext ==
  ASSUME file' = file, NEW n, NEW a
  PROVE  Mine(n, a)' <=> memory'[a] = a /\ \E f \in Inside(Section(n)) : Owners(a)' = {f}
BY SameFile DEF Mine, Inside, End

LEMMA OInit == Init => OInv
<1> SUFFICES ASSUME Init
             PROVE  OInv
  OBVIOUS
<1>1. NoWrapYet /\ BytesAreRight /\ PltIsRead /\ AllIsOwned
  BY DEF Init, NoWrapYet, BytesAreRight, PltIsRead, AllIsOwned
<1>2. \A a : Owners(a) = {}
  BY DEF Init, Owners
<1>3. \A n \in DOMAIN file.sections : Untouched(n)
  BY <1>2 DEF Init, Untouched, Unowned, HasSymbol
<1>4. SectionsAreWalked
  BY <1>3 DEF Init, SectionsAreWalked
<1> QED  BY <1>1, <1>4 DEF OInv

(* Nothing changes for an instruction when memory and the table stay. *)
LEMMA MineStays ==
  ASSUME UNCHANGED <<file, memory, disasm_funcs>>
  PROVE  /\ \A a : Owners(a)' = Owners(a)
         /\ \A n, a : Mine(n, a)' <=> Mine(n, a)
         /\ \A n : OwnedSection(n)' <=> OwnedSection(n)
<1>1. \A a : Owners(a)' = Owners(a)
  BY DEF Owners, FunctionEnd
<1>2. \A n, a : Mine(n, a)' <=> Mine(n, a)
  BY <1>1, MineNext DEF Mine
<1>3. \A n : OwnedSection(n)' <=> OwnedSection(n)
  BY <1>2, SameFile DEF OwnedSection, Owned, End
<1> QED  BY <1>1, <1>2, <1>3

LEMMA OFindSection ==
  ASSUME TInv, OInv, NEW s \in func_entrys, FindSection(s)
  PROVE  OInv'
<1>1. PICK n \in Included(s.entry) :
        /\ section' = file.sections[n]
        /\ fun_end_addr' = End(file.sections[n])
  BY DEF FindSection
<1>2. /\ UNCHANGED <<file, func_entrys, memory, disasm_funcs, ins_i>>
      /\ pc = "symbols" /\ pc' = "walk" /\ \A t \in func_entrys : t.entry <= s.entry
  BY DEF FindSection, Highest
<1>3. NoWrapYet'
  BY <1>2 DEF OInv, NoWrapYet
<1> SUFFICES ASSUME Tidy
             PROVE  (BytesAreRight /\ SectionsAreWalked /\ PltIsRead /\ AllIsOwned)'
  BY <1>2, <1>3, SameFile DEF OInv, Tidy
<1>4. BytesAreRight' /\ PltIsRead' /\ AllIsOwned'
  BY <1>2 DEF OInv, BytesAreRight, PltIsRead, AllIsOwned
<1>5. /\ n \in DOMAIN file.sections /\ s.entry \in Inside(Section(n)) /\ section' = Section(n)
      /\ fun_end_addr' = End(Section(n))
  BY <1>1 DEF Included, Section
<1>6. ASSUME NEW m \in DOMAIN file.sections
      PROVE  (Finished(m) \/ Current(m) \/ Untouched(m))'
  <2>1. Finished(m) \/ Untouched(m)
    BY <1>2 DEF OInv, SectionsAreWalked, Current
  <2>2. /\ HasSymbol(m)' = HasSymbol(m) /\ Section(m)' = Section(m)
        /\ End(Section(m))' = End(Section(m)) /\ Inside(Section(m))' = Inside(Section(m))
    BY <1>2, SameFile DEF End, Inside
  <2>3. CASE Finished(m)
    BY <1>2, <2>2, <2>3, MineStays DEF Finished
  <2>4. CASE Untouched(m) /\ m = n
    <3>1. HasSymbol(n)
      BY <1>5 DEF HasSymbol, TInv, TypeOK
    <3>2. Unowned(Section(n).vma, fun_end_addr)'
      BY <1>5, <2>2, <2>4, <1>2, MineStays DEF Untouched, Unowned
    <3>3. Owned(n, fun_end_addr, End(Section(n)))'
      <4>1. End(Section(n)) \in Int
        BY <1>5, SectionsAreAddresses DEF TInv
      <4> QED  BY <4>1, <1>5, <2>2, <2>4 DEF Owned
    <3> QED  BY <1>2, <1>5, <2>2, <2>4, <3>1, <3>2, <3>3 DEF Current
  <2>5. CASE Untouched(m) /\ m # n
    <3>1. Section(m) # Section(n)
      BY <1>5, <2>5 DEF Tidy, SectionsApart
    <3> QED  BY <1>2, <1>5, <2>2, <2>5, <3>1, MineStays DEF Untouched, Unowned
  <2> QED  BY <2>1, <2>3, <2>4, <2>5
<1>7. SectionsAreWalked'
  BY <1>2, <1>6 DEF OInv, SectionsAreWalked
<1> QED  BY <1>4, <1>7

(* What Assign does to the instructions: those of the function, which are  *)
(* inside the walked section, get their bytes, and the function owns them  *)
(* unless it was there already.                                            *)
LEMMA AssignEffect ==
  ASSUME TInv, TypeOK', HInv, OInv, Tidy, NEW s \in func_entrys, Assign(s)
  PROVE  \E n \in DOMAIN file.sections :
           /\ section = Section(n) /\ s.entry \in Inside(Section(n))
           /\ s.entry <= fun_end_addr /\ fun_end_addr <= End(Section(n))
           /\ s.entry .. fun_end_addr - 1 \subseteq Inside(Section(n))
           /\ \A a \in Addr : memory'[a] = IF a \in s.entry .. fun_end_addr - 1 THEN a ELSE memory[a]
           /\ IsFunctionEntry(s.entry) => \A a \in Addr : Owners(a)' = Owners(a)
           /\ s.entry < fun_end_addr /\ Unowned(s.entry, fun_end_addr) =>
                \A a \in Addr : Owners(a)' = IF a \in s.entry .. fun_end_addr - 1 THEN {s.entry}
                                          ELSE Owners(a)
<1>1. /\ pc = "walk" /\ \A t \in func_entrys : t.entry <= s.entry
      /\ memory' = Copied(section, s.entry, fun_end_addr)
      /\ disasm_funcs' = Emplace(s.entry, s.name, fun_end_addr - s.entry)
  BY DEF Assign, Highest
<1>2. PICK n \in DOMAIN file.sections :
        /\ section = Section(n) /\ s.entry \in Inside(Section(n))
        /\ s.entry <= fun_end_addr /\ fun_end_addr <= End(Section(n))
  BY <1>1, NextIsInside DEF HInv, Tidy
<1>3. s.entry \in Addr /\ fun_end_addr \in Addr /\ s.name # WrapMain
  BY SymbolsAreAddresses, FileIsElf DEF TInv, TypeOK, ElfFile
<1>4. s.entry .. fun_end_addr - 1 \subseteq Inside(Section(n))
  BY <1>2, <1>3, SectionsAreAddresses DEF TInv
<1>5. \A a \in Addr : memory'[a] = IF a \in s.entry .. fun_end_addr - 1 THEN a ELSE memory[a]
  BY <1>1, <1>2, <1>4, CopiedInside
<1>6. IsFunctionEntry(s.entry) => \A a \in Addr : Owners(a)' = Owners(a)
  BY <1>1, SameOwners DEF TInv
<1>7. ASSUME s.entry < fun_end_addr, Unowned(s.entry, fun_end_addr)
      PROVE  \A a \in Addr : Owners(a)' = IF a \in s.entry .. fun_end_addr - 1 THEN {s.entry}
                                       ELSE Owners(a)
  <2>1. Owners(s.entry) = {}
    BY <1>3, <1>7 DEF Unowned
  <2>2. ~IsFunctionEntry(s.entry)
    BY <1>1, <1>3, <2>1, UnownedIsNoEntry DEF OInv, NoWrapYet
  <2> QED  BY <1>1, <1>3, <1>7, <2>2, NewOwner DEF TInv
<1> QED  BY <1>2, <1>4, <1>5, <1>6, <1>7

LEMMA OAssign ==
  ASSUME TInv, TInv', HInv, OInv, NEW s \in func_entrys, Assign(s)
  PROVE  OInv'
<1>1. /\ UNCHANGED <<file, section, ins_i>>
      /\ pc = "walk" /\ \A t \in func_entrys : t.entry <= s.entry
      /\ fun_end_addr' = s.entry /\ func_entrys' = func_entrys \ {s}
      /\ pc' = IF section.vma < s.entry THEN "walk" ELSE "symbols"
      /\ disasm_funcs' = Emplace(s.entry, s.name, fun_end_addr - s.entry)
  BY DEF Assign, Highest, AfterAssign
<1>2. NoWrapYet'
  <2>1. s.name # WrapMain
    BY FileIsElf DEF TInv, TypeOK, ElfFile
  <2>2. /\ DOMAIN disasm_funcs' = DOMAIN disasm_funcs \cup {s.entry}
        /\ \A g \in DOMAIN disasm_funcs : disasm_funcs'[g] = disasm_funcs[g]
        /\ s.entry \notin DOMAIN disasm_funcs =>
             disasm_funcs'[s.entry] = [name |-> s.name, size |-> fun_end_addr - s.entry]
    BY <1>1, EmplaceKeeps
  <2>3. \A f \in DOMAIN disasm_funcs : disasm_funcs[f].name # WrapMain
    BY <1>1 DEF OInv, NoWrapYet
  <2> QED  BY <2>1, <2>2, <2>3 DEF NoWrapYet
<1> SUFFICES ASSUME Tidy
             PROVE  (BytesAreRight /\ SectionsAreWalked /\ PltIsRead /\ AllIsOwned)'
  BY <1>1, <1>2, SameFile DEF OInv, Tidy
<1>3. PICK n \in DOMAIN file.sections :
        /\ section = Section(n) /\ s.entry \in Inside(Section(n))
        /\ s.entry <= fun_end_addr /\ fun_end_addr <= End(Section(n))
        /\ s.entry .. fun_end_addr - 1 \subseteq Inside(Section(n))
        /\ \A a \in Addr : memory'[a] = IF a \in s.entry .. fun_end_addr - 1 THEN a ELSE memory[a]
        /\ IsFunctionEntry(s.entry) => \A a \in Addr : Owners(a)' = Owners(a)
        /\ s.entry < fun_end_addr /\ Unowned(s.entry, fun_end_addr) =>
             \A a \in Addr : Owners(a)' = IF a \in s.entry .. fun_end_addr - 1 THEN {s.entry}
                                       ELSE Owners(a)
  BY AssignEffect DEF TInv
<1>4. BytesAreRight' /\ PltIsRead' /\ AllIsOwned'
  BY <1>1, <1>3 DEF OInv, BytesAreRight, PltIsRead, AllIsOwned
<1>5. /\ \A m \in DOMAIN file.sections : HasSymbol(m)' = HasSymbol(m) /\ Section(m)' = Section(m)
           /\ End(Section(m))' = End(Section(m)) /\ Inside(Section(m))' = Inside(Section(m))
  BY <1>1, SameFile DEF End, Inside
<1>6. /\ Section(n).vma \in Nat /\ End(Section(n)) \in Nat /\ End(Section(n)) <= MaxAddr
      /\ s.entry \in Nat /\ fun_end_addr \in Nat
      /\ Section(n).vma <= s.entry /\ s.entry < End(Section(n))
      /\ \A t \in func_entrys : t.entry \in Nat
  BY <1>3, SectionsAreAddresses, SymbolsAreAddresses DEF TInv, TypeOK
<1>7. HasSymbol(n)
  BY <1>3 DEF HasSymbol, TInv, TypeOK
<1>8. Finished(n) \/ Current(n)
  BY <1>1, <1>3 DEF OInv, SectionsAreWalked, Untouched
<1>9. \/ IsFunctionEntry(s.entry)
      \/ s.entry < fun_end_addr /\ Unowned(s.entry, fun_end_addr)
  <2>1. CASE Finished(n)
    <3>1. s.entry = Section(n).vma
      BY <1>6, <2>1 DEF Finished
    <3> QED  BY <3>1, <1>3, <2>1, OwnedFromItsStart DEF Finished
  <2>2. CASE Current(n)
    <3>1. Unowned(s.entry, fun_end_addr)
      BY <1>6, <2>2 DEF Current, Unowned
    <3> QED  BY <1>1, <3>1 DEF TInv, SymbolsAreBelow
  <2> QED  BY <1>8, <2>1, <2>2
<1>10. \A a \in Addr : a \notin s.entry .. fun_end_addr - 1 =>
         memory'[a] = memory[a] /\ Owners(a)' = Owners(a)
  BY <1>3, <1>9
<1>11. ASSUME NEW m \in DOMAIN file.sections, m # n
       PROVE  (Finished(m) \/ Current(m) \/ Untouched(m))'
  <2>1. Inside(Section(m)) \cap Inside(Section(n)) = {}
    BY <1>11 DEF Tidy, SectionsApart
  <2>2. /\ Section(m).vma \in Nat /\ End(Section(m)) \in Nat /\ End(Section(m)) <= MaxAddr
        /\ Section(m).vma .. End(Section(m)) - 1 = Inside(Section(m))
        /\ Inside(Section(m)) \subseteq Addr
    BY SectionsAreAddresses DEF TInv, Inside
  <2>3. \A a \in Inside(Section(m)) : memory'[a] = memory[a] /\ Owners(a)' = Owners(a)
    BY <1>3, <1>10, <2>1, <2>2
  <2>4. Section(m) # Section(n)
    BY <1>3, <2>1
  <2>5. Finished(m) \/ Untouched(m)
    BY <1>1, <1>3, <2>4 DEF OInv, SectionsAreWalked, Current
  <2>6. CASE Finished(m)
    <3>1. \A a \in Inside(Section(m)) : Mine(m, a)
      BY <2>2, <2>6 DEF Finished, OwnedSection, Owned
    <3>2. \A a \in Inside(Section(m)) : Mine(m, a)'
      BY <1>1, <2>3, <3>1, MineNext DEF Mine
    <3>3. OwnedSection(m)'
      BY <1>5, <2>2, <3>2 DEF OwnedSection, Owned
    <3> QED  BY <1>1, <1>5, <2>6, <3>3 DEF Finished
  <2>7. CASE Untouched(m)
    <3>1. Unowned(Section(m).vma, End(Section(m)))'
      BY <1>5, <2>2, <2>3, <2>7 DEF Untouched, Unowned
    <3>2. HasSymbol(m) => \E t \in func_entrys \ {s} : t.entry \in Inside(Section(m))
      BY <1>3, <2>1, <2>7 DEF Untouched
    <3> QED  BY <1>1, <1>3, <1>5, <2>4, <3>1, <3>2 DEF Untouched
  <2> QED  BY <2>5, <2>6, <2>7
<1>12. ASSUME Finished(n)
       PROVE  Finished(n)'
  <2>1. s.entry = Section(n).vma
    BY <1>6, <1>12 DEF Finished
  <2>2. IsFunctionEntry(s.entry)
    BY <2>1, <1>3, <1>12, OwnedFromItsStart DEF Finished
  <2>3. \A a \in Addr : Owners(a)' = Owners(a)
    BY <1>3, <2>2
  <2>4. Section(n).vma .. End(Section(n)) - 1 \subseteq Addr
    BY <1>6
  <2>5. OwnedSection(n)'
    BY <1>1, <1>3, <1>5, <1>12, <2>3, <2>4, MineNext DEF Finished, OwnedSection, Owned, Mine
  <2> QED  BY <1>1, <1>5, <1>12, <2>5 DEF Finished
<1>13. ASSUME Current(n)
       PROVE  Finished(n)' \/ Current(n)'
  <2>1. \A a \in Section(n).vma .. s.entry - 1 : Owners(a)' = {}
    <3>1. \A a \in Section(n).vma .. s.entry - 1 :
            /\ a \in Addr /\ a \notin s.entry .. fun_end_addr - 1
            /\ a \in Section(n).vma .. fun_end_addr - 1
      BY <1>3, <1>6
    <3> QED  BY <1>10, <1>13, <3>1 DEF Current, Unowned
  <2>2. \A a \in s.entry .. End(Section(n)) - 1 : Mine(n, a)'
    <3> SUFFICES ASSUME NEW a \in s.entry .. End(Section(n)) - 1
                 PROVE  Mine(n, a)'
      OBVIOUS
    <3>1. a \in Addr
      BY <1>6
    <3>2. CASE a \in s.entry .. fun_end_addr - 1
      <4>1. s.entry < fun_end_addr /\ Unowned(s.entry, fun_end_addr)
        BY <1>6, <1>13, <3>2 DEF Current, Unowned
      <4>2. memory'[a] = a /\ Owners(a)' = {s.entry}
        BY <1>3, <3>1, <3>2, <4>1
      <4> QED  BY <1>1, <1>3, <4>2, MineNext
    <3>3. CASE a \notin s.entry .. fun_end_addr - 1
      <4>1. a \in fun_end_addr .. End(Section(n)) - 1
        BY <1>6, <3>3
      <4>2. Mine(n, a)
        BY <1>13, <4>1 DEF Current, Owned
      <4>3. memory'[a] = memory[a] /\ Owners(a)' = Owners(a)
        BY <1>10, <3>1, <3>3
      <4> QED  BY <1>1, <4>2, <4>3, MineNext DEF Mine
    <3> QED  BY <3>2, <3>3
  <2>3. CASE section.vma < s.entry
    <3>1. Unowned(Section(n).vma, fun_end_addr)' /\ Owned(n, fun_end_addr, End(Section(n)))'
      BY <1>1, <1>3, <1>5, <2>1, <2>2 DEF Unowned, Owned
    <3> QED  BY <1>1, <1>3, <1>5, <1>7, <2>3, <3>1 DEF Current
  <2>4. CASE ~(section.vma < s.entry)
    <3>1. s.entry = Section(n).vma
      BY <1>3, <1>6, <2>4
    <3>2. OwnedSection(n)'
      BY <1>5, <2>2, <3>1 DEF OwnedSection, Owned
    <3> QED  BY <1>1, <1>5, <1>7, <3>1, <3>2 DEF Finished
  <2> QED  BY <2>3, <2>4
<1>14. SectionsAreWalked'
  BY <1>1, <1>8, <1>11, <1>12, <1>13 DEF OInv, SectionsAreWalked
<1> QED  BY <1>4, <1>14

(* At most one of the PLT sections is read. *)
LEMMA OnePlt ==
  ASSUME NEW p \in PltSections, NEW q \in PltSections
  PROVE  p = q
BY DEF PltSections

LEMMA OPltBlock ==
  ASSUME TInv, TInv', OInv, NEW p \in PltSections, NEW n \in Addr,
         PltBlock(file.sections[p], n)
  PROVE  OInv'
<1> DEFINE lo == Section(p).vma + ins_i
           hi == Section(p).vma + n
<1>1. /\ UNCHANGED <<file, pc, func_entrys, section, fun_end_addr>>
      /\ pc = "plt" /\ n \in ins_i + 1 .. Section(p).size /\ ins_i' = n
      /\ memory' = Copied(Section(p), lo, hi)
      /\ disasm_funcs' = Emplace(lo, PltName, n - ins_i)
  BY DEF PltBlock, Section
<1>2. /\ p \in DOMAIN file.sections
      /\ Section(p).vma \in Nat /\ Section(p).size \in Nat
      /\ End(Section(p)) = Section(p).vma + Section(p).size /\ End(Section(p)) <= MaxAddr
      /\ \A a : a \in Inside(Section(p)) <=>
                 a \in Int /\ Section(p).vma <= a /\ a < End(Section(p))
  BY SectionsAreAddresses DEF TInv, PltSections
<1>3. ins_i \in Nat /\ n \in Nat /\ ins_i < n /\ n <= Section(p).size
  BY <1>1, <1>2 DEF TInv, TypeOK
<1>4. /\ lo \in Addr /\ hi \in Addr /\ lo < hi /\ hi <= End(Section(p))
      /\ hi - lo = n - ins_i /\ Section(p).vma <= lo
  BY <1>2, <1>3
<1>5. disasm_funcs' = Emplace(lo, PltName, hi - lo) /\ lo \in Inside(Section(p))
  BY <1>1, <1>2, <1>4
<1> HIDE DEF lo, hi
<1>6. NoWrapYet'
  <2>1. /\ DOMAIN disasm_funcs' = DOMAIN disasm_funcs \cup {lo}
        /\ \A g \in DOMAIN disasm_funcs : disasm_funcs'[g] = disasm_funcs[g]
        /\ lo \notin DOMAIN disasm_funcs => disasm_funcs'[lo] = [name |-> PltName, size |-> hi - lo]
    BY <1>5, EmplaceKeeps
  <2>2. \A f \in DOMAIN disasm_funcs : disasm_funcs[f].name # WrapMain
    BY <1>1 DEF OInv, NoWrapYet
  <2> QED  BY <2>1, <2>2, MarkersAssumption DEF NoWrapYet
<1> SUFFICES ASSUME Tidy
             PROVE  (BytesAreRight /\ SectionsAreWalked /\ PltIsRead /\ AllIsOwned)'
  BY <1>1, <1>6, SameFile DEF OInv, Tidy
<1>7. /\ \A m \in DOMAIN file.sections : HasSymbol(m) => OwnedSection(m)
      /\ Owned(p, Section(p).vma, lo) /\ Unowned(lo, End(Section(p)))
  BY <1>1 DEF OInv, PltIsRead, lo
<1>8. Unowned(lo, hi)
  BY <1>2, <1>4, <1>7 DEF Unowned
<1>9. lo .. hi - 1 \subseteq Inside(Section(p))
  BY <1>2, <1>4
<1>10. \A a \in Addr : memory'[a] = IF a \in lo .. hi - 1 THEN a ELSE memory[a]
  BY <1>1, <1>9, CopiedInside
<1>11. Owners(lo) = {}
  BY <1>4, <1>8 DEF Unowned
<1>12. ~IsFunctionEntry(lo)
  BY <1>1, <1>4, <1>11, UnownedIsNoEntry DEF OInv, NoWrapYet
<1>13. \A a \in Addr : Owners(a)' = IF a \in lo .. hi - 1 THEN {lo} ELSE Owners(a)
  BY <1>4, <1>5, <1>8, <1>12, NewOwner, MarkersAssumption DEF TInv
<1>14. \A m \in DOMAIN file.sections :
         HasSymbol(m)' = HasSymbol(m) /\ Section(m)' = Section(m)
         /\ End(Section(m))' = End(Section(m))
  BY <1>1, SameFile DEF End
<1>15. BytesAreRight' /\ SectionsAreWalked' /\ AllIsOwned'
  BY <1>1, <1>10 DEF OInv, BytesAreRight, SectionsAreWalked, AllIsOwned
<1>16. ASSUME NEW m \in DOMAIN file.sections, HasSymbol(m)
       PROVE  OwnedSection(m)'
  <2>1. m # p
    BY <1>16 DEF Tidy, PltHasNoSymbols
  <2>2. Inside(Section(m)) \cap Inside(Section(p)) = {}
    BY <1>2, <2>1 DEF Tidy, SectionsApart
  <2>3. /\ Section(m).vma .. End(Section(m)) - 1 = Inside(Section(m))
        /\ Inside(Section(m)) \subseteq Addr
    BY SectionsAreAddresses DEF TInv, Inside
  <2>4. \A a \in Inside(Section(m)) : Mine(m, a)
    BY <1>7, <1>16, <2>3 DEF OwnedSection, Owned
  <2>5. \A a \in Inside(Section(m)) : memory'[a] = memory[a] /\ Owners(a)' = Owners(a)
    BY <1>9, <1>10, <1>13, <2>2, <2>3
  <2>6. \A a \in Inside(Section(m)) : Mine(m, a)'
    BY <1>1, <2>4, <2>5, MineNext DEF Mine
  <2> QED  BY <1>14, <2>3, <2>6 DEF OwnedSection, Owned
<1>17. \A a \in hi .. End(Section(p)) - 1 : Owners(a)' = {}
  <2>1. \A a \in hi .. End(Section(p)) - 1 :
          a \in Addr /\ a \notin lo .. hi - 1 /\ a \in lo .. End(Section(p)) - 1
    BY <1>2, <1>4
  <2> QED  BY <1>7, <1>13, <2>1 DEF Unowned
<1>18. \A a \in Section(p).vma .. hi - 1 : Mine(p, a)'
  <2> SUFFICES ASSUME NEW a \in Section(p).vma .. hi - 1
               PROVE  Mine(p, a)'
    OBVIOUS
  <2>1. a \in Addr
    BY <1>2, <1>4
  <2>2. CASE a \in lo .. hi - 1
    BY <1>1, <1>5, <1>10, <1>13, <2>1, <2>2, MineNext
  <2>3. CASE a \notin lo .. hi - 1
    <3>1. a \in Section(p).vma .. lo - 1
      BY <1>2, <1>4, <2>3
    <3>2. Mine(p, a)
      BY <1>7, <3>1 DEF Owned
    <3> QED  BY <1>1, <1>10, <1>13, <2>1, <2>3, <3>2, MineNext DEF Mine
  <2> QED  BY <2>2, <2>3
<1>19. PltIsRead'
  <2>1. \A q \in PltSections' : q = p
    BY <1>1, SameFile, OnePlt
  <2>2. hi = Section(p)'.vma + ins_i' /\ Section(p)' = Section(p)
    BY <1>1, <1>2, <1>14 DEF hi
  <2>3. Owned(p, Section(p).vma, Section(p).vma + ins_i)'
    BY <1>18, <2>2 DEF Owned
  <2>4. Unowned(Section(p).vma + ins_i, End(Section(p)))'
    BY <1>2, <1>14, <1>17, <2>2 DEF Unowned
  <2> QED  BY <1>1, <1>14, <1>16, <2>1, <2>3, <2>4 DEF PltIsRead
<1> QED  BY <1>15, <1>19

LEMMA OWrapMain ==
  ASSUME TInv, TInv', OInv, NEW a \in Addr, DefineWrapMain(a)
  PROVE  OInv'
<1>1. /\ UNCHANGED <<file, memory>> /\ pc = "wrap" /\ pc' = "done"
      /\ disasm_funcs' = Emplace(a, WrapMain, WrapSize)
  BY DEF DefineWrapMain
<1>2. NoWrapYet'
  BY <1>1 DEF NoWrapYet
<1> SUFFICES ASSUME Tidy
             PROVE  (BytesAreRight /\ SectionsAreWalked /\ PltIsRead /\ AllIsOwned)'
  BY <1>1, <1>2, SameFile DEF OInv, Tidy
<1>3. BytesAreRight' /\ SectionsAreWalked' /\ PltIsRead'
  BY <1>1 DEF OInv, BytesAreRight, SectionsAreWalked, PltIsRead
<1>4. \A b : Owners(b)' = Owners(b)
  BY <1>1, SameOwners DEF TInv
<1>5. \A n, b : Mine(n, b) => Mine(n, b)'
  BY <1>1, <1>4, MineNext DEF Mine
<1>6. ASSUME NEW n \in DOMAIN file.sections, HasSymbol(n) \/ n \in PltSections
      PROVE  OwnedSection(n)'
  <2>1. OwnedSection(n)
    BY <1>1, <1>6 DEF OInv, AllIsOwned
  <2>2. Section(n)' = Section(n) /\ End(Section(n))' = End(Section(n))
    BY <1>1, SameFile DEF End
  <2> QED  BY <1>5, <2>1, <2>2 DEF OwnedSection, Owned
<1>7. AllIsOwned'
  BY <1>1, <1>6, SameFile DEF AllIsOwned
<1> QED  BY <1>3, <1>7

(* The steps that only go on: the symbols are done, the PLT is done, or it *)
(* ends.                                                                   *)
LEMMA OStop ==
  ASSUME TInv, OInv,
         \/ \E s \in func_entrys : NotInOneSection(s) \/ MultipleEntryPoints(s)
         \/ RunPastTheEnd \/ SymbolsDone \/ PltDone
         \/ NoWrapMain \/ StartOutsideText \/ NoEntryFunction
  PROVE  OInv'
<1>1. /\ UNCHANGED <<file, func_entrys, section, fun_end_addr, memory, disasm_funcs, ins_i>>
      /\ \/ pc' \in {"error", "undefined"}
         \/ pc = "symbols" /\ func_entrys = {} /\ pc' = "plt"
         \/ PltDone /\ pc = "plt" /\ pc' = "wrap"
         \/ pc = "wrap" /\ pc' = "done"
  BY DEF NotInOneSection, MultipleEntryPoints, RunPastTheEnd, SymbolsDone, PltDone,
         NoWrapMain, StartOutsideText, NoEntryFunction, Stop
<1>2. NoWrapYet'
  BY <1>1 DEF OInv, NoWrapYet
<1> SUFFICES ASSUME Tidy
             PROVE  (BytesAreRight /\ SectionsAreWalked /\ PltIsRead /\ AllIsOwned)'
  BY <1>1, <1>2, SameFile DEF OInv, Tidy
<1>3. /\ BytesAreRight' /\ SectionsAreWalked'
      /\ \A n : OwnedSection(n)' <=> OwnedSection(n)
      /\ \A a : Owners(a)' = Owners(a)
      /\ PltSections' = PltSections /\ \A n : HasSymbol(n)' = HasSymbol(n) /\ Section(n)' = Section(n)
  BY <1>1, SameFile, MineStays DEF OInv, BytesAreRight, SectionsAreWalked
<1>4. CASE pc' \in {"error", "undefined"}
  BY <1>3, <1>4 DEF PltIsRead, AllIsOwned
<1>5. CASE pc = "symbols" /\ func_entrys = {} /\ pc' = "plt"
  <2>1. \A n \in DOMAIN file.sections : Finished(n) \/ Untouched(n)
    BY <1>5 DEF OInv, SectionsAreWalked, Current
  <2>2. \A n \in DOMAIN file.sections : HasSymbol(n) => OwnedSection(n)
    BY <1>5, <2>1 DEF Finished, Untouched
  <2>3. ASSUME NEW p \in PltSections
        PROVE  (Owned(p, Section(p).vma, Section(p).vma + ins_i)
                 /\ Unowned(Section(p).vma + ins_i, End(Section(p))))'
    <3>1. /\ p \in DOMAIN file.sections /\ ins_i' = 0 /\ Section(p).vma \in Nat
          /\ Section(p)' = Section(p) /\ End(Section(p))' = End(Section(p))
      BY <1>1, <1>3, <1>5, SectionsAreAddresses DEF TInv, PltSections, OInv, SectionsAreWalked, End
    <3>2. ~HasSymbol(p)
      BY DEF Tidy, PltHasNoSymbols
    <3>3. Unowned(Section(p).vma, End(Section(p)))
      BY <2>1, <3>1, <3>2 DEF Finished, Untouched
    <3>4. Section(p).vma + ins_i' = Section(p).vma
      BY <3>1
    <3>5. Unowned(Section(p).vma + ins_i, End(Section(p)))'
      BY <1>3, <3>1, <3>3, <3>4 DEF Unowned
    <3>6. Owned(p, Section(p).vma, Section(p).vma + ins_i)'
      BY <3>1, <3>4 DEF Owned
    <3> QED  BY <3>5, <3>6
  <2>4. PltIsRead'
    BY <1>1, <1>3, <2>2, <2>3 DEF PltIsRead
  <2> QED  BY <1>3, <1>5, <2>4 DEF AllIsOwned
<1>6. CASE PltDone /\ pc = "plt" /\ pc' = "wrap"
  <2>1. \A n \in DOMAIN file.sections : HasSymbol(n) => OwnedSection(n)
    BY <1>6 DEF OInv, PltIsRead
  <2>2. ASSUME NEW p \in PltSections
        PROVE  OwnedSection(p)
    <3>1. /\ p \in DOMAIN file.sections /\ Section(p).vma \in Nat /\ Section(p).size \in Nat
          /\ End(Section(p)) = Section(p).vma + Section(p).size
      BY SectionsAreAddresses DEF TInv, PltSections
    <3>2. Owned(p, Section(p).vma, Section(p).vma + ins_i)
      BY <1>6 DEF OInv, PltIsRead
    <3>3. ins_i \in Nat /\ Section(p).size <= ins_i
      BY <1>6, <3>1 DEF PltDone, TInv, TypeOK, Section
    <3> QED  BY <3>1, <3>2, <3>3 DEF OwnedSection, Owned
  <2>3. AllIsOwned'
    BY <1>1, <1>3, <2>1, <2>2 DEF AllIsOwned
  <2> QED  BY <1>3, <1>6, <2>3 DEF PltIsRead
<1>7. CASE pc = "wrap" /\ pc' = "done"
  BY <1>1, <1>3, <1>7 DEF OInv, AllIsOwned, PltIsRead
<1> QED  BY <1>1, <1>4, <1>5, <1>6, <1>7

LEMMA OSame ==
  ASSUME OInv, UNCHANGED vars
  PROVE  OInv'
<1>1. UNCHANGED <<file, pc, func_entrys, section, fun_end_addr, memory, disasm_funcs, ins_i>>
  BY DEF vars
<1>2. NoWrapYet'
  BY <1>1 DEF OInv, NoWrapYet
<1> SUFFICES ASSUME Tidy
             PROVE  (BytesAreRight /\ SectionsAreWalked /\ PltIsRead /\ AllIsOwned)'
  BY <1>1, <1>2, SameFile DEF OInv, Tidy
<1>3. /\ \A n : OwnedSection(n)' <=> OwnedSection(n)
      /\ \A a : Owners(a)' = Owners(a)
      /\ \A n, a : Mine(n, a)' <=> Mine(n, a)
      /\ PltSections' = PltSections
      /\ \A n : HasSymbol(n)' = HasSymbol(n) /\ Section(n)' = Section(n)
             /\ End(Section(n))' = End(Section(n)) /\ Inside(Section(n))' = Inside(Section(n))
  BY <1>1, SameFile, MineStays DEF End, Inside
<1>4. BytesAreRight' /\ AllIsOwned'
  BY <1>1, <1>3 DEF OInv, BytesAreRight, AllIsOwned
<1>5. PltIsRead'
  BY <1>1, <1>3 DEF OInv, PltIsRead, Owned, Unowned
<1>6. \A n : (Finished(n) => Finished(n)') /\ (Current(n) => Current(n)') /\ (Untouched(n) => Untouched(n)')
  BY <1>1, <1>3 DEF Finished, Current, Untouched, Owned, Unowned
<1>7. SectionsAreWalked'
  BY <1>1, <1>6 DEF OInv, SectionsAreWalked
<1> QED  BY <1>4, <1>5, <1>7

LEMMA ONext == TInv /\ TInv' /\ HInv /\ OInv /\ [Next]_vars => OInv'
<1> SUFFICES ASSUME TInv, TInv', HInv, OInv, [Next]_vars
             PROVE  OInv'
  OBVIOUS
<1>1. CASE \E s \in func_entrys : FindSection(s) \/ Assign(s)
  BY <1>1, OFindSection, OAssign
<1>2. CASE \E p \in PltSections, n \in Addr : PltBlock(file.sections[p], n)
  BY <1>2, OPltBlock
<1>3. CASE \E a \in Addr : DefineWrapMain(a)
  BY <1>3, OWrapMain
<1>4. CASE \/ \E s \in func_entrys : NotInOneSection(s) \/ MultipleEntryPoints(s)
           \/ RunPastTheEnd \/ SymbolsDone \/ PltDone
           \/ NoWrapMain \/ StartOutsideText \/ NoEntryFunction
  BY <1>4, OStop
<1>5. CASE UNCHANGED vars
  BY <1>5, OSame
<1> QED  BY <1>1, <1>2, <1>3, <1>4, <1>5, NextCases

LEMMA OInvariance == Spec => []OInv
BY OInit, ONext, TInvariance, HInvariance, PTL DEF Spec

(* In a file whose sections are apart and covered by their symbols, every  *)
(* instruction of the PLT and of a section with symbols has its own bytes  *)
(* and one function.                                                       *)
THEOREM EveryInsnTheorem == Spec => []EveryInsnHasItsFunction
<1>1. ASSUME TInv, OInv
      PROVE  EveryInsnHasItsFunction
  <2> SUFFICES ASSUME Tidy
               PROVE  /\ BytesAreRight
                      /\ pc = "done" =>
                           \A n \in DOMAIN file.sections : \A a \in Inside(Section(n)) :
                             HasSymbol(n) \/ n \in PltSections => Mine(n, a)
    BY DEF EveryInsnHasItsFunction, Tidy, BytesAreRight, Mine
  <2>1. BytesAreRight /\ AllIsOwned
    BY <1>1 DEF OInv
  <2>2. \A n \in DOMAIN file.sections :
          Section(n).vma .. End(Section(n)) - 1 = Inside(Section(n))
    BY <1>1, SectionsAreAddresses DEF TInv, Inside
  <2> QED  BY <2>1, <2>2 DEF AllIsOwned, OwnedSection, Owned
<1> QED  BY <1>1, TInvariance, OInvariance, PTL
=============================================================================
