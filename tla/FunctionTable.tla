---------------------------- MODULE FunctionTable ----------------------------
(***************************************************************************)
(* AArch64TraceManager::SetELFData: the symbols, the sections and the PLT  *)
(* of the ELF file become the table of functions and the map of bytes that *)
(* the lifter asks for.  The symbol table gives no sizes that are used: a  *)
(* function ends where the next one above it starts, or with its section,  *)
(* so the symbols of a section are walked from the highest to the lowest.  *)
(*                                                                         *)
(* A byte is named by the address it has in the file, and four of them are *)
(* one instruction and one address here.  What is read outside the buffer  *)
(* of a section is Garbage.                                                *)
(***************************************************************************)
EXTENDS GuestBinary

CONSTANTS
  Files,     \* the ELF files Init chooses from
  Unmapped,  \* no byte is known at the address
  Garbage,   \* a byte that was read outside the bytes of a section
  NoName     \* entry_func_lifted_name is empty

(* What SetELFData tells apart of an instruction. *)
Code == {"nop", "jump", "br", "normal"}

(* A PLT block has this name, the function around the branch to main that. *)
CONSTANTS PltName, WrapMain

(***************************************************************************)
(* What LoadELF leaves: the code sections by name, the function symbols,   *)
(* each with its address and name, and the entry point.                    *)
(***************************************************************************)
SectionName == {".init", ".text", ".plt", ".iplt"}

End(sec) == sec.vma + sec.size
Inside(sec) == sec.vma .. End(sec) - 1

ElfFile(f) ==
  /\ f.code \in [Addr -> Code]
  /\ DOMAIN f.sections \subseteq SectionName
  /\ \A n \in DOMAIN f.sections :
       LET sec == f.sections[n]
       IN  sec.vma \in Addr /\ sec.size \in Nat /\ End(sec) <= MaxAddr
  /\ \A s \in f.symbols : s.entry \in 0 .. MaxAddr - 1 /\ s.name \notin {NoName, WrapMain}
  /\ f.entry_point \in 0 .. MaxAddr - 1

ASSUME MaxAddrAssumption == MaxAddr \in Nat \ {0}
ASSUME FilesAssumption == \A f \in Files : ElfFile(f)
ASSUME MarkersAssumption ==
  /\ Unmapped \notin Addr /\ Garbage \notin Addr /\ Garbage # Unmapped
  /\ PltName # WrapMain

VARIABLES
  file,                    \* elf_obj
  pc,                      \* "symbols", "walk", "plt", "wrap", or how it ended
  func_entrys,             \* the symbols from i on
  section,                 \* the section whose symbols are walked
  fun_end_addr,
  memory,
  disasm_funcs,            \* name and size of the function that starts at an address
  entry_func_lifted_name,
  ins_i                    \* how much of the PLT has been read

vars == <<file, pc, func_entrys, section, fun_end_addr, memory, disasm_funcs,
          entry_func_lifted_name, ins_i>>

-----------------------------------------------------------------------------
IsFunctionEntry(a) == a \in DOMAIN disasm_funcs

(* emplace: the function that is already there stays. *)
EmplaceOver(a, name, size) ==   \* Seeded fault: the last symbol of an address wins.
  [x \in DOMAIN disasm_funcs \cup {a} |->
     IF x = a THEN [name |-> name, size |-> size] ELSE disasm_funcs[x]]

Emplace(a, name, size) ==
  [x \in DOMAIN disasm_funcs \cup {a} |->
     IF IsFunctionEntry(x) THEN disasm_funcs[x] ELSE [name |-> name, size |-> size]]

(* bytes[addr - sec_addr], whatever addr is. *)
ByteOf(sec, a) == IF a \in Inside(sec) THEN a ELSE Garbage

(* memory with the bytes of a section copied from first up to end. *)
Copied(sec, first, end) ==
  [a \in Addr |-> IF a \in first .. end - 1 THEN ByteOf(sec, a) ELSE memory[a]]

Included(a) == {n \in DOMAIN file.sections : a \in Inside(file.sections[n])}

(* func_entrys[i]: symbols of one address may come in any order. *)
Highest(s) ==
  /\ s \in func_entrys
  /\ \A t \in func_entrys : t.entry <= s.entry

PltSections == {n \in {".plt", ".iplt"} \cap DOMAIN file.sections :
                  n = ".plt" \/ ".plt" \notin DOMAIN file.sections}

Init ==
  /\ file \in Files
  /\ pc = "symbols"
  /\ func_entrys = file.symbols
  /\ section = [vma |-> 0, size |-> 0]
  /\ fun_end_addr = 0
  /\ memory = [a \in Addr |-> Unmapped]
  /\ disasm_funcs = [a \in {} |-> NoName]
  /\ entry_func_lifted_name = NoName
  /\ ins_i = 0

Stop(how) ==
  /\ pc' = how
  /\ UNCHANGED <<file, func_entrys, section, fun_end_addr, memory, disasm_funcs,
                 entry_func_lifted_name, ins_i>>

(***************************************************************************)
(* The section that holds the highest symbol that is left.                 *)
(***************************************************************************)
FindSection(s) ==
  /\ pc = "symbols"
  /\ Highest(s)
  /\ \E n \in Included(s.entry) :
       /\ Included(s.entry) = {n}
       /\ section' = file.sections[n]
       /\ fun_end_addr' = End(file.sections[n])
  /\ pc' = "walk"
  /\ UNCHANGED <<file, func_entrys, memory, disasm_funcs, entry_func_lifted_name, ins_i>>

NotInOneSection(s) ==
  /\ pc = "symbols"
  /\ Highest(s)
  /\ ~\E n \in DOMAIN file.sections : Included(s.entry) = {n}
  /\ Stop("error")

(***************************************************************************)
(* The inner loop takes the symbols one after another until one is not     *)
(* above the start of the section.  It looks neither at the section of the *)
(* next symbol nor at the number of symbols.                               *)
(***************************************************************************)
IsEntryPoint(s) == file.entry_point = s.entry

AssignToTheEnd(s) ==   \* Seeded fault: every function reaches to the end of its section.
  /\ pc = "walk"
  /\ Highest(s)
  /\ IsEntryPoint(s) => entry_func_lifted_name = NoName
  /\ entry_func_lifted_name' = IF IsEntryPoint(s) THEN s.name ELSE entry_func_lifted_name
  /\ memory' = Copied(section, s.entry, End(section))
  /\ disasm_funcs' = Emplace(s.entry, s.name, End(section) - s.entry)
  /\ fun_end_addr' = s.entry
  /\ func_entrys' = func_entrys \ {s}
  /\ pc' = IF section.vma < s.entry THEN "walk" ELSE "symbols"
  /\ UNCHANGED <<file, section, ins_i>>

(* Seeded fault: the check of the bound is one symbol late. *)
WalkOn(s) == IF section.vma <= s.entry THEN "walk" ELSE "symbols"

AfterAssign(s) == IF section.vma < s.entry THEN "walk" ELSE "symbols"

Assign(s) ==
  /\ pc = "walk"
  /\ Highest(s)
  /\ IsEntryPoint(s) => entry_func_lifted_name = NoName
  /\ entry_func_lifted_name' = IF IsEntryPoint(s) THEN s.name ELSE entry_func_lifted_name
  /\ memory' = Copied(section, s.entry, fun_end_addr)
  /\ disasm_funcs' = Emplace(s.entry, s.name, fun_end_addr - s.entry)
  /\ fun_end_addr' = s.entry
  /\ func_entrys' = func_entrys \ {s}
  /\ pc' = AfterAssign(s)
  /\ UNCHANGED <<file, section, ins_i>>

MultipleEntryPoints(s) ==
  /\ pc = "walk"
  /\ Highest(s)
  /\ IsEntryPoint(s)
  /\ entry_func_lifted_name # NoName
  /\ Stop("error")

(* func_entrys[i] with i = size: whatever is there is no symbol. *)
RunPastTheEnd ==
  /\ pc = "walk"
  /\ func_entrys = {}
  /\ Stop("undefined")

SymbolsDone ==
  /\ pc = "symbols"
  /\ func_entrys = {}
  /\ Stop("plt")

(***************************************************************************)
(* The PLT has no symbols: a block of it ends with a BR or the section.    *)
(***************************************************************************)
BlockEnds(sec, n) == file.code[sec.vma + n - 1] = "br" \/ n = sec.size

PltBlock(sec, n) ==
  /\ pc = "plt"
  /\ n \in ins_i + 1 .. sec.size
  /\ BlockEnds(sec, n)
  /\ \A k \in ins_i + 1 .. n - 1 : ~BlockEnds(sec, k)
  /\ memory' = Copied(sec, sec.vma + ins_i, sec.vma + n)
  /\ disasm_funcs' = Emplace(sec.vma + ins_i, PltName, n - ins_i)
  /\ ins_i' = n
  /\ UNCHANGED <<file, pc, func_entrys, section, fun_end_addr, entry_func_lifted_name>>

PltDone ==
  /\ pc = "plt"
  /\ \A n \in PltSections : ins_i >= file.sections[n].size
  /\ Stop("wrap")

(***************************************************************************)
(* In _start, a branch between two nops gets an entry of its own.  The     *)
(* instructions of _start are looked up in .text.                          *)
(***************************************************************************)
WrapSize == 3

StartOf == file.entry_point
StartEnd == StartOf + disasm_funcs[StartOf].size

InText(a) == ".text" \in DOMAIN file.sections /\ a \in Inside(file.sections[".text"])

AnyWrap(a) ==   \* Seeded fault: the bound is the start of the last branch.
  /\ a \in StartOf .. StartEnd - 1
  /\ file.code[a] = "nop" /\ file.code[a + 1] = "jump"

IsWrap(a) ==
  /\ a \in StartOf .. StartEnd - WrapSize
  /\ file.code[a] = "nop" /\ file.code[a + 1] = "jump" /\ file.code[a + 2] = "nop"

ReadsText == StartEnd >= StartOf + WrapSize => \A a \in StartOf .. StartEnd - 1 : InText(a)

DefineWrapMain(a) ==
  /\ pc = "wrap"
  /\ IsFunctionEntry(StartOf) /\ ReadsText
  /\ IsWrap(a) /\ \A b \in StartOf .. a - 1 : ~IsWrap(b)
  /\ disasm_funcs' = Emplace(a, WrapMain, WrapSize)
  /\ pc' = "done"
  /\ UNCHANGED <<file, func_entrys, section, fun_end_addr, memory, entry_func_lifted_name, ins_i>>

NoWrapMain ==
  /\ pc = "wrap"
  /\ IsFunctionEntry(StartOf) /\ ReadsText
  /\ \A a \in Addr : ~IsWrap(a)
  /\ Stop("done")

StartOutsideText ==
  /\ pc = "wrap"
  /\ IsFunctionEntry(StartOf) /\ ~ReadsText
  /\ Stop("undefined")

NoEntryFunction ==
  /\ pc = "wrap"
  /\ ~IsFunctionEntry(StartOf)
  /\ Stop("error")

Ended == {"done", "error", "undefined"}

Done == pc \in Ended /\ UNCHANGED vars

Next ==
  \/ \E s \in func_entrys : FindSection(s) \/ NotInOneSection(s)
  \/ \E s \in func_entrys : Assign(s) \/ MultipleEntryPoints(s)
  \/ RunPastTheEnd \/ SymbolsDone
  \/ \E p \in PltSections, n \in Addr : PltBlock(file.sections[p], n)
  \/ PltDone
  \/ \E a \in Addr : DefineWrapMain(a)
  \/ NoWrapMain \/ StartOutsideText \/ NoEntryFunction
  \/ Done

Spec == Init /\ [][Next]_vars
-----------------------------------------------------------------------------
Section(n) == file.sections[n]

HasSymbol(n) == \E s \in file.symbols : s.entry \in Inside(Section(n))

(* The lowest symbol of a section is at its start. *)
Covered ==
  \A n \in DOMAIN file.sections :
    HasSymbol(n) => \E s \in file.symbols : s.entry = Section(n).vma

(* Linkers make it so. *)
SectionsApart ==
  \A m, n \in DOMAIN file.sections : m # n => Inside(Section(m)) \cap Inside(Section(n)) = {}

PltHasNoSymbols == \A n \in PltSections : ~HasSymbol(n)

FunctionEnd(f) == f + disasm_funcs[f].size

TypeOK ==
  /\ file \in Files
  /\ pc \in {"symbols", "walk", "plt", "wrap"} \cup Ended
  /\ func_entrys \subseteq file.symbols
  /\ section.vma \in Addr /\ section.size \in Nat /\ End(section) <= MaxAddr
  /\ fun_end_addr \in Addr
  /\ memory \in [Addr -> Addr \cup {Unmapped, Garbage}]
  /\ DOMAIN disasm_funcs \subseteq Addr
  /\ \A f \in DOMAIN disasm_funcs : disasm_funcs[f].size \in Nat
  /\ ins_i \in Nat

(* The binary the lifter sees through the queries of the manager. *)
Decoded(c) == [cat |-> IF c = "nop" THEN "normal" ELSE c, taken |-> 0]

Image ==
  [insn    |-> [a \in Addr |-> Decoded(file.code[a])],
   memory  |-> {a \in Addr : memory[a] # Unmapped},
   entries |-> DOMAIN disasm_funcs,
   end     |-> [f \in DOMAIN disasm_funcs |-> FunctionEnd(f)]]

(* What TraceLifter assumes of every binary is what the table gives it:    *)
(* a function is not empty, ends within the addresses, and every one of    *)
(* its instructions can be read.  It is so for every file, also for those  *)
(* whose symbols lead the walk from one section into another.              *)
LifterCanUseIt == IF pc = "done" THEN WellFormed(Image) ELSE TRUE

(* If the lowest symbol of each section is at its start, and the PLT has   *)
(* none, SetELFData never reads outside the bytes of a section, every      *)
(* instruction of the PLT and of a section with symbols has its own bytes, *)
(* and it belongs to exactly one function, __wrap_main aside, which lies   *)
(* within _start.                                                          *)
Owners(a) == {f \in DOMAIN disasm_funcs :
                disasm_funcs[f].name # WrapMain /\ a \in f .. FunctionEnd(f) - 1}

EveryInsnHasItsFunction ==
  Covered /\ SectionsApart /\ PltHasNoSymbols =>
    /\ \A a \in Addr : memory[a] \in {a, Unmapped}
    /\ pc = "done" =>
         \A n \in DOMAIN file.sections : \A a \in Inside(Section(n)) :
           (HasSymbol(n) \/ n \in PltSections) =>
              /\ memory[a] = a
              /\ \E f \in Inside(Section(n)) : Owners(a) = {f}

(* main() takes the program's entry function by its name: the function     *)
(* that the table has at the entry point is the one with that name, though *)
(* of two symbols at one address the first one walked names the function   *)
(* and SetELFData sees both.                                               *)
EntryIsNamed ==
  pc = "done" /\ entry_func_lifted_name # NoName =>
    /\ IsFunctionEntry(file.entry_point)
    /\ disasm_funcs[file.entry_point].name = entry_func_lifted_name

(* elfconv refuses a file only for a symbol that is not in exactly one     *)
(* section, for two symbols at the entry point, or for an entry point      *)
(* without a function; and it reads what is not there only if the lowest   *)
(* symbol of a section is above its start or _start is not in .text.       *)
EndsAreJustified ==
  /\ pc = "error" =>
       \/ \E s \in file.symbols : \A n \in DOMAIN file.sections : Included(s.entry) # {n}
       \/ \E s, t \in file.symbols : s # t /\ s.entry = t.entry /\ IsEntryPoint(s)
       \/ \A f \in DOMAIN disasm_funcs : f # file.entry_point
  /\ pc = "undefined" => ~Covered \/ ~SectionsApart \/ ~InText(file.entry_point)
=============================================================================
