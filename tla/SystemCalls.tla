----------------------------- MODULE SystemCalls -----------------------------
(***************************************************************************)
(* The system calls of the guest, as SVCNativeCall, SVCWasiCall and        *)
(* SVCBrowserCall carry them out, and the memory they share with its loads *)
(* and stores: the sections, the stack and the heap, which both brk and    *)
(* mmap move forward with one pointer.                                     *)
(*                                                                         *)
(* One case of the switch is one step, because a case without a break goes *)
(* on with the next one.  What a call of the host answers is not modelled, *)
(* only which case put its result into X0.                                 *)
(***************************************************************************)
EXTENDS Integers, Sequences

CONSTANTS
  HeapStart, HeapLen,    \* HEAPS_START_VMA, HEAP_UNIT_SIZE
  StackStart, StackLen,  \* STACK_START_VMA, STACK_SIZE
  SectionTables,         \* the data sections Init chooses from
  Lengths,               \* the sizes a guest maps
  MaxMaps,               \* bound on the number of calls of mmap
  NoCall                 \* the guest has made no system call yet

HeapEnd == HeapStart + HeapLen

(* A section: where it is in the guest, and whether its name is .tbss,     *)
(* which has the addresses of what follows it and no bytes of its own.     *)
SectionTable(t) ==
  /\ DOMAIN t \subseteq Nat
  /\ \A i \in DOMAIN t :
       /\ t[i].vma \in Nat /\ t[i].len \in Nat /\ t[i].tbss \in BOOLEAN
       /\ t[i].vma + t[i].len <= HeapStart
  /\ \A i, j \in DOMAIN t : i # j /\ ~t[i].tbss /\ ~t[j].tbss =>
       \/ t[i].vma + t[i].len <= t[j].vma
       \/ t[j].vma + t[j].len <= t[i].vma

ASSUME AreasAssumption ==
  /\ HeapStart \in Nat \ {0} /\ HeapLen \in Nat
  /\ StackStart \in Nat /\ StackLen \in Nat
  /\ HeapEnd <= StackStart
ASSUME TablesAssumption == \A t \in SectionTables : SectionTable(t)
ASSUME LengthsAssumption == Lengths \subseteq Nat /\ MaxMaps \in Nat

VARIABLES
  platform,       \* which of the three functions the program is linked with
  sections,       \* the arrays __g_data_sec_* main() reads
  pc,             \* "guest", "switch", "exited" or "aborted"
  sysnum,         \* the call the guest made last
  case,           \* the case that is next
  x0,             \* the case that wrote X0 last since then
  heap_cur,
  break_area,     \* what the guest takes for its break, once it has asked
  maps,           \* what mmap gave it, one after another: first and end address
  mixed           \* the guest has used brk after mmap

memoryVars == <<heap_cur, break_area, maps, mixed>>
vars == <<platform, sections, pc, sysnum, case, x0, memoryVars>>

-----------------------------------------------------------------------------
(***************************************************************************)
(* The switch.                                                             *)
(***************************************************************************)
Cases ==
  <<"dup", "ioctl", "mkdirat", "unlinkat", "statfs", "truncate", "ftruncate",
    "faccessat", "openat", "close", "lseek", "read", "write", "writev",
    "readlinkat", "newfstatat", "fsync", "exit", "exit_group",
    "set_tid_address", "futex", "set_robust_list", "clock_gettime", "tgkill",
    "rt_sigprocmask", "rt_sigaction", "uname", "gettimeofday", "getrusage",
    "getpid", "getppid", "getuid", "geteuid", "getgid", "getegid", "gettid",
    "brk", "munmap", "mmap", "mprotect", "wait4", "prlimit64", "getrandom",
    "statx", "rseq">>

Call == {Cases[i] : i \in DOMAIN Cases}

Platform == {"native", "browser", "wasi"}

OnlyNative == {"getrusage", "wait4"}

HasCase(p, c) == c \in Call /\ (p = "native" \/ c \notin OnlyNative)

Exits == {"exit", "exit_group"}

(* No address is translated, no argument refused and no signal sent. *)
Harmless(p) ==
  {"dup", "faccessat", "close", "lseek", "ftruncate", "fsync", "newfstatat",
   "set_robust_list", "rt_sigprocmask", "getpid", "getppid", "getuid", "geteuid",
   "getgid", "getegid", "gettid", "munmap", "mprotect", "prlimit64", "rseq"}
  \cup IF p = "wasi" THEN {"ioctl", "statfs", "tgkill", "rt_sigaction"} ELSE {}

NoBreakInGetpid(p) ==   \* Seeded fault: the break after getpid() is gone, too.
  {"dup", "ioctl", "getpid"}

FallsThrough(p) ==
  CASE p = "native"  -> {"dup", "ioctl", "getrusage", "wait4"}
    [] p = "browser" -> {"dup", "ioctl"}
    [] p = "wasi"    -> {}

(* The case below c in the source. *)
NextCase(c) == Cases[1 + CHOOSE i \in DOMAIN Cases : Cases[i] = c]

-----------------------------------------------------------------------------
(***************************************************************************)
(* Guest memory.                                                           *)
(***************************************************************************)
Mapped == {i \in DOMAIN sections : ~sections[i].tbss}

Including(a) == {i \in Mapped : sections[i].vma <= a /\ a < sections[i].vma + sections[i].len}

(* The host byte of a guest address, as a buffer and an offset; there is   *)
(* none if the access aborts.                                              *)
TranslateVMA(a) ==
  IF a >= StackStart THEN {[buffer |-> "stack", no |-> 0, offset |-> a - StackStart]}
  ELSE IF a >= HeapStart THEN {[buffer |-> "heap", no |-> 0, offset |-> a - HeapStart]}
  ELSE {[buffer |-> "section", no |-> i, offset |-> a - sections[i].vma] :
          i \in {k \in Including(a) : \A j \in Including(a) : k <= j}}

(* Areas are pairs of a first and an end address. *)
NoBreak == <<0, 0>>

(* main() of Entry.cpp: the heap is empty. *)
Init ==
  /\ platform \in Platform
  /\ sections \in SectionTables
  /\ pc = "guest"
  /\ sysnum = NoCall /\ case = NoCall /\ x0 = NoCall
  /\ heap_cur = HeapStart
  /\ break_area = NoBreak
  /\ maps = <<>>
  /\ mixed = FALSE

Svc(c) ==
  /\ pc = "guest"
  /\ c \in Call
  /\ sysnum' = c
  /\ case' = c
  /\ pc' = IF HasCase(platform, c) THEN "switch" ELSE "aborted"
  /\ x0' = NoCall
  /\ UNCHANGED <<platform, sections, memoryVars>>

(* The end of a case: the break, or the first line of the next case. *)
EndOfCase ==
  /\ pc' = IF case \in FallsThrough(platform) THEN "switch" ELSE "guest"
  /\ case' = IF case \in FallsThrough(platform) THEN NextCase(case) ELSE case
  /\ UNCHANGED <<platform, sections, sysnum>>

In(c) == pc = "switch" /\ case = c

Answer ==
  /\ pc = "switch"
  /\ case \notin Exits \cup {"brk", "mmap"}
  /\ x0' = case
  /\ EndOfCase
  /\ UNCHANGED memoryVars

(* ioctl() has nothing but TCGETS and leaves X0 alone otherwise. *)
IgnoredIoctl ==
  /\ In("ioctl") /\ platform # "wasi"
  /\ EndOfCase
  /\ UNCHANGED <<x0, memoryVars>>

Exit ==
  /\ pc = "switch" /\ case \in Exits
  /\ pc' = "exited"
  /\ UNCHANGED <<platform, sections, sysnum, case, x0, memoryVars>>

(* The native exit_group passes the number aarch64 has for it to the host, *)
(* which takes it for another call if it is not an aarch64.                *)
ExitGroupReturns ==
  /\ In("exit_group") /\ platform = "native"
  /\ EndOfCase
  /\ UNCHANGED <<x0, memoryVars>>

(* An address that is not mapped, or an argument the case does not support. *)
Refuse ==
  /\ pc = "switch" /\ case \notin Harmless(platform) \cup Exits
  /\ pc' = "aborted"
  /\ UNCHANGED <<platform, sections, sysnum, case, x0, memoryVars>>

(* The guest learns the break from brk(0), which answers heap_cur. *)
BrkQuery ==
  /\ In("brk")
  /\ x0' = "brk"
  /\ break_area' = IF break_area = NoBreak THEN <<heap_cur, heap_cur>>
                   ELSE <<break_area[1], heap_cur>>
  /\ mixed' = (mixed \/ maps # <<>>)
  /\ EndOfCase
  /\ UNCHANGED <<heap_cur, maps>>

(* A guest moves its break once it has one, and not below its start. *)
BrkMove(a) ==
  /\ In("brk")
  /\ a \in HeapStart .. HeapEnd - 1
  /\ break_area # NoBreak /\ break_area[1] <= a
  /\ heap_cur' = a
  /\ x0' = "brk"
  /\ break_area' = <<break_area[1], a>>
  /\ mixed' = (mixed \/ maps # <<>>)
  /\ EndOfCase
  /\ UNCHANGED maps

(* Seeded fault: the area that is given to the guest ends where the next   *)
(* one starts, with one unit in both.                                      *)
MmapOneShort(n) ==
  /\ In("mmap")
  /\ Len(maps) < MaxMaps
  /\ maps' = Append(maps, <<heap_cur, heap_cur + n>>)
  /\ heap_cur' = heap_cur + n - 1
  /\ x0' = "mmap"
  /\ EndOfCase
  /\ UNCHANGED <<break_area, mixed>>

Mmap(n) ==
  /\ In("mmap")
  /\ Len(maps) < MaxMaps
  /\ maps' = Append(maps, <<heap_cur, heap_cur + n>>)
  /\ heap_cur' = heap_cur + n
  /\ x0' = "mmap"
  /\ EndOfCase
  /\ UNCHANGED <<break_area, mixed>>

Ended == pc \in {"exited", "aborted"} /\ UNCHANGED vars

Next ==
  \/ \E c \in Call : Svc(c)
  \/ Answer \/ IgnoredIoctl \/ Exit \/ ExitGroupReturns \/ Refuse
  \/ BrkQuery
  \/ \E a \in HeapStart .. HeapEnd : BrkMove(a)
  \/ \E n \in Lengths : Mmap(n)
  \/ Ended

Spec == Init /\ [][Next]_vars
-----------------------------------------------------------------------------
TypeOK ==
  /\ platform \in Platform /\ sections \in SectionTables
  /\ pc \in {"guest", "switch", "exited", "aborted"}
  /\ {sysnum, case, x0} \subseteq Call \cup {NoCall}
  /\ heap_cur \in Nat
  /\ break_area \in Nat \X Nat
  /\ maps \in Seq(Nat \X Nat)
  /\ mixed \in BOOLEAN

(* The areas the guest may use, apart from one another: the sections, the  *)
(* stack, its break and what it mapped.                                    *)
Area(what, no, first, end) == [what |-> what, no |-> no, first |-> first, end |-> end]

Areas ==
  {Area("section", i, sections[i].vma, sections[i].vma + sections[i].len) : i \in Mapped}
    \cup {Area("stack", 0, StackStart, StackStart + StackLen)}
    \cup {Area("break", 0, break_area[1], break_area[2])}
    \cup {Area("map", i, maps[i][1], maps[i][2]) : i \in DOMAIN maps}

Addresses(A) == A.first .. A.end - 1

BufferLen(t) ==
  CASE t.buffer = "stack" -> StackLen
    [] t.buffer = "heap"  -> HeapLen
    [] OTHER              -> sections[t.no].len

(* Every address the guest may use is one byte of one buffer, within it.   *)
HasItsByte(a) ==
  \E t \in TranslateVMA(a) : TranslateVMA(a) = {t} /\ t.offset \in 0 .. BufferLen(t) - 1

Separate(A, B) ==
  \A a \in Addresses(A), b \in Addresses(B) : TranslateVMA(a) \cap TranslateVMA(b) = {}

(* What one area holds is not changed through another one, and no access   *)
(* of the guest to its own memory leaves the memory of the runtime, while  *)
(* the guest has not mapped more than the heap holds.                      *)
BytesAreItsOwn ==
  heap_cur <= HeapEnd =>
    \A A \in Areas :
      /\ \A a \in Addresses(A) : HasItsByte(a)
      /\ \A B \in Areas : A # B => Separate(A, B)

(* It is so for a guest that uses brk only before its first mmap: both     *)
(* move heap_cur, and neither looks at what the other one gave away.       *)
BytesAreItsOwnUntilBrk == ~mixed => BytesAreItsOwn

(* What the guest finds in X0 after a call is the answer of that call, and *)
(* not of another one the switch went on to; and it does not go on after   *)
(* exit or exit_group.  The cases for which this fails are those named.    *)
AnswersItself ==
  pc = "guest" /\ sysnum # NoCall =>
    \/ x0 = sysnum
    \/ platform = "native"  /\ sysnum \in {"dup", "ioctl", "getrusage", "wait4", "exit_group"}
    \/ platform = "browser" /\ sysnum \in {"dup", "ioctl"}
=============================================================================
