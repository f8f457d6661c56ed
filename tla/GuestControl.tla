---------------------------- MODULE GuestControl ----------------------------
(***************************************************************************)
(* What the guest program does with its program counter, read from its     *)
(* instructions alone.  Registers are not modelled: a BR or BLR may find   *)
(* any address in its register, a conditional branch may go either way,    *)
(* and a system call may end the program.  Calls and returns are balanced: *)
(* a RET goes to the instruction after the last call that is still open.   *)
(* This is the program that the lifted one has to follow, up to the        *)
(* instructions Unpromised names.                                          *)
(***************************************************************************)
EXTENDS Integers, Sequences

CONSTANTS MaxAddr, Nowhere

VARIABLES
  elf,     \* the binary, as in TraceLifter
  status,  \* "off", "running", "exited", "aborted", "overflow" or "lost"
  PC,
  stack    \* where the open calls return to, the innermost first

guestVars == <<elf, status, PC, stack>>

Addr == 0 .. MaxAddr

Fetched(cats) == status = "running" /\ PC \in elf.memory /\ elf.insn[PC].cat \in cats

Goto(a) == PC' = a /\ UNCHANGED <<elf, status, stack>>

Enter(a) ==
  /\ PC' = a
  /\ stack' = <<PC + 1>> \o stack
  /\ UNCHANGED <<elf, status>>

Ends(s) == status' = s /\ UNCHANGED <<elf, PC, stack>>

Init == status = "off" /\ stack = <<>>

Start ==
  /\ status = "off"
  /\ status' = "running"
  /\ PC' \in elf.entries
  /\ UNCHANGED <<elf, stack>>

Step ==
  \/ Fetched({"normal", "cond", "svc"}) /\ Goto(PC + 1)
  \/ Fetched({"jump", "cond"}) /\ Goto(elf.insn[PC].taken)

Call == Fetched({"bl"}) /\ Enter(elf.insn[PC].taken)

(* A BL to the next instruction reads the PC: nothing comes back from it.  *)
ReadPC == Fetched({"bl"}) /\ elf.insn[PC].taken = PC + 1 /\ Goto(PC + 1)

IndirectCall == Fetched({"blr"}) /\ \E a \in Addr : Enter(a)

IndirectJump == Fetched({"br"}) /\ \E a \in Addr : Goto(a)

Return ==
  /\ Fetched({"ret"})
  /\ IF stack = <<>> THEN Ends("exited")
     ELSE PC' = Head(stack) /\ stack' = Tail(stack) /\ UNCHANGED <<elf, status>>

Exit == Fetched({"svc"}) /\ Ends("exited")

(* An undefined instruction, or a register that does not hold an address   *)
(* of code.                                                                *)
Fault == Fetched({"invalid", "blr", "br"}) /\ Ends("aborted")

(* The machine that runs the program may have no room left for a call.     *)
Overflow == status = "running" /\ Ends("overflow")

(***************************************************************************)
(* Nothing is promised behind code that is not mapped, a BL to what is no  *)
(* function (a data symbol), a BL to a function that is the next           *)
(* instruction, and a system call in front of another function.            *)
(***************************************************************************)
Unpromised ==
  \/ PC \notin elf.memory
  \/ Fetched({"bl"}) /\ elf.insn[PC].taken \notin elf.entries \cup {PC + 1}
  \/ Fetched({"bl"}) /\ elf.insn[PC].taken \in elf.entries \cap {PC + 1}
  \/ Fetched({"svc"}) /\ PC + 1 \in elf.entries

Lose ==
  /\ status = "running"
  /\ Unpromised
  /\ status' = "lost"
  /\ PC' = Nowhere
  /\ stack' = <<>>
  /\ UNCHANGED elf

Run == Step \/ Call \/ ReadPC \/ IndirectCall \/ IndirectJump \/ Return \/ Exit \/ Fault

Next == Start \/ Run \/ Overflow \/ Lose

Safe == Init /\ [][Next]_guestVars

(* A program that runs takes its next step, unless the machine gives up.   *)
Live == WF_guestVars(Start \/ Run \/ Lose)
=============================================================================
