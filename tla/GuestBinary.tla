---------------------------- MODULE GuestBinary ----------------------------
(***************************************************************************)
(* A binary as the trace manager shows it to the lifter: what each         *)
(* instruction is, which addresses have bytes, where functions start and   *)
(* end.  An address counts instructions (the code's addresses are 4 times  *)
(* larger).                                                                *)
(***************************************************************************)
EXTENDS Integers

CONSTANT MaxAddr     \* addresses are 0 .. MaxAddr; nothing is mapped at MaxAddr

Addr == 0 .. MaxAddr

(***************************************************************************)
(* The categories of aarch64 instructions the switch of Lift tells apart.  *)
(* "normal" is also NoOp; "invalid" is every instruction that is not       *)
(* lifted.  The conditional call, return and indirect jump categories are  *)
(* excluded on aarch64 by a CHECK.                                         *)
(***************************************************************************)
Category == {"normal", "invalid", "jump", "br", "svc", "blr", "bl", "ret", "cond"}

Insn == [cat : Category, taken : Addr]

WellFormed(b) ==
  /\ b.insn \in [Addr -> Insn]
  /\ b.memory \subseteq 0 .. MaxAddr - 1
  /\ b.entries \subseteq b.memory
  /\ b.end \in [b.entries -> Addr]
  /\ \A f \in b.entries : f < b.end[f] /\ f .. b.end[f] - 1 \subseteq b.memory
=============================================================================
