----------------------------- MODULE LifterSpec -----------------------------
(***************************************************************************)
(* What the lifting loop promises, without work lists: the functions of    *)
(* the binary are translated one at a time, in some order, each once, and  *)
(* the translation of a function is the graph of the instructions that     *)
(* control can reach in it.                                                *)
(***************************************************************************)
EXTENDS Integers

CONSTANT MaxAddr

VARIABLES
  elf,    \* the binary: insn, memory, entries and end, as in TraceLifter
  graph   \* the translation of each function; no node if not translated

Addr == 0 .. MaxAddr

NoGraph == [nodes |-> {}, edges |-> {}]

(***************************************************************************)
(* Where control may go from a inside function f: nowhere if a starts      *)
(* another function (control then leaves f) or is not mapped.              *)
(***************************************************************************)
Flow(f, a) ==
  LET i == elf.insn[a]
  IN  IF a \notin elf.memory \/ (a # f /\ a \in elf.entries) THEN {}
      ELSE CASE i.cat \in {"normal", "bl", "blr"} -> {a + 1}
             [] i.cat = "svc"  -> {a + 1} \ elf.entries
             [] i.cat = "jump" -> {i.taken}
             [] i.cat = "cond" -> {i.taken, a + 1}
             [] i.cat \in {"ret", "br", "invalid"} -> {}

Closed(f, C) == \A a \in C : Flow(f, a) \subseteq C

(* The addresses control reaches from those of S: the least closed set.    *)
Reach(f, S) ==
  {a \in Addr : \A C \in SUBSET Addr : S \subseteq C /\ Closed(f, C) => a \in C}

(* Control reaches a BR of f. *)
Jumps(f) ==
  \E a \in Reach(f, {f}) :
    /\ a = f \/ a \notin elf.entries
    /\ a \in elf.memory
    /\ elf.insn[a].cat = "br"

(* A BR may go to any instruction of its function. *)
Nodes(f) == Reach(f, IF Jumps(f) THEN {f} \cup f .. elf.end[f] - 1 ELSE {f})

Translation(f) ==
  [nodes |-> Nodes(f),
   edges |-> UNION {{a} \X Flow(f, a) : a \in Nodes(f)}]

Init == graph = [a \in Addr |-> NoGraph]

Translate(f) ==
  /\ f \in elf.entries
  /\ graph[f] = NoGraph
  /\ graph' = [graph EXCEPT ![f] = Translation(f)]
  /\ UNCHANGED elf

Next == \E f \in Addr : Translate(f)

Spec == Init /\ [][Next]_<<elf, graph>>
=============================================================================
