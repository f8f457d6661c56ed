---------------------------- MODULE MCPassedRegs ----------------------------
(***************************************************************************)
(* All maps of three callers with up to two B instructions each, and a     *)
(* fourth function that calls nobody.  A register for each function.       *)
(***************************************************************************)
EXTENDS PassedRegs

Functions == 1 .. 4
Lists(f) == UNION {[1 .. n -> Functions \ {f}] : n \in 1 .. 2}

Maps ==
  UNION {{m \in [C -> UNION {Lists(f) : f \in C}] : \A f \in C : m[f] \in Lists(f)} :
           C \in SUBSET (1 .. 3)}

OwnReg == [f \in Functions |-> {f}]
=============================================================================
