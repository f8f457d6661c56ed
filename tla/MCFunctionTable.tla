-------------------------- MODULE MCFunctionTable --------------------------
(***************************************************************************)
(* Files for TLC: three ways to lay out the sections, any set of symbols,  *)
(* at most one of them an alias, and code with and without the branch to   *)
(* main.                                                                   *)
(***************************************************************************)
EXTENDS FunctionTable, TLC

Sec(first, last) == [vma |-> first, size |-> last - first + 1]

Layouts == {(".text" :> Sec(0, 3)) @@ (".plt" :> Sec(4, 5)),
            (".init" :> Sec(0, 1)) @@ (".text" :> Sec(2, 4)),
            (".init" :> Sec(0, 0)) @@ (".text" :> Sec(2, 4)) @@ (".iplt" :> Sec(5, 5)),
            (".text" :> Sec(0, 3)) @@ (".init" :> Sec(3, 4))}

Symbols ==
  {[entry : E, name : {"symbol"}] \cup [entry : A, name : {"alias"}] :
     E \in SUBSET (0 .. 5), A \in {{}} \cup {{a} : a \in 0 .. 5}}

Sources ==
  {[a \in Addr |-> "normal"],
   [a \in Addr |-> IF a % 2 = 0 THEN "nop" ELSE "jump"],
   [a \in Addr |-> IF a \in {1, 3} THEN "nop" ELSE IF a = 2 THEN "jump" ELSE "br"]}

SmallFiles ==
  [code : Sources, sections : Layouts, symbols : Symbols, entry_point : {0, 2, 4}]
=============================================================================
