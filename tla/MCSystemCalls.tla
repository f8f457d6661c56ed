--------------------------- MODULE MCSystemCalls ---------------------------
(***************************************************************************)
(* A heap of four units between two sections and the stack.  .tbss has the *)
(* address of the section behind it, as the linker places it.              *)
(***************************************************************************)
EXTENDS SystemCalls

Sec(vma, len, tbss) == [vma |-> vma, len |-> len, tbss |-> tbss]

Tables == {<<Sec(0, 1, FALSE), Sec(1, 1, TRUE), Sec(1, 2, FALSE)>>,
           <<Sec(1, 2, FALSE), Sec(0, 1, FALSE)>>}
=============================================================================
