----------------------------- MODULE MCProgram -----------------------------
EXTENDS Program, MCTraceLifter

(* Three functions of one instruction that call and leave to each other. *)
Chain ==
  {Binary({0, 1, 2}, (0 :> 1) @@ (1 :> 2) @@ (2 :> 3), c @@ (2 :> last)) :
     c \in [0 .. 1 -> {[cat |-> "br", taken |-> 0], [cat |-> "svc", taken |-> 0]}
                        \cup [cat : {"jump", "bl"}, taken : {0, 1, 2}]],
     last \in Rare \cup [cat : {"cond"}, taken : {0, 3}]}

Programs == SmallLayouts \cup Chain
=============================================================================
