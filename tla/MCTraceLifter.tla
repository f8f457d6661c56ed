--------------------------- MODULE MCTraceLifter ---------------------------
(***************************************************************************)
(* Binaries for TLC.  The instructions are chosen freely among the shapes  *)
(* below; the layouts are those SetELFData produces.                       *)
(***************************************************************************)
EXTENDS LifterRefinement, TLC

Direct(targets) == [cat : {"jump", "bl", "cond"}, taken : targets]
Other == [cat : {"normal", "br", "svc", "ret"}, taken : {0}]
Rare  == [cat : {"ret", "invalid", "blr", "br"}, taken : {0}]

Filler == [cat |-> "ret", taken |-> 0]

Binary(entries, end, code) ==
  [insn |-> [a \in Addr |-> IF a \in DOMAIN code THEN code[a] ELSE Filler],
   memory |-> DOMAIN code, entries |-> entries, end |-> end]

(* Functions 0..2 and 3 side by side; the section ends at 4. *)
SideBySide ==
  {Binary({0, 3}, (0 :> 3) @@ (3 :> 4), c @@ (3 :> last)) :
     c \in [0 .. 2 -> Other \cup Direct({0, 2, 3})],
     last \in {Filler, [cat |-> "jump", taken |-> 0]}}

(* One function inside another, as __wrap_main is inside _start. *)
Nested ==
  {Binary({0, 1}, (0 :> 3) @@ (1 :> 2), c @@ (2 :> last)) :
     c \in [0 .. 1 -> Other \cup Direct({0, 1, 2})], last \in Rare \cup Direct({0, 1})}

(* A hole between two functions. *)
Gap ==
  {Binary({0, 2}, (0 :> 1) @@ (2 :> 3), c) : c \in [{0, 2} -> Other \cup Direct({0, 1, 2})]}

Layouts == SideBySide \cup Nested \cup Gap

(* Fewer binaries, for runs that go on with the lifted program. *)
SmallLayouts == Nested \cup Gap
=============================================================================
