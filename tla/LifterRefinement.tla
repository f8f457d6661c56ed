-------------------------- MODULE LifterRefinement --------------------------
EXTENDS TraceLifter

(***************************************************************************)
(* The lifting loop keeps the promise of LifterSpec: whatever the order of *)
(* the work lists, each function becomes the graph of its reachable        *)
(* instructions, in one step and once.                                     *)
(***************************************************************************)
Promise == INSTANCE LifterSpec WITH
  graph <- [f \in Addr |->
              [nodes |-> defs[f].blocks,
               edges |-> UNION {{a} \X defs[f].term[a].succ : a \in defs[f].blocks}]]

KeepsThePromise == Promise!Spec
=============================================================================
