---------------------------- MODULE MCCollector -----------------------------
(***************************************************************************)
(* The heaps that TLC starts the collector with: every shape of the cells, *)
(* with one root on the stack; and heaps of boxes, with every stack of two *)
(* blocks and every value in the globals.  All of them satisfy Init.       *)
(***************************************************************************)
EXTENDS Collector

MCInit ==
  \/ \E shape \in Shapes(Tags) :
       Begins(shape, [Globals -> {Data}], Stacks(shape, 1))
  \/ \E shape \in {s \in Shapes({"none", "box"}) : s[Limit] = "none"} :
       Begins(shape, [Globals -> Values(shape)], Stacks(shape, MaxBlocks))

MCSpec == MCInit /\ [][Next]_vars /\ WF_vars(Next)
=============================================================================
