----------------------------- MODULE Collection -----------------------------
(***************************************************************************)
(* What a collection promises to gcalloc: in one step, the cells that are  *)
(* reached from the roots keep their words, all others are cleared, and    *)
(* the free pointer is at the first cleared cell.  PopHeap uses this step  *)
(* inside gcalloc; Collector shows that __gc__ of runtime/msc.c takes it.  *)
(***************************************************************************)
EXTENDS PopWords

VARIABLES car, cdr, free, roots, done

vars == <<car, cdr, free, roots, done>>

Init ==
  /\ car \in [Cells -> Words] /\ cdr \in [Cells -> Words]
  /\ free \in Cells
  /\ \A w \in roots : w \in Words
  /\ done = FALSE

Collect ==
  LET live == {p.cell : p \in Reach(car, cdr, roots)}
  IN  /\ ~ done
      /\ done' = TRUE
      /\ car' = Kept(car, live)
      /\ cdr' = Kept(cdr, live)
      /\ FirstCleared(free', live)
      /\ UNCHANGED roots

Spec == Init /\ [][Collect]_vars

=============================================================================
