----------------------------- MODULE MCPopHeap ------------------------------
(***************************************************************************)
(* PopHeap for TLC.                                                        *)
(***************************************************************************)
EXTENDS PopHeap

(* The words above the frame are never read: bind_ clears a slot before it *)
(* is used again.  Two states that differ in them only count as one.       *)
BoundSlots == <<heap, [i \in Bound |-> stack[i]], frame, glbl, status, tame>>

(* Programs that stay tame: the first step out is checked, not explored.   *)
StaysTame == tame
=============================================================================
