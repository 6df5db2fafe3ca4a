------------------------------ MODULE MCFrames ------------------------------
(***************************************************************************)
(* Frames for TLC: a definition with one parameter and one with two, and   *)
(* a lambda with a parameter and a captured word.                          *)
(***************************************************************************)
EXTENDS Frames

CONSTANTS zero, word, unary, binary, lambda

MCData   == {zero, word}
MCProcs  == {unary, binary, lambda}
MCParams == [p \in MCProcs |-> IF p = binary THEN 2 ELSE 1]
MCEnv    == [p \in MCProcs |-> IF p = lambda THEN <<word>> ELSE <<>>]

(* The words below the last bound slot are never read before they are      *)
(* written.                                                                *)
BoundWords == <<[a \in 1 .. (rsp + Running.bound) |-> mem[a]], rsp, gcframe, acts, status>>
=============================================================================
