---------------------------- MODULE Activations -----------------------------
(***************************************************************************)
(* What calls mean in Poplang: every activation of a procedure owns its    *)
(* words, a call gives the callee its arguments and then the words its     *)
(* closure captured, and while the callee runs nothing else changes.       *)
(*                                                                         *)
(* An activation is the sequence of its bound words.  Two of them are      *)
(* links: no expression can name them, and they lie below the arguments of *)
(* every call that is not a tail call.  Frames shows that the code emitted *)
(* by the compiler, which has one stack of machine words, provides this.   *)
(***************************************************************************)
EXTENDS Integers, Sequences

CONSTANTS
  Data,     (* The values that are no procedure.                           *)
  Zero,     (* The one a slot has when it is bound.                        *)
  Procs,    (* The procedure values.                                       *)
  Params,   (* The number of parameters of each.                           *)
  Env,      (* The words each has captured.                                *)
  MaxArgs,  (* Bound on the number of arguments of a call.                 *)
  Link      (* What stands for the two words of a call.                    *)

Values == Data \cup Procs

VARIABLES
  running,  (* The words of the running activation.                        *)
  waiting,  (* Those of the activations that wait for a call to return,    *)
            (* the innermost last.                                         *)
  status    (* "run", "mistyped" after a call of something else than a     *)
            (* procedure, "undefined" after one with too many arguments or *)
            (* too few.                                                    *)

vars == <<running, waiting, status>>

Zeros(n) == [i \in 1 .. n |-> Zero]

(* The words s without the last n.                                         *)
Without(s, n) == SubSeq(s, 1, Len(s) - n)

-----------------------------------------------------------------------------
(* The running activation gets more words, fewer, or other ones.           *)
Longer  == Len(running') > Len(running)
Shorter == Len(running') < Len(running)
Alike   == Len(running') = Len(running)

Bind ==
  /\ Longer
  /\ running' = Append(running, Zero)
  /\ UNCHANGED <<waiting, status>>

Unbind ==
  /\ Shorter
  /\ running' = SubSeq(running, 1, Len(running'))
  /\ UNCHANGED <<waiting, status>>

Write ==
  /\ Alike
  /\ \E i \in 1 .. Len(running) :
       /\ running[i] # Link /\ running'[i] \in Values
       /\ running' = [running EXCEPT ![i] = running'[i]]
  /\ UNCHANGED <<waiting, status>>

(* Room for the procedure and its arguments, without links and with.       *)
Prepare ==
  /\ Longer
  /\ \E n \in 0 .. MaxArgs, links \in {<<>>, <<Link, Link>>} :
       running' = running \o links \o Zeros(n + 1)
  /\ UNCHANGED <<waiting, status>>

(* The procedure to call is the last word, n arguments lie before it.      *)
Callee       == running[Len(running)]
Arguments(n) == SubSeq(running, Len(running) - n, Len(running) - 1)

Fits(n) ==
  /\ n < Len(running)
  /\ \A i \in 1 .. n : Arguments(n)[i] # Link
  /\ Callee \in Procs
  /\ n = Params[Callee]

Call ==
  \E n \in 0 .. MaxArgs :
    /\ Fits(n)
    /\ waiting' = Append(waiting, Without(running, n + 1))
    /\ running' = Arguments(n) \o Env[Callee]
    /\ UNCHANGED status

TailCall ==
  \E n \in 0 .. MaxArgs :
    /\ Fits(n)
    /\ running' = Arguments(n) \o Env[Callee]
    /\ UNCHANGED <<waiting, status>>

(* The caller drops the two links.                                         *)
Return ==
  /\ waiting # <<>>
  /\ waiting' = Without(waiting, 1)
  /\ running' = Without(waiting[Len(waiting)], 2)
  /\ UNCHANGED status

Fail ==
  /\ running # <<>>
  /\ status' = IF Callee \in Procs THEN "undefined" ELSE "mistyped"
  /\ UNCHANGED <<running, waiting>>

Init == running = <<>> /\ waiting = <<>> /\ status = "run"

Next ==
  /\ status = "run"
  /\ Bind \/ Unbind \/ Write \/ Prepare \/ Call \/ TailCall \/ Return \/ Fail

Spec == Init /\ [][Next]_vars

=============================================================================
