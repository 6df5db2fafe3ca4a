------------------------------- MODULE Frames -------------------------------
(***************************************************************************)
(* Frames on the machine stack, as the code emitted by compiler/compile.c  *)
(* lays them out.  Words are counted downwards from __gcstack__: slot i of *)
(* the running activation is the word at RSP - 8 * i, here mem[rsp + i].   *)
(* __gcframe__ is counted in words too.                                    *)
(*                                                                         *)
(* The lexicon of the code that is executing is part of its control state: *)
(* the scopes open at this point of it, with the offset of their first     *)
(* slot, their number of slots and how many of these have got their value. *)
(* A step is the code emitted between two evaluations of subexpressions;   *)
(* what an expression evaluates to is any value.                           *)
(***************************************************************************)
EXTENDS Integers, Sequences, FiniteSets

CONSTANTS
  Data, Zero, Procs, Params, Env, MaxArgs, Link,    (* As in Activations.  *)
  Results,   (* What the expressions of the program evaluate to.           *)
  Marker,    (* The word 7 that a call leaves below its return address.    *)
  Junk,      (* A word that nobody has put there.                          *)
  MaxWords,  (* Bound on the size of the stack.                            *)
  MaxLocals, (* Bound on the variables an activation has bound by let.     *)
  MaxActs    (* Bound on the number of activations.                        *)

Values == Data \cup Procs

ReturnTo(k) == [activation |-> k]
Returns     == [activation : 1 .. MaxActs]

ASSUME FrameAssumption ==
  /\ Zero \in Data
  /\ Data \cap Procs = {} /\ Results \subseteq Values /\ Link \notin Values
  /\ Marker \notin Values \cup Returns /\ Junk \notin Values \cup Returns \cup {Marker}
  /\ Params \in [Procs -> Nat]
  /\ Env \in [Procs -> Seq(Values)]
  /\ MaxArgs \in Nat /\ MaxWords \in Nat \ {0} /\ MaxLocals \in Nat /\ MaxActs \in Nat \ {0}

VARIABLES
  mem,       (* The words below __gcstack__.                               *)
  rsp,       (* RSP, in words below __gcstack__.                           *)
  gcframe,   (* __gcframe__, in words.                                     *)
  acts,      (* The activations, with the lexicon of each: the running one *)
             (* last.                                                      *)
  status     (* As in Activations.                                         *)

vars == <<mem, rsp, gcframe, acts, status>>

Addresses == 1 .. MaxWords

-----------------------------------------------------------------------------
(***************************************************************************)
(* The lexicon.  A scope is "params", a "let", a "call" (the two slots for *)
(* a marker and a return address), or holds the operands of one, "args" or *)
(* "tail": the arguments, and behind them the procedure.                   *)
(***************************************************************************)
Scope(kind, first, size, done) ==
  [kind |-> kind, first |-> first, size |-> size, done |-> done]

Running == acts[Len(acts)]
Scopes  == Running.scopes
Top     == Scopes[Len(Scopes)]
Outer   == SubSeq(Scopes, 1, Len(Scopes) - 1)
Offset  == Running.bound + 1                      (* lexicon_offset(table)  *)

Slots(scope) == scope.first .. (scope.first + scope.size - 1)
Locals       == UNION {Slots(Scopes[s]) : s \in {t \in DOMAIN Scopes : Scopes[t].kind = "let"}}

Room(n)   == rsp + Running.bound + n <= MaxWords
RoomToLet == Cardinality(Locals) < MaxLocals

(* An expression is being evaluated: not when all operands have a value.   *)
Evaluating == Top.kind \in {"args", "tail"} => Top.done < Top.size

(* In the body of a procedure, behind nothing that is still to be done.    *)
TailPosition ==
  /\ Len(acts) > 1
  /\ \A s \in 1 .. Len(Scopes) : Scopes[s].kind \in {"params", "let"} /\ Scopes[s].done = Scopes[s].size

(* The running activation gets other scopes and another number of slots.   *)
Rescope(scopes, bound) ==
  acts' = [acts EXCEPT ![Len(acts)] = [@ EXCEPT !.scopes = scopes, !.bound = bound]]

Done(n) == Rescope(Append(Outer, [Top EXCEPT !.done = n]), Running.bound)

(* mov [RSP - 8 * slot], RAX *)
Store(slot, w) == mem' = [mem EXCEPT ![rsp + slot] = w]

(* bind__ for each of the next n slots.                                    *)
Bound(n) ==
  /\ Room(n)
  /\ mem' = [a \in Addresses |-> IF a - rsp \in Offset .. (Offset + n - 1) THEN Zero ELSE mem[a]]
  /\ gcframe' = gcframe + n

-----------------------------------------------------------------------------
(* A let without clauses emits nothing, so a scope is opened with its      *)
(* first slot.                                                             *)
OpenLet ==
  /\ Evaluating /\ RoomToLet
  /\ Bound(1)
  /\ Rescope(Append(Scopes, Scope("let", Offset, 1, 0)), Offset)
  /\ UNCHANGED <<rsp, status>>

BindLet ==
  /\ Top.kind = "let" /\ Top.done = Top.size /\ RoomToLet
  /\ Bound(1)
  /\ Rescope(Append(Outer, [Top EXCEPT !.size = @ + 1]), Offset)
  /\ UNCHANGED <<rsp, status>>

StoreLet ==
  /\ Top.kind = "let" /\ Top.done < Top.size
  /\ \E v \in Results : Store(Top.first + Top.size - 1, v)
  /\ Done(Top.size)
  /\ UNCHANGED <<rsp, gcframe, status>>

(* pop_scope_ at the end of the body.                                      *)
CloseLet ==
  /\ Top.kind = "let" /\ Top.done = Top.size
  /\ Rescope(Outer, Running.bound - Top.size)
  /\ gcframe' = gcframe - Top.size
  /\ UNCHANGED <<mem, rsp, status>>

(* set! of a variable.                                                     *)
SetVariable ==
  /\ Evaluating
  /\ \E s \in 1 .. Len(Scopes), v \in Results :
       /\ Scopes[s].kind \in {"params", "let"}
       /\ \E i \in Slots(Scopes[s]) : Store(i, v)
  /\ UNCHANGED <<rsp, gcframe, acts, status>>

(* Mutant: RSP is moved one word less.                                     *)
OverlapsLast == rsp + Running.bound - 1

(* RSP while a function of the runtime is called.                          *)
BelowSlots == rsp + Running.bound

(* gcalloc, or any other function: it leaves its own words below.          *)
RuntimeCall ==
  /\ Evaluating
  /\ mem' = [a \in Addresses |-> IF a > BelowSlots THEN Junk ELSE mem[a]]
  /\ UNCHANGED <<rsp, gcframe, acts, status>>

-----------------------------------------------------------------------------
(***************************************************************************)
(* Calls.                                                                  *)
(***************************************************************************)
BeginCall ==
  /\ Evaluating
  /\ \E n \in 0 .. MaxArgs :
       /\ Bound(n + 3)
       /\ Rescope(Scopes \o <<Scope("call", Offset, 2, 2), Scope("args", Offset + 2, n + 1, 0)>>,
                  Running.bound + n + 3)
  /\ UNCHANGED <<rsp, status>>

BeginTailCall ==
  /\ TailPosition
  /\ \E n \in 0 .. MaxArgs :
       /\ Bound(n + 1)
       /\ Rescope(Append(Scopes, Scope("tail", Offset, n + 1, 0)), Running.bound + n + 1)
  /\ UNCHANGED <<rsp, status>>

(* The procedure is evaluated first, and kept behind the arguments.        *)
OperandSlot(done) == IF done = 0 THEN Top.size - 1 ELSE done - 1

Operand ==
  /\ Top.kind \in {"args", "tail"} /\ Top.done < Top.size
  /\ \E v \in Results : Store(Top.first + OperandSlot(Top.done), v)
  /\ Done(Top.done + 1)
  /\ UNCHANGED <<rsp, gcframe, status>>

Ready(kind) == Top.kind = kind /\ Top.done = Top.size

Callee == mem[rsp + Top.first + Top.size - 1]
NArgs  == Top.size - 1

(* assert_type; a wrong number of arguments is not noticed, and nothing is *)
(* claimed of the program from there on.                                   *)
Fail ==
  /\ Ready("args") \/ Ready("tail")
  /\ \/ Callee \notin Procs /\ status' = "mistyped"
     \/ Callee \in Procs /\ NArgs # Params[Callee] /\ status' = "undefined"
  /\ UNCHANGED <<mem, rsp, gcframe, acts>>

Fits == Callee \in Procs /\ NArgs = Params[Callee]

(* Mutant: the captured words are copied one word further down.            *)
EnvBehind(words, a) ==
  [b \in Addresses |-> IF b - a \in DOMAIN Env[Callee] THEN Env[Callee][b - a] ELSE words[b]]

(* compile_closure_envcopy: the captured words, from address a downwards.  *)
EnvCopied(words, a) ==
  [b \in Addresses |-> IF b - a + 1 \in DOMAIN Env[Callee] THEN Env[Callee][b - a + 1] ELSE words[b]]

(* The parameters and captured words are the slots of the callee, which    *)
(* adds them to __gcframe__ as its first act.                              *)
Entered(p, base) ==
  LET size == Params[p] + Len(Env[p])
  IN  [base |-> base, bound |-> size, scopes |-> <<Scope("params", 1, size, size)>>]

RoomFor(a) == a.base + a.bound <= MaxWords

(* Mutant: there is no marker below the return address.                    *)
NoMarker(words, a) == words

Marked(words, a) == [words EXCEPT ![a] = Marker]

(* Mutant: the two slots of the call are taken off before it, too.         *)
LinkPopped == gcframe - Top.size - 2

ArgumentsPopped == gcframe - Top.size

Call ==
  /\ Ready("args") /\ Fits
  /\ Len(acts) < MaxActs
  /\ LET marker == rsp + Top.first - 2
         callee == Entered(Callee, marker + 1)
     IN  /\ RoomFor(callee)
         /\ mem' = [EnvCopied(Marked(mem, marker), marker + 2 + NArgs)
                      EXCEPT ![marker + 1] = ReturnTo(Len(acts))]
         /\ rsp' = marker + 1
         /\ gcframe' = ArgumentsPopped + callee.bound
         /\ acts' = Append([acts EXCEPT ![Len(acts)] =
                              [@ EXCEPT !.scopes = Outer, !.bound = Top.first - 1]], callee)
  /\ UNCHANGED status

(* Mutant: only the operands are taken off, not the locals they are behind.*)
LocalsKept == gcframe - Top.size

FramePopped == gcframe - Top.size - (Top.first - 1)

(* Mutant: the last argument is moved first.                               *)
MovedBackwards ==
  LET after[i \in 0 .. NArgs] ==
        IF i = 0 THEN mem
        ELSE [after[i - 1] EXCEPT ![rsp + NArgs - i + 1] = after[i - 1][rsp + Top.first + NArgs - i]]
  IN  after[NArgs]

(* Mutant: the slots are counted from 0.                                   *)
MovedTooHigh ==
  LET after[i \in 0 .. NArgs] ==
        IF i = 0 THEN mem
        ELSE [after[i - 1] EXCEPT ![rsp + i - 1] = after[i - 1][rsp + Top.first + i - 1]]
  IN  after[NArgs]

(* The words after the arguments have been moved, one by one, to the slots *)
(* from the first on.                                                      *)
Moved ==
  LET after[i \in 0 .. NArgs] ==
        IF i = 0 THEN mem
        ELSE [after[i - 1] EXCEPT ![rsp + i] = after[i - 1][rsp + Top.first + i - 1]]
  IN  after[NArgs]

TailCall ==
  /\ Ready("tail") /\ Fits
  /\ LET callee == Entered(Callee, rsp)
     IN  /\ RoomFor(callee)
         /\ mem' = EnvCopied(Moved, rsp + 1 + NArgs)
         /\ gcframe' = FramePopped + callee.bound
         /\ acts' = [acts EXCEPT ![Len(acts)] = callee]
  /\ UNCHANGED <<rsp, status>>

(* ret, to the activation whose address is at RSP; it pops its two slots   *)
(* and moves RSP back.                                                     *)
Return ==
  /\ Len(acts) > 1 /\ Len(Scopes) = 1
  /\ \E k \in 1 .. (Len(acts) - 1) :
       LET caller == acts[k]
           link   == caller.scopes[Len(caller.scopes)]
       IN  /\ mem[rsp] = ReturnTo(k)
           /\ rsp' = rsp - 1 - link.first
           /\ gcframe' = gcframe - Running.bound - link.size
           /\ acts' = [SubSeq(acts, 1, k) EXCEPT ![k] =
                         [caller EXCEPT !.scopes = SubSeq(@, 1, Len(@) - 1), !.bound = @ - link.size]]
  /\ UNCHANGED <<mem, status>>

-----------------------------------------------------------------------------
Init ==
  /\ mem = [a \in Addresses |-> Junk]
  /\ rsp = 0
  /\ gcframe = 0
  /\ acts = <<[base |-> 0, bound |-> 0, scopes |-> <<Scope("params", 1, 0, 0)>>]>>
  /\ status = "run"

Next ==
  /\ status = "run"
  /\ \/ OpenLet \/ BindLet \/ StoreLet \/ CloseLet \/ SetVariable \/ RuntimeCall
     \/ BeginCall \/ BeginTailCall \/ Operand \/ Fail \/ Call \/ TailCall \/ Return

Spec == Init /\ [][Next]_vars

-----------------------------------------------------------------------------
(***************************************************************************)
(* Properties.                                                             *)
(***************************************************************************)
(* The slots of an activation that are links to the call it waits for, or  *)
(* is preparing.                                                           *)
IsLink(a, i) ==
  \E s \in DOMAIN a.scopes : a.scopes[s].kind = "call" /\ i - a.scopes[s].first \in {0, 1}

(* Type invariant: a word is a value, a return address, a marker or what   *)
(* somebody left there, and RSP and __gcframe__ stay within the stack.     *)
TypeOK ==
  /\ mem \in [Addresses -> Values \cup Returns \cup {Marker, Junk}]
  /\ rsp \in 0 .. MaxWords
  /\ gcframe \in 0 .. MaxWords
  /\ Len(acts) \in 1 .. MaxActs
  /\ status \in {"run", "mistyped", "undefined"}

(* __gcframe__ is what the code generator takes it for: the distance from  *)
(* __gcstack__ to the last bound slot of the running activation.           *)
FrameExact == gcframe = rsp + Running.bound

(* The addresses __gc__ reads, going down from __gcstack__ with a step     *)
(* over the word behind each marker.                                       *)
Walked ==
  LET visits[a \in 1 .. (gcframe + 1)] ==
        \/ a = 1
        \/ visits[a - 1] /\ mem[a - 1] # Marker
        \/ a > 2 /\ visits[a - 2] /\ mem[a - 2] = Marker
  IN  {a \in 1 .. (gcframe + 1) : visits[a]}

(* Should a collection start now, its walk down the stack ends where the   *)
(* frame ends, meets every word of every activation, and takes nothing for *)
(* a word of the program that is none: no return address, no leftover.     *)
RootsExact ==
  /\ gcframe + 1 \in Walked
  /\ \A a \in Walked \ {gcframe + 1} : mem[a] \in Values \cup {Marker}
  /\ \A k \in DOMAIN acts : \A i \in 1 .. acts[k].bound :
       IsLink(acts[k], i) \/ acts[k].base + i \in Walked

(* RSP is back where the running activation began, however many calls and  *)
(* tail calls it has made, and every return address is still where the RET *)
(* of its activation will look for it, and leads to the caller.            *)
ReturnsHome ==
  /\ rsp = Running.base
  /\ \A k \in 2 .. Len(acts) : mem[acts[k].base] = ReturnTo(k - 1)

(* Calls do what Activations says: no word of an activation changes while  *)
(* another one runs, a callee finds its arguments and captured words, and  *)
(* a tail call replaces the activation that makes it.                      *)
Words(a) == [i \in 1 .. a.bound |-> IF IsLink(a, i) THEN Link ELSE mem[a.base + i]]

Meaning ==
  INSTANCE Activations WITH
    running <- Words(Running),
    waiting <- [k \in 1 .. (Len(acts) - 1) |-> Words(acts[k])]

MeansCalls == Meaning!Spec

=============================================================================
