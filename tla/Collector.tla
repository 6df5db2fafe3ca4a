----------------------------- MODULE Collector ------------------------------
(***************************************************************************)
(* One run of the collector, __gc__ of runtime/msc.c, step by step: the    *)
(* walk over the global segment, the walk down the stack, the marking of   *)
(* what a root leads to, and the sweep.  A step is one iteration of one of *)
(* its loops; the iteration of mns_ that calls mns_ for the first word of  *)
(* a list is two, one before that call and one after it.                   *)
(*                                                                         *)
(* Bit 3 of a word in the heap is its mark.  mns_ marks words, not cells,  *)
(* and learns from the bit of a word it has read that it was there before; *)
(* firsts and seconds are the cells whose first and second word has it.    *)
(***************************************************************************)
EXTENDS PopWords, SequencesExt

CONSTANTS
  NGlobals,  (* The number of global definitions.                          *)
  MaxBlocks, (* Bound on the values and return addresses on the stack.     *)
  Tags       (* The tags of the cells of the initial heap.                 *)

ASSUME CollectorAssumption ==
  /\ NGlobals \in Nat /\ MaxBlocks \in Nat
  /\ Tags \subseteq PointerTags \cup {"none"}

VARIABLES
  car, cdr,         (* The words of the cells, without their marks.        *)
  firsts, seconds,  (* The marked words.                                   *)
  free,             (* __free__, in cells.                                 *)
  glbl,             (* The words of the globals.                           *)
  stack,            (* The words below __gcstack__, __gcframe__ of them.   *)
  phase,            (* The loop of __gc__ that is running.                 *)
  next,             (* Its position.                                       *)
  calls,            (* The activations of mns_, the innermost first.       *)
  before            (* History: the heap the collection started with.      *)

vars == <<car, cdr, firsts, seconds, free, glbl, stack, phase, next, calls, before>>

Globals == 1 .. NGlobals

(* A non-tail call leaves the word 7 on the stack, and its return address  *)
(* in the word below.                                                      *)
Marker == Flat("marker")
Return == Flat("return")

(* The k-th word of the global segment: a global and a word of padding.    *)
GlobalWord(k) == IF k % 2 = 1 THEN glbl[(k + 1) \div 2] ELSE Zero

(* What the collector is to take for roots.                                *)
Roots ==
  {glbl[g] : g \in {g \in Globals : 2 * (g - 1) < NGlobals}}
    \cup {stack[i] : i \in {i \in DOMAIN stack : stack[i] \notin {Marker, Return}}}

-----------------------------------------------------------------------------
(***************************************************************************)
(* The walks over the roots.                                               *)
(***************************************************************************)
Call(w)       == [word |-> w, seen |-> FALSE, resumed |-> FALSE]
Activation(w) == IF IsPointer(w) THEN <<Call(w)>> ELSE <<>>

ReadGlobal ==
  /\ phase = "globals" /\ calls = <<>>
  /\ next <= NGlobals
  /\ calls' = Activation(GlobalWord(next))
  /\ next' = next + 1
  /\ UNCHANGED <<car, cdr, firsts, seconds, free, glbl, stack, phase, before>>

EndGlobals ==
  /\ phase = "globals" /\ calls = <<>>
  /\ next > NGlobals
  /\ phase' = "stack" /\ next' = 1
  /\ UNCHANGED <<car, cdr, firsts, seconds, free, glbl, stack, calls, before>>

(* Mutant: a return address is not skipped.                                *)
SkipNothing(w) == 1

Skip(w) == IF w = Marker THEN 2 ELSE 1

ReadStack ==
  /\ phase = "stack" /\ calls = <<>>
  /\ next <= Len(stack)
  /\ calls' = Activation(stack[next])
  /\ next' = next + Skip(stack[next])
  /\ UNCHANGED <<car, cdr, firsts, seconds, free, glbl, stack, phase, before>>

EndStack ==
  /\ phase = "stack" /\ calls = <<>>
  /\ next > Len(stack)
  /\ phase' = "sweep" /\ next' = 0
  /\ free' = 0
  /\ UNCHANGED <<car, cdr, firsts, seconds, glbl, stack, calls, before>>

-----------------------------------------------------------------------------
(***************************************************************************)
(* mns_.                                                                   *)
(***************************************************************************)
Top == Head(calls)

(* Mutants: the loop ends after one round; the mark of the word it goes on *)
(* from is lost.                                                           *)
OneRound(w, seen)   == calls' = Tail(calls)
ForgetMark(w, seen) ==
  calls' = IF IsPointer(w) THEN <<Call(w)>> \o Tail(calls) ELSE Tail(calls)

(* mns_ goes on from the word it read before marking it, unless that is    *)
(* flat data.                                                              *)
GoOn(w, seen) ==
  calls' = IF IsPointer(w) THEN <<[Call(w) EXCEPT !.seen = seen]>> \o Tail(calls)
           ELSE Tail(calls)

(* Mutant: a word that was marked before is followed again.                *)
NeverReturn(a) == ~ IsPointer(a.word)

Returns(a) == ~ IsPointer(a.word) \/ a.seen

Leave ==
  /\ calls # <<>> /\ ~ Top.resumed /\ Returns(Top)
  /\ calls' = Tail(calls)
  /\ UNCHANGED <<car, cdr, firsts, seconds, free, glbl, stack, phase, next, before>>

(* A box, a string or a symbol.                                            *)
MarkBox ==
  /\ calls # <<>> /\ ~ Top.resumed /\ ~ Returns(Top)
  /\ Top.word.tag \in BoxLikeTags
  /\ LET c == Top.word.cell IN
       /\ firsts' = firsts \cup {c}
       /\ GoOn(car[c], c \in firsts)
  /\ UNCHANGED <<car, cdr, seconds, free, glbl, stack, phase, next, before>>

(* Mutant: the environment is marked but not followed.                     *)
StopAtEnvironment(c) == calls' = Tail(calls)

FollowEnvironment(c) == GoOn(cdr[c], c \in seconds)

MarkProcedure ==
  /\ calls # <<>> /\ ~ Top.resumed /\ ~ Returns(Top)
  /\ Top.word.tag = "proc"
  /\ LET c == Top.word.cell IN
       /\ firsts' = firsts \cup {c} /\ seconds' = seconds \cup {c}
       /\ FollowEnvironment(c)
  /\ UNCHANGED <<car, cdr, free, glbl, stack, phase, next, before>>

(* The first word of a list is given to a call of mns_ ...                 *)
MarkLeft ==
  /\ calls # <<>> /\ ~ Top.resumed /\ ~ Returns(Top)
  /\ Top.word.tag \in ListTags
  /\ LET c == Top.word.cell IN
       /\ firsts' = firsts \cup {c}
       /\ calls' = <<[Call(car[c]) EXCEPT !.seen = c \in firsts],
                     [Top EXCEPT !.resumed = TRUE]>> \o Tail(calls)
  /\ UNCHANGED <<car, cdr, seconds, free, glbl, stack, phase, next, before>>

(* ... after which the loop goes on from the second.                       *)
MarkRight ==
  /\ calls # <<>> /\ Top.resumed
  /\ LET c == Top.word.cell IN
       /\ seconds' = seconds \cup {c}
       /\ GoOn(cdr[c], c \in seconds)
  /\ UNCHANGED <<car, cdr, firsts, free, glbl, stack, phase, next, before>>

-----------------------------------------------------------------------------
(***************************************************************************)
(* mnsweep, one cell.                                                      *)
(***************************************************************************)
(* Mutant: the second word of a cell keeps its mark.                       *)
FirstOnly(marks) == marks

Unmarked(marks) == marks \ {next}

Unmark ==
  /\ phase = "sweep" /\ next \in firsts
  /\ firsts' = firsts \ {next} /\ seconds' = Unmarked(seconds)
  /\ next' = next + 1
  /\ UNCHANGED <<car, cdr, free, glbl, stack, phase, calls, before>>

(* Mutant: the cell behind the cleared one is kept in __free__.            *)
CellBehind == next + 1

Cleared == IF free = 0 THEN next ELSE free

Clear ==
  /\ phase = "sweep" /\ next \in Cells \ firsts
  /\ free' = Cleared
  /\ car' = [car EXCEPT ![next] = Zero] /\ cdr' = [cdr EXCEPT ![next] = Zero]
  /\ seconds' = seconds \ {next}
  /\ next' = next + 1
  /\ UNCHANGED <<firsts, glbl, stack, phase, calls, before>>

EndSweep ==
  /\ phase = "sweep" /\ next = N
  /\ phase' = "done"
  /\ UNCHANGED <<car, cdr, firsts, seconds, free, glbl, stack, next, calls, before>>

-----------------------------------------------------------------------------
(***************************************************************************)
(* A collection starts in a heap of the program: the pointers to a cell    *)
(* agree on its tag (NoDangling of PopHeap), chains lie behind strings,    *)
(* names, procedures and chains only, and the cells past the limit were    *)
(* never handed out.  On the stack lie values, half-built chains and       *)
(* return addresses with their markers.                                    *)
(***************************************************************************)
Pointing(shape, tags) == {Pointer(shape[c], c) : c \in {c \in Cells : shape[c] \in tags}}

Values(shape) == {Data} \cup Pointing(shape, PointerTags \ {"chain"})
Chains(shape) == {Empty} \cup Pointing(shape, {"chain"})

FirstWords(shape, tag) ==
  CASE tag = "none" -> {Zero}
    [] tag = "proc" -> {Code}
    [] tag \in {"string", "name"} -> Chains(shape)
    [] OTHER -> Values(shape)

SecondWords(shape, tag) ==
  CASE tag = "list" -> Values(shape)
    [] tag \in {"chain", "proc"} -> Chains(shape)
    [] OTHER -> {Zero}

Columns(shape, Column(_, _)) ==
  {f \in [Cells -> UNION {Column(shape, shape[c]) : c \in Cells}] :
     \A c \in Cells : f[c] \in Column(shape, shape[c])}

Stacks(shape, bound) ==
  LET Blocks == {<<w>> : w \in Values(shape) \cup Chains(shape)} \cup {<<Marker, Return>>}
  IN  {FlattenSeq(blocks) : blocks \in BoundedSeq(Blocks, bound)}

Shapes(tags) == {s \in [Cells -> tags] : \A c \in Cells : c > Limit => s[c] = "none"}

Begins(shape, globals, stacks) ==
  /\ LET cars == Columns(shape, FirstWords)
         cdrs == Columns(shape, SecondWords)
     IN  car \in cars /\ cdr \in cdrs
  /\ glbl \in globals /\ stack \in stacks
  /\ firsts = {} /\ seconds = {}
  /\ free = Limit
  /\ phase = "globals" /\ next = 1
  /\ calls = <<>>
  /\ before = [car |-> car, cdr |-> cdr]

Init ==
  \E shape \in Shapes(Tags) :
    Begins(shape, [Globals -> Values(shape)], Stacks(shape, MaxBlocks))

Next ==
  \/ ReadGlobal \/ EndGlobals \/ ReadStack \/ EndStack
  \/ Leave \/ MarkBox \/ MarkProcedure \/ MarkLeft \/ MarkRight
  \/ Unmark \/ Clear \/ EndSweep

Spec == Init /\ [][Next]_vars

(* The collector is a loop the processor keeps executing.                  *)
FairSpec == Spec /\ WF_vars(Next)

-----------------------------------------------------------------------------
(***************************************************************************)
(* Properties.                                                             *)
(***************************************************************************)
TypeOK ==
  /\ car \in [Cells -> Words] /\ cdr \in [Cells -> Words]
  /\ firsts \subseteq Cells /\ seconds \subseteq Cells
  /\ free \in Cells
  /\ phase \in {"globals", "stack", "sweep", "done"}
  /\ next \in Nat
  /\ \A i \in DOMAIN calls : /\ calls[i].word \in Words
                             /\ calls[i].seen \in BOOLEAN /\ calls[i].resumed \in BOOLEAN

(* Between two roots the marks are closed: whatever a marked cell leads to *)
(* is marked, although mns_ turns back at the mark of a word and not of a  *)
(* cell.                                                                   *)
MarksClosed ==
  (phase \in {"globals", "stack"} /\ calls = <<>>) =>
    \A p \in {p \in Present(car, cdr, Roots) : p.cell \in firsts} :
      \A w \in Follow(car, cdr, p) : IsPointer(w) => w.cell \in firsts

(* The recursion of mns_ is no deeper than the number of list cells it     *)
(* marks, and two: a list can be met again while mns_ is still at its      *)
(* first word, through a word that has no mark yet, but only at the top of *)
(* the recursion.  So a cyclic heap cannot exhaust the C stack.            *)
DepthBounded ==
  Len(calls) <= 2 + Cardinality({calls[i].word.cell : i \in {i \in DOMAIN calls : calls[i].resumed}})

(* The walk down the stack never takes a return address for a word of the  *)
(* program.                                                                *)
SkipsReturns ==
  (phase = "stack" /\ calls = <<>> /\ next <= Len(stack)) => stack[next] # Return

(* When the collection is over no word is marked any more: a mark left in  *)
(* a word would make the program see another value.                        *)
MarksGone == phase = "done" => firsts = {} /\ seconds = {}

(* The collection as a whole is the one step gcalloc relies on.            *)
Promise ==
  INSTANCE Collection WITH
    car   <- IF phase = "done" THEN car ELSE before.car,
    cdr   <- IF phase = "done" THEN cdr ELSE before.cdr,
    free  <- IF phase = "done" THEN free ELSE Limit,
    roots <- Roots,
    done  <- phase = "done"

Collects == Promise!Spec

(* Every collection ends, on cyclic heaps too.                             *)
Terminates == <>(phase = "done")

=============================================================================
