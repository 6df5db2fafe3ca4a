------------------------------ MODULE PopHeap -------------------------------
(***************************************************************************)
(* The heap of a running Poplang program: the allocator gcalloc            *)
(* (runtime/gc.s), the collector it calls (runtime/msc.c) and the          *)
(* expressions of the compiled program that allocate, read and link cells  *)
(* (compiler/compile.c).  The program is single-threaded and a collection  *)
(* runs to its end inside the gcalloc that started it, so one call is one  *)
(* step here; Collector takes the collection apart.                        *)
(*                                                                         *)
(* stack[1 .. frame] are the slots bound in the lexicon, which the code    *)
(* addresses below RSP and whose number times eight is __gcframe__.  Every *)
(* operand of an allocation sits in such a slot during the call.           *)
(***************************************************************************)
EXTENDS PopWords

CONSTANTS
  NGlobals,  (* The number of global definitions of the program.           *)
  MaxFrame,  (* Bound on the number of bound stack slots.                  *)
  Uses,      (* The groups of operations the program uses.                 *)
  Literals   (* The tags of the flat values it writes.                     *)

Groups == {"box", "cons", "quote", "string", "name", "append", "lambda", "global"}

ASSUME ProgramAssumption ==
  /\ NGlobals \in Nat /\ MaxFrame \in Nat
  /\ Uses \subseteq Groups /\ Literals \subseteq {"zero", "data", "empty"}

VARIABLES
  car, cdr,  (* The two words of every cell.                               *)
  free,      (* __free__, in cells.                                        *)
  stack,     (* The stack words.                                           *)
  frame,     (* __gcframe__, in words.                                     *)
  glbl,      (* The word of every global.                                  *)
  status,    (* "run"; ended by error(): "full" for lack of memory or      *)
             (* "mistyped" by a type assertion; "hung" in an endless loop. *)
  shape,     (* History: the tag a cell was last built with.               *)
  tame       (* History: no cell was built with the word 0 first, and no   *)
             (* pointer was put in a global the collector does not scan.   *)

heap == <<car, cdr, free, shape>>
vars == <<car, cdr, free, stack, frame, glbl, status, shape, tame>>

Slots   == 1 .. MaxFrame
Globals == 1 .. NGlobals
Bound   == 1 .. frame

(***************************************************************************)
(* Roots.  A global takes two words (`dq 0, 0') but __globalsize__ counts  *)
(* one word for each, so the scan of __gc__ stops half way.                *)
(***************************************************************************)
Scanned      == {g \in Globals : 2 * (g - 1) < NGlobals}

(* Mutant: the walk starts one word too low and misses the first slot.     *)
RootsFromSecondSlot == {glbl[g] : g \in Scanned} \cup {stack[i] : i \in Bound \ {1}}

GcRoots      == {glbl[g] : g \in Scanned} \cup {stack[i] : i \in Bound}
ProgramRoots == {glbl[g] : g \in Globals} \cup {stack[i] : i \in Bound}

Reached      == Reach(car, cdr, ProgramRoots)
Live         == {p.cell : p \in Reach(car, cdr, GcRoots)}

(***************************************************************************)
(* The allocator.                                                          *)
(***************************************************************************)
Collecting == free >= Limit

(* Mutant: the sweep counts garbage but leaves it in place.                *)
NothingSwept(word, live) == word

(* The words of one of the two columns after a collection that found live. *)
Swept(word, live) == IF Collecting THEN Kept(word, live) ELSE word

(* Mutant: the sweep overwrites __free__ at every cell it clears.          *)
FreeIsLastCleared(f, live) ==
  IF Collecting THEN f \in Cells \ live /\ \A c \in Cells \ live : c <= f ELSE f = free

FreeAfter(f, live) == IF Collecting THEN FirstCleared(f, live) ELSE f = free

(* Mutant: gcalloc trusts the free pointer and does not look at the cell.  *)
NoScan(first, f, c) == c = f

(* The cell at which the scan for an empty first word that starts at f     *)
(* stops: Limit + 1 when there is none up to Limit.                        *)
Mnscfr(first, f, c) ==
  /\ c \in f .. (Limit + 1)
  /\ \A k \in f .. (c - 1) : first[k] # Zero
  /\ c <= Limit => first[c] = Zero

ErrMemFull == status' = "full"

(* gcalloc and the stores of the code that called it: either no cell is    *)
(* empty up to the limit, or cell c gets `first' and, unless the caller    *)
(* leaves it alone, `second', and its tagged pointer goes to slot d.       *)
Exhausted(c, cars, cdrs) ==
  /\ c > Limit
  /\ ErrMemFull
  /\ car' = cars /\ cdr' = cdrs
  /\ free' = c
  /\ UNCHANGED <<stack, frame, glbl, shape, tame>>

Built(c, cars, cdrs, d, tag, first, second) ==
  /\ c <= Limit
  /\ car' = [cars EXCEPT ![c] = first]
  /\ cdr' = IF tag \in BoxLikeTags THEN cdrs ELSE [cdrs EXCEPT ![c] = second]
  /\ free' = c + 1
  /\ stack' = [stack EXCEPT ![d] = Pointer(tag, c)]
  /\ shape' = [shape EXCEPT ![c] = tag]
  /\ tame' = (tame /\ first # Zero)
  /\ UNCHANGED <<frame, glbl, status>>

Gcalloc(d, tag, first, second) ==
  LET live == Live
      cars == Swept(car, live)
      cdrs == Swept(cdr, live)
  IN  \E f \in Cells, c \in 0 .. (Limit + 1) :
        /\ FreeAfter(f, live)
        /\ Mnscfr(cars, f, c)
        /\ Exhausted(c, cars, cdrs) \/ Built(c, cars, cdrs, d, tag, first, second)

-----------------------------------------------------------------------------
(***************************************************************************)
(* The program.  A value of the language is any word but a chain, a chunk  *)
(* or an instruction; those three only pass through the temporaries of the *)
(* code that builds strings, symbols and closures.                         *)
(***************************************************************************)
IsValue(w) == w.tag \notin {"chain", "bytes", "code"}

IsChunks(w)      == w = Empty \/ (w.tag = "chain" /\ car[w.cell] = Bytes)
IsEnvironment(w) == w = Empty \/ (w.tag = "chain" /\ car[w.cell] # Bytes)

Put(d, w) ==
  /\ stack' = [stack EXCEPT ![d] = w]
  /\ UNCHANGED <<heap, frame, glbl, status, tame>>

(* A failed type assertion.                                                *)
TypeError ==
  /\ status' = "mistyped"
  /\ UNCHANGED <<heap, stack, frame, glbl, tame>>

Bind ==
  /\ frame < MaxFrame
  /\ frame' = frame + 1
  /\ stack' = [stack EXCEPT ![frame + 1] = Zero]
  /\ UNCHANGED <<heap, glbl, status, tame>>

(* Mutant: more slots are popped than were bound.                          *)
PopUnbound(n) ==
  /\ frame' = frame - n
  /\ UNCHANGED <<heap, stack, glbl, status, tame>>

PopScope(n) ==
  /\ n \in 1 .. frame
  /\ frame' = frame - n
  /\ UNCHANGED <<heap, stack, glbl, status, tame>>

Constant(d) == \E tag \in Literals : Put(d, Flat(tag))

Variable(d, s) == IsValue(stack[s]) /\ Put(d, stack[s])

Box(d, s) ==
  /\ "box" \in Uses
  /\ IsValue(stack[s])
  /\ Gcalloc(d, "box", stack[s], Zero)

Unbox(d, s) ==
  /\ "box" \in Uses
  /\ IsValue(stack[s])
  /\ \/ stack[s].tag = "box" /\ Put(d, car[stack[s].cell])
     \/ stack[s].tag # "box" /\ TypeError

Cons(d, s, t) ==
  /\ "cons" \in Uses
  /\ IsValue(stack[s]) /\ IsValue(stack[t])
  /\ Gcalloc(d, "list", stack[s], stack[t])

CarCdr(d, s) ==
  /\ "cons" \in Uses
  /\ IsValue(stack[s])
  /\ \/ stack[s].tag = "list" /\ Put(d, car[stack[s].cell])
     \/ stack[s].tag = "list" /\ Put(d, cdr[stack[s].cell])
     \/ stack[s].tag # "list" /\ TypeError

(* A symbol quoted again is itself; any other value is wrapped in a cell.  *)
Quote(d, s) ==
  /\ "quote" \in Uses
  /\ IsValue(stack[s])
  /\ \/ stack[s].tag \in {"symbol", "name"} /\ Put(d, stack[s])
     \/ stack[s].tag \notin {"symbol", "name"} /\ Gcalloc(d, "symbol", stack[s], Zero)

Unquote(d, s) ==
  /\ "quote" \in Uses
  /\ IsValue(stack[s])
  /\ \/ stack[s].tag = "name" /\ Put(d, stack[s])
     \/ stack[s].tag = "symbol" /\ Put(d, car[stack[s].cell])
     \/ stack[s].tag \notin {"symbol", "name"} /\ TypeError

(* One iteration of the loop that builds the chunk list of a string or of  *)
(* a primitive symbol: the list built so far is in slot d.                 *)
Chunk(d) ==
  /\ Uses \cap {"string", "name"} # {}
  /\ IsChunks(stack[d])
  /\ Gcalloc(d, "chain", Bytes, stack[d])

String(d) ==
  /\ "string" \in Uses
  /\ IsChunks(stack[d])
  /\ Gcalloc(d, "string", stack[d], Zero)

Name(d) ==
  /\ "name" \in Uses
  /\ IsChunks(stack[d]) /\ stack[d] # Empty
  /\ Gcalloc(d, "name", stack[d], Zero)

(* Mutant: the loop stops at the first chunk.                              *)
FirstChunk(w) == {p \in ChainOf(cdr, w) : p = w}

(* Where the loop of symbol_append stops in the list of chunks w.          *)
LastChunk(w) == {p \in ChainOf(cdr, w) : cdr[p.cell] = Empty}

(* symbol_append: the chunks of t are linked behind the last chunk of s,   *)
(* in place; the loop has no end on a list without a last chunk.           *)
SymbolAppend(d, s, t) ==
  /\ "append" \in Uses
  /\ IsValue(stack[s]) /\ IsValue(stack[t])
  /\ \/ "name" \notin {stack[s].tag} \cap {stack[t].tag} /\ TypeError
     \/ /\ stack[s].tag = "name" /\ stack[t].tag = "name"
        /\ LastChunk(car[stack[s].cell]) = {}
        /\ status' = "hung"
        /\ UNCHANGED <<heap, stack, frame, glbl, tame>>
     \/ /\ stack[s].tag = "name" /\ stack[t].tag = "name"
        /\ \E p \in LastChunk(car[stack[s].cell]) :
             cdr' = [cdr EXCEPT ![p.cell] = car[stack[t].cell]]
        /\ stack' = [stack EXCEPT ![d] = stack[s]]
        /\ UNCHANGED <<car, free, shape, frame, glbl, status, tame>>

(* One iteration of the loop that lists the free variables of a lambda.    *)
Capture(d, s) ==
  /\ "lambda" \in Uses
  /\ IsEnvironment(stack[d]) /\ IsValue(stack[s])
  /\ Gcalloc(d, "chain", stack[s], stack[d])

(* The closure itself; a definition used as a value has no environment.    *)
Lambda(d) ==
  /\ "lambda" \in Uses
  /\ IsEnvironment(stack[d])
  /\ Gcalloc(d, "proc", Code, stack[d])

(* A call copies the words of the environment to the callee's slots: what  *)
(* the body then finds in one of them.                                     *)
Captured(d, s) ==
  /\ "lambda" \in Uses
  /\ stack[s].tag = "proc"
  /\ \E p \in ChainOf(cdr, cdr[stack[s].cell]) : Put(d, car[p.cell])

SetGlobal(g, s) ==
  /\ "global" \in Uses
  /\ IsValue(stack[s])
  /\ glbl' = [glbl EXCEPT ![g] = stack[s]]
  /\ tame' = (tame /\ (g \in Scanned \/ ~IsPointer(stack[s])))
  /\ UNCHANGED <<heap, stack, frame, status>>

GetGlobal(d, g) == "global" \in Uses /\ Put(d, glbl[g])

-----------------------------------------------------------------------------
Init ==
  /\ car = [c \in Cells |-> Zero] /\ cdr = [c \in Cells |-> Zero]
  /\ free = 0
  /\ stack = [i \in Slots |-> Zero]
  /\ frame = 0
  /\ glbl = [g \in Globals |-> Zero]
  /\ status = "run"
  /\ shape = [c \in Cells |-> "none"]
  /\ tame = TRUE

Next ==
  /\ status = "run"
  /\ \/ Bind
     \/ \E n \in Slots : PopScope(n)
     \/ \E d \in Bound : Constant(d) \/ Chunk(d) \/ String(d) \/ Name(d) \/ Lambda(d)
     \/ \E d, s \in Bound :
          \/ Variable(d, s) \/ Box(d, s) \/ Unbox(d, s) \/ CarCdr(d, s)
          \/ Quote(d, s) \/ Unquote(d, s) \/ Capture(d, s) \/ Captured(d, s)
     \/ \E d, s, t \in Bound : Cons(d, s, t) \/ SymbolAppend(d, s, t)
     \/ \E g \in Globals, s \in Bound : SetGlobal(g, s) \/ GetGlobal(s, g)

Spec == Init /\ [][Next]_vars

-----------------------------------------------------------------------------
(***************************************************************************)
(* Properties.                                                             *)
(***************************************************************************)

(* Every word the program holds is a word, the free pointer stays within   *)
(* one cell past the limit, and the frame within its bound.                *)
TypeOK ==
  /\ car \in [Cells -> Words] /\ cdr \in [Cells -> Words]
  /\ free \in 0 .. (Limit + 1)
  /\ stack \in [Slots -> Words]
  /\ frame \in 0 .. MaxFrame
  /\ glbl \in [Globals -> Words]
  /\ status \in {"run", "full", "mistyped", "hung"}
  /\ shape \in [Cells -> PointerTags \cup {"none"}]
  /\ tame \in BOOLEAN

(* Memory safety of the collector and the allocator: whatever the program  *)
(* can reach still is the cell that was built under the pointer's tag: no  *)
(* sweep cleared it and no gcalloc handed it out again.                    *)
NoDangling == tame => \A p \in Reached : shape[p.cell] = p.tag

(* Between collections gcalloc leaves no empty cell behind the free        *)
(* pointer, but for cell 0, which the sweep cannot name.                   *)
NoCellLost == tame => \A c \in 1 .. (free - 1) : car[c] # Zero

(* Why NoDangling holds: no reachable cell looks empty to mnscfr, every    *)
(* pointer the program holds is one the collector scans, and the lists     *)
(* symbol_append writes to hold nothing but chunks.                        *)
LooksUsed == tame => \A p \in Reached : car[p.cell] # Zero

AllScanned == tame => \A g \in Globals : IsPointer(glbl[g]) => g \in Scanned

ChunksStayChunks ==
  tame => \A p \in Reached :
    /\ p.tag \in {"string", "name"} => IsChunks(car[p.cell])
    /\ p.tag = "name" => car[p.cell] # Empty
    /\ (p.tag = "chain" /\ car[p.cell] = Bytes) => IsChunks(cdr[p.cell])

SafeInv ==
  /\ TypeOK /\ NoDangling /\ LooksUsed /\ AllScanned /\ ChunksStayChunks /\ NoCellLost

(* A step never changes a word the program can reach, except that          *)
(* symbol_append links a list of chunks behind a last chunk.               *)
Untouched ==
  [][tame' => \A p \in Reached :
       /\ car'[p.cell] = car[p.cell]
       /\ \/ p.tag \in BoxLikeTags
          \/ cdr'[p.cell] = cdr[p.cell]
          \/ car[p.cell] = Bytes /\ cdr[p.cell] = Empty /\ cdr'[p.cell].tag = "chain"]_vars

(* When an allocation that did collect gives up, every cell it could have  *)
(* returned is in use, cell 0 apart.                                       *)
FullAfterGc ==
  [][(Collecting /\ ErrMemFull) => 1 .. Limit \subseteq Live]_vars

(* A collection keeps what the program can reach and no more: a cell that  *)
(* holds anything afterwards was live or is the one just allocated.        *)
ExactSweep ==
  [][(Collecting /\ car' # car) =>
       \A c \in Cells : (car'[c] # Zero \/ cdr'[c] # Zero) => c \in Live \/ c = free' - 1]_vars

(* README.md:261: unbox "returns the boxed data stored inside the          *)
(* argument", car the left element: reading a cell again, one step later,  *)
(* gives the same word.                                                    *)
ReadsRepeat == [][\A p \in Reached : car'[p.cell] = car[p.cell]]_vars

(* README.md:82: "Whenever a collection is incurred, the global roots are  *)
(* traversed first and marked".                                            *)
GlobalsMarked ==
  [][(Collecting /\ car' # car) =>
       \A g \in Globals : IsPointer(glbl[g]) => glbl[g].cell \in Live]_vars

(* README.md:78: the error is raised "when the heap is exhausted of        *)
(* available memory": not while garbage is left to collect.                *)
GivesUpOnlyWhenFull == [][ErrMemFull => 1 .. Limit \subseteq Live]_vars

=============================================================================
