--------------------------- MODULE PopHeap_proofs ---------------------------
(***************************************************************************)
(* Proofs about PopHeap, for every heap size, number of globals and frame: *)
(* its types; SafeInv is inductive, and what the steps may do to a cell    *)
(* follows from it.                                                        *)
(***************************************************************************)
EXTENDS PopHeap, PopWords_proofs

-----------------------------------------------------------------------------
(* Type correctness.                                                       *)

(* A gcalloc that is given words keeps every variable in its type.         *)
LEMMA GcallocType ==
  ASSUME TypeOK, NEW d \in Bound, NEW tag \in PointerTags,
         NEW first \in Words, NEW second \in Words, Gcalloc(d, tag, first, second)
  PROVE  TypeOK'
<1> DEFINE live == Live
           cars == Swept(car, live)
           cdrs == Swept(cdr, live)
<1>1. cars \in [Cells -> Words] /\ cdrs \in [Cells -> Words]
  BY MadeWords DEF TypeOK, Kept, Swept
<1>2. PICK f \in Cells, c \in 0 .. (Limit + 1) :
        Exhausted(c, cars, cdrs) \/ Built(c, cars, cdrs, d, tag, first, second)
  BY DEF Gcalloc
<1>3. CASE Exhausted(c, cars, cdrs)
  BY <1>1, <1>3 DEF TypeOK, Exhausted, ErrMemFull, Globals, Slots
<1>4. CASE Built(c, cars, cdrs, d, tag, first, second)
  <2>1. c \in Cells
    BY <1>4, HeapAssumption DEF Cells, Built
  <2>2. Pointer(tag, c) \in Words
    BY <2>1, MadeWords
  <2>3. car' \in [Cells -> Words] /\ cdr' \in [Cells -> Words]
    BY <1>1, <1>4 DEF Built
  <2>4. stack' \in [Slots -> Words] /\ shape' \in [Cells -> PointerTags \cup {"none"}]
    BY <1>4, <2>2 DEF TypeOK, Built
  <2>5. free' \in 0 .. (Limit + 1) /\ tame' \in BOOLEAN
    BY <1>4, HeapAssumption DEF TypeOK, Built
  <2> QED
    BY <1>4, <2>3, <2>4, <2>5 DEF TypeOK, Globals, Slots, Built
<1> QED
  BY <1>2, <1>3, <1>4

(* Putting a word in a slot keeps every variable in its type.              *)
LEMMA PutType ==
  ASSUME TypeOK, NEW d \in Bound, NEW w \in Words, Put(d, w)
  PROVE  TypeOK'
  BY DEF TypeOK, Put, heap, Slots, Globals

(* So does a failed type assertion.                                        *)
LEMMA TypeErrorType ==
  ASSUME TypeOK, TypeError
  PROVE  TypeOK'
  BY DEF TypeOK, TypeError, heap, Slots, Globals

(* The slots bound at some moment are slots, and hold words.               *)
LEMMA BoundSlotWords ==
  ASSUME TypeOK, NEW s \in Bound
  PROVE  s \in Slots /\ stack[s] \in Words
  BY ProgramAssumption DEF TypeOK, Bound, Slots

(* The cell behind a tagged word holds words.                              *)
LEMMA CellWords ==
  ASSUME TypeOK, NEW w \in Words, IsPointer(w)
  PROVE  w.cell \in Cells /\ car[w.cell] \in Words /\ cdr[w.cell] \in Words
  BY PointerWord DEF TypeOK

(* The links of a list are chain pointers.                                 *)
LEMMA ChainWords ==
  ASSUME TypeOK, NEW w \in Words, NEW p \in ChainOf(cdr, w)
  PROVE  p \in Words /\ p.tag = "chain" /\ IsPointer(p) /\ p.cell \in Cells
<1>1. p \in {w} \cup {cdr[c] : c \in Cells} /\ p.tag = "chain"
  BY DEF ChainOf
<1>2. p \in Words /\ IsPointer(p)
  BY <1>1 DEF TypeOK, IsPointer, PointerTags, ListTags
<1> QED
  BY <1>1, <1>2, PointerWord

(* Every step of the program stays within the types.                       *)
LEMMA TypeStep == TypeOK /\ [Next]_vars => TypeOK'
<1> SUFFICES ASSUME TypeOK, [Next]_vars PROVE TypeOK'
  OBVIOUS
<1> USE DEF IsPointer, PointerTags, BoxLikeTags, ListTags
<1>1. CASE Bind
  BY <1>1, MadeWords, ProgramAssumption DEF Bind, TypeOK, heap, Slots, Globals
<1>2. ASSUME NEW n \in Slots, PopScope(n) PROVE TypeOK'
  BY <1>2, ProgramAssumption DEF PopScope, TypeOK, heap, Slots, Globals
<1>3. ASSUME NEW d \in Bound, Constant(d) PROVE TypeOK'
  <2>1. PICK tag \in Literals : Put(d, Flat(tag))
    BY <1>3 DEF Constant
  <2>2. Flat(tag) \in Words
    BY MadeWords, ProgramAssumption DEF FlatTags
  <2> QED
    BY <2>1, <2>2, PutType
<1>4. ASSUME NEW d \in Bound, Chunk(d) \/ String(d) \/ Name(d) \/ Lambda(d) PROVE TypeOK'
  BY <1>4, GcallocType, MadeWords, BoundSlotWords DEF Chunk, String, Name, Lambda
<1>5. ASSUME NEW d \in Bound, NEW s \in Bound, Variable(d, s) PROVE TypeOK'
  BY <1>5, PutType, BoundSlotWords DEF Variable
<1>6. ASSUME NEW d \in Bound, NEW s \in Bound, Box(d, s) PROVE TypeOK'
  BY <1>6, GcallocType, MadeWords, BoundSlotWords DEF Box
<1>7. ASSUME NEW d \in Bound, NEW s \in Bound, Unbox(d, s) PROVE TypeOK'
  BY <1>7, PutType, TypeErrorType, BoundSlotWords, CellWords DEF Unbox
<1>8. ASSUME NEW d \in Bound, NEW s \in Bound, CarCdr(d, s) PROVE TypeOK'
  BY <1>8, PutType, TypeErrorType, BoundSlotWords, CellWords DEF CarCdr
<1>9. ASSUME NEW d \in Bound, NEW s \in Bound, Quote(d, s) PROVE TypeOK'
  BY <1>9, PutType, GcallocType, MadeWords, BoundSlotWords DEF Quote
<1>10. ASSUME NEW d \in Bound, NEW s \in Bound, Unquote(d, s) PROVE TypeOK'
  BY <1>10, PutType, TypeErrorType, BoundSlotWords, CellWords DEF Unquote
<1>11. ASSUME NEW d \in Bound, NEW s \in Bound, Capture(d, s) PROVE TypeOK'
  BY <1>11, GcallocType, BoundSlotWords DEF Capture
<1>12. ASSUME NEW d \in Bound, NEW s \in Bound, Captured(d, s) PROVE TypeOK'
  <2>1. cdr[stack[s].cell] \in Words
    BY <1>12, BoundSlotWords, CellWords DEF Captured
  <2>2. PICK p \in ChainOf(cdr, cdr[stack[s].cell]) : Put(d, car[p.cell])
    BY <1>12 DEF Captured
  <2>3. car[p.cell] \in Words
    BY <2>1, ChainWords DEF TypeOK
  <2> QED
    BY <2>2, <2>3, PutType
<1>13. ASSUME NEW d \in Bound, NEW s \in Bound, NEW t \in Bound, Cons(d, s, t) PROVE TypeOK'
  BY <1>13, GcallocType, BoundSlotWords DEF Cons
<1>14. ASSUME NEW d \in Bound, NEW s \in Bound, NEW t \in Bound, SymbolAppend(d, s, t)
       PROVE TypeOK'
  <2>1. stack[s] \in Words /\ stack[t] \in Words
    BY BoundSlotWords
  <2>2. CASE TypeError
    BY <2>2, TypeErrorType
  <2>3. CASE status' = "hung" /\ UNCHANGED <<heap, stack, frame, glbl, tame>>
    BY <2>3 DEF TypeOK, heap, Slots, Globals
  <2>4. ASSUME stack[t].tag = "name",
               NEW p, cdr' = [cdr EXCEPT ![p.cell] = car[stack[t].cell]],
               stack' = [stack EXCEPT ![d] = stack[s]],
               UNCHANGED <<car, free, shape, frame, glbl, status, tame>>
        PROVE  TypeOK'
    <3>1. car[stack[t].cell] \in Words
      BY <2>1, <2>4, CellWords
    <3> QED
      BY <2>1, <2>4, <3>1 DEF TypeOK, Slots, Globals
  <2> QED
    BY <1>14, <2>2, <2>3, <2>4 DEF SymbolAppend, LastChunk
<1>15. ASSUME NEW g \in Globals, NEW s \in Bound, SetGlobal(g, s) PROVE TypeOK'
  BY <1>15, BoundSlotWords DEF SetGlobal, TypeOK, heap, Slots, Globals
<1>16. ASSUME NEW g \in Globals, NEW s \in Bound, GetGlobal(s, g) PROVE TypeOK'
  <2>1. glbl[g] \in Words
    BY DEF TypeOK
  <2> QED
    BY <1>16, <2>1, PutType DEF GetGlobal
<1>17. CASE UNCHANGED vars
  BY <1>17 DEF vars, TypeOK, Slots, Globals
<1> QED
  BY <1>1, <1>2, <1>3, <1>4, <1>5, <1>6, <1>7, <1>8, <1>9, <1>10, <1>11, <1>12, <1>13,
     <1>14, <1>15, <1>16, <1>17 DEF Next

(* Every reachable state of every program is well typed.                   *)
THEOREM TypeCorrect == Spec => []TypeOK
<1>1. Init => TypeOK
  BY MadeWords, HeapAssumption, ProgramAssumption DEF Init, TypeOK
<1> QED
  BY <1>1, TypeStep, PTL DEF Spec

-----------------------------------------------------------------------------
(* What is reached.                                                        *)

(* The roots are words.                                                    *)
LEMMA RootWords ==
  ASSUME TypeOK
  PROVE  /\ ProgramRoots \in SUBSET Words /\ GcRoots \in SUBSET Words
         /\ GcRoots \subseteq ProgramRoots
<1>1. \A i \in Bound : stack[i] \in Words
  BY BoundSlotWords
<1>2. \A g \in Globals : glbl[g] \in Words
  BY DEF TypeOK
<1> QED
  BY <1>1, <1>2 DEF ProgramRoots, GcRoots, Scanned

(* A reached pointer is well formed.                                       *)
LEMMA ReachedWord ==
  ASSUME TypeOK, NEW p \in Reached
  PROVE  p \in Words /\ IsPointer(p) /\ p.cell \in Cells
  BY ReachPresent, RootWords DEF Reached, TypeOK

(* What a reached pointer leads to is reached.                             *)
LEMMA ReachedClosed ==
  ASSUME TypeOK, NEW p \in Reached, NEW w \in Follow(car, cdr, p), IsPointer(w)
  PROVE  w \in Reached
  BY ReachClosed, RootWords DEF Reached, TypeOK

(* A pointer in a bound slot or in a global is reached.                    *)
LEMMA HeldReached ==
  /\ \A i \in Bound : IsPointer(stack[i]) => stack[i] \in Reached
  /\ \A g \in Globals : IsPointer(glbl[g]) => glbl[g] \in Reached
  BY ReachRoots DEF Reached, ProgramRoots

(* The words of the cell of a reached pointer, as far as its tag leads.    *)
LEMMA CellReached ==
  ASSUME TypeOK, NEW p \in Reached
  PROVE  /\ (p.tag # "proc" /\ IsPointer(car[p.cell])) => car[p.cell] \in Reached
         /\ (p.tag \notin BoxLikeTags /\ IsPointer(cdr[p.cell])) => cdr[p.cell] \in Reached
<1>1. p.tag \in PointerTags
  BY ReachedWord DEF IsPointer
<1> QED
  BY <1>1, ReachedClosed DEF Follow, PointerTags, BoxLikeTags, ListTags

(* While the program is tame the collector marks what the program reaches. *)
LEMMA MarkedIsReached ==
  ASSUME TypeOK
  PROVE  /\ Reach(car, cdr, GcRoots) \subseteq Reached
         /\ (AllScanned /\ tame) => Reached \subseteq Reach(car, cdr, GcRoots)
<1>1. car \in [Cells -> Words] /\ cdr \in [Cells -> Words]
  BY DEF TypeOK
<1>2. Reach(car, cdr, GcRoots) \subseteq Reached
  <2>1. \A w \in GcRoots : IsPointer(w) => w \in Reached
    BY RootWords, ReachRoots DEF Reached
  <2>2. \A p \in Reached : \A w \in Follow(car, cdr, p) : IsPointer(w) => w \in Reached
    BY ReachedClosed
  <2> QED
    BY <1>1, <2>1, <2>2, RootWords, ReachLeast
<1>3. ASSUME AllScanned, tame PROVE Reached \subseteq Reach(car, cdr, GcRoots)
  <2> DEFINE S == Reach(car, cdr, GcRoots)
  <2>1. \A w \in ProgramRoots : IsPointer(w) => w \in GcRoots
    BY <1>3 DEF AllScanned, ProgramRoots, GcRoots
  <2>2. \A w \in ProgramRoots : IsPointer(w) => w \in S
    BY <2>1, ReachRoots
  <2>3. \A p \in S : \A w \in Follow(car, cdr, p) : IsPointer(w) => w \in S
    BY <1>1, RootWords, ReachClosed
  <2> HIDE DEF S
  <2>4. Reach(car, cdr, ProgramRoots) \subseteq S
    BY <1>1, <2>2, <2>3, RootWords, ReachLeast
  <2> QED
    BY <2>4 DEF S, Reached
<1> QED
  BY <1>2, <1>3

(* The links of a list that is reached are reached; those of a list of     *)
(* chunks are cells with a chunk.                                          *)
LEMMA ChainReached ==
  ASSUME TypeOK, NEW w \in Words, IsPointer(w) => w \in Reached, NEW p \in ChainOf(cdr, w)
  PROVE  /\ p \in Reached
         /\ (tame /\ ChunksStayChunks /\ IsChunks(w)) => car[p.cell] = Bytes
<1> DEFINE links == {q \in {w} \cup {cdr[c] : c \in Cells} : q.tag = "chain"}
           S == links \cap Reached
           T == {q \in S : car[q.cell] = Bytes}
<1>1. \A q \in links : IsPointer(q)
  BY DEF IsPointer, PointerTags, ListTags
<1>2. \A q \in S : {cdr[q.cell]} \cap links \subseteq S
  BY <1>1, CellReached DEF BoxLikeTags
<1>3. p \in S
  <2>1. S \in SUBSET links /\ {w} \cap links \subseteq S
    BY <1>1
  <2> QED
    BY <1>2, <2>1 DEF ChainOf
<1>4. ASSUME tame, ChunksStayChunks, IsChunks(w) PROVE p \in T
  <2>1. T \in SUBSET links
    OBVIOUS
  <2>2. {w} \cap links \subseteq T
    BY <1>1, <1>4 DEF IsChunks, Empty, Flat
  <2>3. \A q \in T : {cdr[q.cell]} \cap links \subseteq T
    <3> TAKE q \in T
    <3>1. IsChunks(cdr[q.cell])
      BY <1>4 DEF ChunksStayChunks
    <3>2. cdr[q.cell] \in links => cdr[q.cell] \in S /\ car[cdr[q.cell].cell] = Bytes
      BY <1>2, <3>1 DEF IsChunks, Empty, Flat
    <3> QED
      BY <3>2
  <2> QED
    BY <2>1, <2>2, <2>3 DEF ChainOf
<1> QED
  BY <1>3, <1>4

-----------------------------------------------------------------------------
(* The steps that leave the cells alone.                                   *)

(* What a step keeps of the cells the program reaches.                     *)
Unspoiled ==
  \A p \in Reached :
    /\ car'[p.cell] = car[p.cell]
    /\ \/ p.tag \in BoxLikeTags
       \/ cdr'[p.cell] = cdr[p.cell]
       \/ car[p.cell] = Bytes /\ cdr[p.cell] = Empty /\ cdr'[p.cell].tag = "chain"

(* A step that leaves the cells alone and whose roots were reached before  *)
(* it keeps the invariant.                                                 *)
LEMMA RootStep ==
  ASSUME SafeInv, TypeOK', UNCHANGED heap, tame' => tame, tame' => AllScanned',
         \A w \in ProgramRoots' : IsPointer(w) => w \in Reached
  PROVE  SafeInv' /\ Unspoiled
<1>1. TypeOK
  BY DEF SafeInv
<1>2. Unspoiled
  BY DEF Unspoiled, heap
<1>3. Reached' \subseteq Reached
  <2> DEFINE S == Reached
  <2>1. \A p \in S : \A w \in Follow(car, cdr, p) : IsPointer(w) => w \in S
    BY <1>1, ReachedClosed
  <2>2. ProgramRoots' \in SUBSET Words /\ car \in [Cells -> Words] /\ cdr \in [Cells -> Words]
    <3>1. \A i \in Bound' : stack'[i] \in Words
      BY ProgramAssumption DEF TypeOK, Bound, Slots
    <3> QED
      BY <1>1, <3>1 DEF TypeOK, ProgramRoots
  <2> HIDE DEF S
  <2>3. \A w \in ProgramRoots' : IsPointer(w) => w \in S
    BY DEF S
  <2>4. Reach(car, cdr, ProgramRoots') \subseteq S
    BY <2>1, <2>2, <2>3, ReachLeast
  <2> QED
    BY <2>4 DEF S, Reached, heap
<1>4. CASE ~ tame'
  BY <1>2, <1>4 DEF SafeInv, NoDangling, LooksUsed, AllScanned, ChunksStayChunks, NoCellLost
<1>5. CASE tame'
  <2>1. NoDangling' /\ LooksUsed'
    BY <1>3, <1>5 DEF SafeInv, NoDangling, LooksUsed, heap
  <2>2. NoCellLost'
    BY <1>5 DEF SafeInv, NoCellLost, heap
  <2>3. ChunksStayChunks'
    BY <1>3, <1>5 DEF SafeInv, ChunksStayChunks, IsChunks, heap
  <2> QED
    BY <1>2, <1>5, <2>1, <2>2, <2>3 DEF SafeInv
<1> QED
  BY <1>4, <1>5

(* Putting a reached word, or a word that is no pointer, in a slot.        *)
LEMMA PutStep ==
  ASSUME SafeInv, NEW d \in Bound, NEW w \in Words, IsPointer(w) => w \in Reached, Put(d, w)
  PROVE  SafeInv' /\ Unspoiled
<1>1. TypeOK /\ TypeOK'
  BY PutType DEF SafeInv
<1>2. \A v \in ProgramRoots' : v \in ProgramRoots \/ v = w
  BY <1>1 DEF Put, ProgramRoots, Bound, TypeOK
<1>3. \A v \in ProgramRoots' : IsPointer(v) => v \in Reached
  BY <1>2, ReachRoots DEF Reached
<1>4. tame' = tame /\ AllScanned' = AllScanned /\ UNCHANGED heap
  BY DEF Put, AllScanned
<1> QED
  BY <1>1, <1>3, <1>4, RootStep DEF SafeInv

(* A failed type assertion.                                                *)
LEMMA TypeErrorStep ==
  ASSUME SafeInv, TypeError
  PROVE  SafeInv' /\ Unspoiled
<1>1. TypeOK /\ TypeOK'
  BY TypeErrorType DEF SafeInv
<1>2. ProgramRoots' = ProgramRoots /\ tame' = tame /\ AllScanned' = AllScanned /\ UNCHANGED heap
  BY DEF TypeError, ProgramRoots, Bound, AllScanned
<1>3. \A v \in ProgramRoots' : IsPointer(v) => v \in Reached
  BY <1>2, ReachRoots DEF Reached
<1> QED
  BY <1>1, <1>2, <1>3, RootStep DEF SafeInv

-----------------------------------------------------------------------------
(* Allocation.                                                             *)

(* A collection that is due clears no cell the program reaches, and the    *)
(* cells 1 .. f - 1 behind the scan hold something.                        *)
LEMMA SweepKeeps ==
  ASSUME SafeInv, tame, NEW f \in Cells, FreeAfter(f, Live)
  PROVE  /\ \A p \in Reached : /\ Swept(car, Live)[p.cell] = car[p.cell]
                               /\ Swept(cdr, Live)[p.cell] = cdr[p.cell]
         /\ \A k \in 1 .. (f - 1) : Swept(car, Live)[k] # Zero
<1>1. TypeOK /\ AllScanned
  BY DEF SafeInv
<1>2. \A p \in Reached : p.cell \in Live
  BY <1>1, MarkedIsReached DEF Live
<1>3. \A c \in Live : car[c] # Zero
  BY <1>1, MarkedIsReached DEF Live, SafeInv, LooksUsed
<1>4. \A p \in Reached : p.cell \in Cells
  BY <1>1, ReachedWord
<1>5. \A p \in Reached : /\ Swept(car, Live)[p.cell] = car[p.cell]
                         /\ Swept(cdr, Live)[p.cell] = cdr[p.cell]
  BY <1>2, <1>4 DEF Kept, Swept
<1>6. ASSUME NEW k \in 1 .. (f - 1) PROVE Swept(car, Live)[k] # Zero
  <2>1. k \in Cells /\ k # 0
    BY HeapAssumption DEF Cells
  <2>2. CASE Collecting
    <3>1. k \in Live
      BY <2>1, <2>2, HeapAssumption DEF FirstCleared, FreeAfter, Cells
    <3> QED
      BY <1>3, <2>1, <2>2, <3>1 DEF Kept, Swept
  <2>3. CASE ~ Collecting
    BY <2>3, HeapAssumption DEF FirstCleared, FreeAfter, Kept, Swept, SafeInv, NoCellLost, Cells
  <2> QED
    BY <2>2, <2>3
<1> QED
  BY <1>5, <1>6

(* What the words given to gcalloc must be for the cell built from them.   *)
Fits(tag, first, second) ==
  /\ IsPointer(first) => first \in Reached
  /\ (tag \notin BoxLikeTags /\ IsPointer(second)) => second \in Reached
  /\ tag \in {"string", "name"} => IsChunks(first)
  /\ tag = "name" => first # Empty
  /\ (tag = "chain" /\ first = Bytes) => IsChunks(second)

(* A list of chunks, after the step.                                       *)
StillChunks(w) == w = Empty \/ (w.tag = "chain" /\ car'[w.cell] = Bytes)

(* An allocation that gives up keeps the invariant.                        *)
LEMMA ExhaustedStep ==
  ASSUME SafeInv, tame, TypeOK', NEW f \in Cells, NEW c \in 0 .. (Limit + 1),
         FreeAfter(f, Live), Mnscfr(Swept(car, Live), f, c),
         Exhausted(c, Swept(car, Live), Swept(cdr, Live))
  PROVE  SafeInv' /\ Unspoiled
<1>1. TypeOK
  BY DEF SafeInv
<1>2. \A p \in Reached : car'[p.cell] = car[p.cell] /\ cdr'[p.cell] = cdr[p.cell]
  BY SweepKeeps DEF Exhausted
<1>3. Unspoiled
  BY <1>2 DEF Unspoiled
<1>4. ProgramRoots' = ProgramRoots /\ ProgramRoots \in SUBSET Words
  BY <1>1, RootWords DEF Exhausted, ProgramRoots, Bound
<1>5. Reached' \subseteq Reached
  <2> DEFINE S == Reached
  <2>1. \A p \in S : Follow(car', cdr', p) = Follow(car, cdr, p)
    BY <1>2 DEF Follow
  <2>2. \A p \in S : \A w \in Follow(car', cdr', p) : IsPointer(w) => w \in S
    BY <1>1, <2>1, ReachedClosed
  <2>3. \A w \in ProgramRoots : IsPointer(w) => w \in S
    BY ReachRoots DEF Reached
  <2>4. car' \in [Cells -> Words] /\ cdr' \in [Cells -> Words]
    BY DEF TypeOK
  <2> HIDE DEF S
  <2>5. Reach(car', cdr', ProgramRoots) \subseteq S
    BY <1>4, <2>2, <2>3, <2>4, ReachLeast
  <2> QED
    BY <1>4, <2>5 DEF S, Reached
<1>6. NoDangling' /\ LooksUsed' /\ AllScanned'
  BY <1>2, <1>5 DEF Exhausted, SafeInv, NoDangling, LooksUsed, AllScanned
<1>7. ChunksStayChunks'
  <2>1. \A w : IsChunks(w) /\ (IsPointer(w) => w \in Reached) => StillChunks(w)
    BY <1>2 DEF IsChunks, StillChunks, IsPointer, PointerTags, ListTags
  <2> SUFFICES ASSUME NEW p \in Reached
               PROVE  /\ p.tag \in {"string", "name"} => StillChunks(car'[p.cell])
                      /\ p.tag = "name" => car'[p.cell] # Empty
                      /\ (p.tag = "chain" /\ car'[p.cell] = Bytes) => StillChunks(cdr'[p.cell])
    BY <1>5 DEF ChunksStayChunks, IsChunks, StillChunks
  <2> QED
    BY <1>1, <1>2, <2>1, CellReached DEF SafeInv, ChunksStayChunks, BoxLikeTags
<1>8. NoCellLost'
  <2>1. ASSUME NEW k \in 1 .. (free' - 1) PROVE car'[k] # Zero
    <3>1. k \in f .. (c - 1) \/ k \in 1 .. (f - 1)
      BY HeapAssumption DEF Exhausted, Cells
    <3> QED
      BY <3>1, SweepKeeps DEF Mnscfr, Exhausted
  <2> QED
    BY <2>1 DEF NoCellLost
<1> QED
  BY <1>3, <1>6, <1>7, <1>8 DEF SafeInv

(* So does one that builds a cell from words that fit.                     *)
LEMMA BuiltStep ==
  ASSUME SafeInv, tame', TypeOK', NEW f \in Cells, NEW c \in 0 .. (Limit + 1),
         NEW d \in Bound, NEW tag \in PointerTags, NEW first \in Words, NEW second \in Words,
         Fits(tag, first, second),
         FreeAfter(f, Live), Mnscfr(Swept(car, Live), f, c),
         Built(c, Swept(car, Live), Swept(cdr, Live), d, tag, first, second)
  PROVE  SafeInv' /\ Unspoiled
<1> DEFINE new == Pointer(tag, c)
<1>1. TypeOK /\ tame /\ first # Zero
  BY DEF SafeInv, Built
<1>2. c \in Cells /\ c <= Limit
  BY HeapAssumption DEF Built, Cells
<1>3. new \in Words /\ IsPointer(new) /\ new.tag = tag /\ new.cell = c
  BY <1>2, MadeWords DEF Pointer
<1>4. Swept(car, Live) \in [Cells -> Words] /\ Swept(cdr, Live) \in [Cells -> Words]
  BY <1>1, MadeWords DEF TypeOK, Kept, Swept
<1>5. \A p \in Reached : p.cell \in Cells /\ p.cell # c
  <2>1. Swept(car, Live)[c] = Zero
    BY <1>2 DEF Mnscfr
  <2>2. \A p \in Reached : Swept(car, Live)[p.cell] # Zero
    BY <1>1, SweepKeeps DEF SafeInv, LooksUsed
  <2> QED
    BY <1>1, <2>1, <2>2, ReachedWord
<1>6. \A p \in Reached : car'[p.cell] = car[p.cell] /\ cdr'[p.cell] = cdr[p.cell]
  BY <1>1, <1>4, <1>5, SweepKeeps DEF Built
<1>7. car'[c] = first /\ (tag \notin BoxLikeTags => cdr'[c] = second)
  BY <1>2, <1>4 DEF Built
<1>8. Unspoiled
  BY <1>6 DEF Unspoiled
<1>9. \A w \in ProgramRoots' : w \in ProgramRoots \/ w = new
  BY <1>1 DEF Built, ProgramRoots, Bound, TypeOK
<1>10. Reached' \subseteq Reached \cup {new}
  <2> DEFINE S == Reached \cup {new}
  <2>1. ProgramRoots' \in SUBSET Words
    BY <1>1, <1>3, <1>9, RootWords
  <2>2. \A w \in ProgramRoots' : IsPointer(w) => w \in S
    BY <1>9, ReachRoots DEF Reached
  <2>3. ASSUME NEW p \in Reached, NEW w \in Follow(car', cdr', p), IsPointer(w) PROVE w \in S
    <3>1. Follow(car', cdr', p) = Follow(car, cdr, p)
      BY <1>6 DEF Follow
    <3> QED
      BY <1>1, <2>3, <3>1, ReachedClosed
  <2>4. ASSUME NEW w \in Follow(car', cdr', new), IsPointer(w) PROVE w \in S
    <3>1. tag \in BoxLikeTags => w = first
      BY <1>3, <1>7, <2>4 DEF Follow
    <3>2. tag \notin BoxLikeTags => w = first \/ w = second
      BY <1>3, <1>7, <2>4 DEF Follow
    <3> QED
      BY <2>4, <3>1, <3>2 DEF Fits
  <2>5. car' \in [Cells -> Words] /\ cdr' \in [Cells -> Words]
    BY DEF TypeOK
  <2>6. \A p \in S : \A w \in Follow(car', cdr', p) : IsPointer(w) => w \in S
    BY <2>3, <2>4
  <2> HIDE DEF S
  <2>7. Reach(car', cdr', ProgramRoots') \subseteq S
    BY <2>1, <2>2, <2>5, <2>6, ReachLeast
  <2> QED
    BY <2>7 DEF S, Reached
<1>11. NoDangling'
  <2>1. shape'[c] = tag
    BY <1>1, <1>2 DEF Built, TypeOK
  <2>2. \A p \in Reached : shape'[p.cell] = shape[p.cell]
    BY <1>1, <1>5 DEF Built, TypeOK
  <2> QED
    BY <1>1, <1>3, <1>10, <2>1, <2>2 DEF NoDangling, SafeInv
<1>12. LooksUsed' /\ AllScanned'
  <2>1. LooksUsed'
    BY <1>1, <1>3, <1>6, <1>7, <1>10 DEF LooksUsed, SafeInv
  <2>2. AllScanned'
    BY DEF AllScanned, SafeInv, Built
  <2> QED
    BY <2>1, <2>2
<1>13. ChunksStayChunks'
  <2>1. \A w : IsChunks(w) /\ (IsPointer(w) => w \in Reached) => StillChunks(w)
    BY <1>6 DEF IsChunks, StillChunks, IsPointer, PointerTags, ListTags
  <2>2. ASSUME NEW p \in Reached
        PROVE  /\ p.tag \in {"string", "name"} => StillChunks(car'[p.cell])
               /\ p.tag = "name" => car'[p.cell] # Empty
               /\ (p.tag = "chain" /\ car'[p.cell] = Bytes) => StillChunks(cdr'[p.cell])
    BY <1>1, <1>6, <2>1, CellReached DEF SafeInv, ChunksStayChunks, BoxLikeTags
  <2>3. /\ tag \in {"string", "name"} => StillChunks(first)
        /\ tag = "name" => first # Empty
        /\ (tag = "chain" /\ first = Bytes) => StillChunks(second)
    BY <2>1 DEF Fits, BoxLikeTags
  <2>4. tag = "chain" => tag \notin BoxLikeTags
    BY DEF BoxLikeTags
  <2> QED
    BY <1>3, <1>7, <1>10, <2>2, <2>3, <2>4 DEF ChunksStayChunks, IsChunks, StillChunks
<1>14. NoCellLost'
  <2>1. ASSUME NEW k \in 1 .. (free' - 1) PROVE car'[k] # Zero
    <3>1. k = c \/ k \in f .. (c - 1) \/ k \in 1 .. (f - 1)
      BY <1>2, HeapAssumption DEF Built, Cells
    <3>2. k \in Cells
      BY <1>2, HeapAssumption DEF Built, Cells
    <3>3. k # c => Swept(car, Live)[k] # Zero
      BY <1>1, <3>1, SweepKeeps DEF Mnscfr
    <3> QED
      BY <1>1, <1>4, <1>7, <3>2, <3>3 DEF Built
  <2> QED
    BY <2>1 DEF NoCellLost
<1> QED
  BY <1>8, <1>11, <1>12, <1>13, <1>14 DEF SafeInv

(* A whole gcalloc.                                                        *)
LEMMA GcallocStep ==
  ASSUME SafeInv, NEW d \in Bound, NEW tag \in PointerTags,
         NEW first \in Words, NEW second \in Words,
         tame => Fits(tag, first, second), Gcalloc(d, tag, first, second)
  PROVE  SafeInv' /\ (tame' => Unspoiled)
<1>1. TypeOK'
  BY GcallocType DEF SafeInv
<1>2. PICK f \in Cells, c \in 0 .. (Limit + 1) :
        /\ FreeAfter(f, Live)
        /\ Mnscfr(Swept(car, Live), f, c)
        /\ \/ Exhausted(c, Swept(car, Live), Swept(cdr, Live))
           \/ Built(c, Swept(car, Live), Swept(cdr, Live), d, tag, first, second)
  BY DEF Gcalloc
<1>3. tame' => tame
  BY <1>2 DEF Exhausted, Built
<1>4. CASE ~ tame'
  BY <1>1, <1>4 DEF SafeInv, NoDangling, LooksUsed, AllScanned, ChunksStayChunks, NoCellLost
<1>5. CASE tame'
  BY <1>1, <1>2, <1>3, <1>5, ExhaustedStep, BuiltStep
<1> QED
  BY <1>4, <1>5

-----------------------------------------------------------------------------
(* symbol_append: the chunks it links are reached, and so is the cell it   *)
(* writes to, which ends a list of chunks.                                 *)
LEMMA AppendStep ==
  ASSUME SafeInv, TypeOK', NEW d \in Bound, NEW s \in Bound, NEW t \in Bound,
         SymbolAppend(d, s, t)
  PROVE  SafeInv' /\ (tame' => Unspoiled)
<1> DEFINE b == car[stack[t].cell]
<1>1. TypeOK
  BY DEF SafeInv
<1>2. CASE UNCHANGED <<heap, stack, frame, glbl, tame>>
  <2>1. ProgramRoots' = ProgramRoots /\ AllScanned' = AllScanned /\ UNCHANGED heap
    BY <1>2 DEF ProgramRoots, Bound, AllScanned
  <2>2. \A v \in ProgramRoots' : IsPointer(v) => v \in Reached
    BY <2>1, ReachRoots DEF Reached
  <2> QED
    BY <1>2, <2>1, <2>2, RootStep DEF SafeInv
<1>3. ASSUME stack[s].tag = "name", stack[t].tag = "name",
             NEW p \in ChainOf(cdr, car[stack[s].cell]), cdr[p.cell] = Empty,
             cdr' = [cdr EXCEPT ![p.cell] = b], stack' = [stack EXCEPT ![d] = stack[s]],
             UNCHANGED <<car, free, shape, frame, glbl, status, tame>>, tame
      PROVE  SafeInv' /\ Unspoiled
  <2>1. /\ stack[s] \in Reached /\ stack[t] \in Reached
        /\ stack[s].tag = "name" /\ stack[t].tag = "name"
    BY <1>3, HeldReached DEF IsPointer, PointerTags, BoxLikeTags
  <2>2. /\ IsChunks(car[stack[s].cell]) /\ car[stack[s].cell] \in Words
        /\ IsPointer(car[stack[s].cell]) => car[stack[s].cell] \in Reached
    BY <1>1, <1>3, <2>1, CellReached, ReachedWord DEF SafeInv, ChunksStayChunks, TypeOK
  <2>3. b.tag = "chain" /\ car[b.cell] = Bytes /\ IsPointer(b) /\ b \in Reached
    <3>1. IsChunks(b) /\ b # Empty
      BY <1>3, <2>1 DEF SafeInv, ChunksStayChunks
    <3>2. b.tag = "chain" /\ car[b.cell] = Bytes /\ IsPointer(b)
      BY <3>1 DEF IsChunks, IsPointer, PointerTags, ListTags
    <3> QED
      BY <1>1, <2>1, <3>2, CellReached
  <2>4. p \in Reached /\ p.cell \in Cells /\ car[p.cell] = Bytes
    BY <1>1, <1>3, <2>2, ChainReached, ReachedWord DEF SafeInv
  <2>5. \A q \in Reached : /\ q.cell \in Cells
                           /\ q.cell # p.cell => cdr'[q.cell] = cdr[q.cell]
                           /\ q.cell = p.cell => cdr'[q.cell] = b
    BY <1>1, <1>3, <2>4, ReachedWord DEF TypeOK
  <2>6. Unspoiled
    BY <1>3, <2>3, <2>4, <2>5 DEF Unspoiled
  <2>7. \A w \in ProgramRoots' : w \in ProgramRoots
    BY <1>1, <1>3 DEF ProgramRoots, Bound, TypeOK
  <2>8. Reached' \subseteq Reached
    <3> DEFINE S == Reached
    <3>1. ASSUME NEW q \in S, NEW w \in Follow(car, cdr', q), IsPointer(w) PROVE w \in S
      <4>1. w \in Follow(car, cdr, q) \/ w = b
        BY <2>5, <3>1 DEF Follow
      <4> QED
        BY <1>1, <2>3, <3>1, <4>1, ReachedClosed
    <3>2. \A w \in ProgramRoots' : IsPointer(w) => w \in S
      BY <2>7, ReachRoots DEF Reached
    <3>3. ProgramRoots' \in SUBSET Words
      BY <1>1, <2>7, RootWords
    <3>4. car \in [Cells -> Words] /\ cdr' \in [Cells -> Words]
      BY <1>1 DEF TypeOK
    <3> HIDE DEF S
    <3>5. Reach(car, cdr', ProgramRoots') \subseteq S
      BY <3>1, <3>2, <3>3, <3>4, ReachLeast
    <3> QED
      BY <1>3, <3>5 DEF S, Reached
  <2>9. NoDangling' /\ LooksUsed' /\ AllScanned' /\ NoCellLost'
    BY <1>3, <2>8 DEF SafeInv, NoDangling, LooksUsed, AllScanned, NoCellLost
  <2>10. ChunksStayChunks'
    <3>1. \A q \in Reached : (q.tag = "chain" /\ car[q.cell] = Bytes) => IsChunks(cdr'[q.cell])
      BY <1>3, <2>3, <2>5 DEF SafeInv, ChunksStayChunks, IsChunks
    <3> QED
      BY <1>3, <2>8, <3>1 DEF SafeInv, ChunksStayChunks, IsChunks
  <2> QED
    BY <2>6, <2>9, <2>10 DEF SafeInv
<1>4. ASSUME ~ tame' PROVE SafeInv'
  BY <1>4 DEF SafeInv, NoDangling, LooksUsed, AllScanned, ChunksStayChunks, NoCellLost
<1>5. ASSUME stack[s].tag = "name", stack[t].tag = "name",
             NEW p \in ChainOf(cdr, car[stack[s].cell]), cdr[p.cell] = Empty,
             cdr' = [cdr EXCEPT ![p.cell] = b], stack' = [stack EXCEPT ![d] = stack[s]],
             UNCHANGED <<car, free, shape, frame, glbl, status, tame>>
      PROVE  SafeInv' /\ (tame' => Unspoiled)
  BY <1>3, <1>4, <1>5
<1>6. CASE TypeError
  BY <1>2, <1>6 DEF TypeError, heap
<1> QED
  BY <1>2, <1>5, <1>6 DEF SymbolAppend, LastChunk

-----------------------------------------------------------------------------
(* Every step keeps the invariant and, while the program is tame, what the *)
(* program reaches.                                                        *)
LEMMA SafeStep == SafeInv /\ [Next]_vars => SafeInv' /\ (tame' => Unspoiled)
<1> SUFFICES ASSUME SafeInv, [Next]_vars PROVE SafeInv' /\ (tame' => Unspoiled)
  OBVIOUS
<1>0. TypeOK /\ TypeOK'
  BY TypeStep DEF SafeInv
<1> USE DEF IsPointer, PointerTags, BoxLikeTags, ListTags
<1>1. CASE Bind
  <2>1. \A w \in ProgramRoots' : w \in ProgramRoots \/ w = Zero
    BY <1>0, <1>1, ProgramAssumption DEF Bind, ProgramRoots, Bound, TypeOK, Slots
  <2>2. \A w \in ProgramRoots' : IsPointer(w) => w \in Reached
    BY <2>1, ReachRoots DEF Reached, Zero, Flat
  <2>3. tame' = tame /\ AllScanned' = AllScanned /\ UNCHANGED heap
    BY <1>1 DEF Bind, AllScanned
  <2> QED
    BY <1>0, <2>2, <2>3, RootStep DEF SafeInv
<1>2. ASSUME NEW n \in Slots, PopScope(n) PROVE SafeInv' /\ Unspoiled
  <2>1. \A w \in ProgramRoots' : w \in ProgramRoots
    BY <1>0, <1>2 DEF PopScope, ProgramRoots, Bound, TypeOK
  <2>2. \A w \in ProgramRoots' : IsPointer(w) => w \in Reached
    BY <2>1, ReachRoots DEF Reached
  <2>3. tame' = tame /\ AllScanned' = AllScanned /\ UNCHANGED heap
    BY <1>2 DEF PopScope, AllScanned
  <2> QED
    BY <1>0, <2>2, <2>3, RootStep DEF SafeInv
<1>3. ASSUME NEW d \in Bound, Constant(d) PROVE SafeInv' /\ Unspoiled
  <2>1. PICK tag \in Literals : Put(d, Flat(tag))
    BY <1>3 DEF Constant
  <2>2. Flat(tag) \in Words /\ ~ IsPointer(Flat(tag))
    BY MadeWords, ProgramAssumption DEF FlatTags
  <2> QED
    BY <2>1, <2>2, PutStep
<1>4. ASSUME NEW d \in Bound, Chunk(d) \/ String(d) \/ Name(d) \/ Lambda(d)
      PROVE  SafeInv' /\ (tame' => Unspoiled)
  <2>1. stack[d] \in Words /\ (IsPointer(stack[d]) => stack[d] \in Reached)
    BY <1>0, BoundSlotWords, HeldReached
  <2>2. Bytes \in Words /\ Zero \in Words /\ Code \in Words /\ Code # Bytes
        /\ ~ IsPointer(Bytes) /\ ~ IsPointer(Zero) /\ ~ IsPointer(Code)
    BY MadeWords DEF Bytes, Zero, Code, Flat
  <2>3. CASE Chunk(d)
    <3>1. Fits("chain", Bytes, stack[d])
      BY <2>1, <2>2, <2>3 DEF Fits, Chunk
    <3> QED
      BY <2>1, <2>2, <2>3, <3>1, GcallocStep DEF Chunk
  <2>4. CASE String(d)
    <3>1. Fits("string", stack[d], Zero)
      BY <2>1, <2>2, <2>4 DEF Fits, String
    <3> QED
      BY <2>1, <2>2, <2>4, <3>1, GcallocStep DEF String
  <2>5. CASE Name(d)
    <3>1. Fits("name", stack[d], Zero)
      BY <2>1, <2>2, <2>5 DEF Fits, Name
    <3> QED
      BY <2>1, <2>2, <2>5, <3>1, GcallocStep DEF Name
  <2>6. CASE Lambda(d)
    <3>1. Fits("proc", Code, stack[d])
      BY <2>1, <2>2, <2>6 DEF Fits
    <3> QED
      BY <2>1, <2>2, <2>6, <3>1, GcallocStep DEF Lambda
  <2> QED
    BY <1>4, <2>3, <2>4, <2>5, <2>6
<1>5. ASSUME NEW d \in Bound, NEW s \in Bound, Variable(d, s) PROVE SafeInv' /\ Unspoiled
  BY <1>0, <1>5, PutStep, BoundSlotWords, HeldReached DEF Variable
<1>6. ASSUME NEW d \in Bound, NEW s \in Bound, Box(d, s) PROVE SafeInv' /\ (tame' => Unspoiled)
  <2>1. Fits("box", stack[s], Zero)
    BY HeldReached DEF Fits
  <2> QED
    BY <1>0, <1>6, <2>1, MadeWords, BoundSlotWords, GcallocStep DEF Box
<1>7. ASSUME NEW d \in Bound, NEW s \in Bound, Unbox(d, s) PROVE SafeInv' /\ Unspoiled
  <2>1. CASE stack[s].tag = "box" /\ Put(d, car[stack[s].cell])
    BY <1>0, <2>1, PutStep, BoundSlotWords, CellWords, HeldReached, CellReached
  <2> QED
    BY <1>7, <2>1, TypeErrorStep DEF Unbox
<1>8. ASSUME NEW d \in Bound, NEW s \in Bound, CarCdr(d, s) PROVE SafeInv' /\ Unspoiled
  <2>1. CASE stack[s].tag = "list" /\ (Put(d, car[stack[s].cell]) \/ Put(d, cdr[stack[s].cell]))
    BY <1>0, <2>1, PutStep, BoundSlotWords, CellWords, HeldReached, CellReached
  <2> QED
    BY <1>8, <2>1, TypeErrorStep DEF CarCdr
<1>9. ASSUME NEW d \in Bound, NEW s \in Bound, Quote(d, s) PROVE SafeInv' /\ (tame' => Unspoiled)
  <2>1. Fits("symbol", stack[s], Zero)
    BY HeldReached DEF Fits
  <2> QED
    BY <1>0, <1>9, <2>1, MadeWords, BoundSlotWords, HeldReached, PutStep, GcallocStep DEF Quote
<1>10. ASSUME NEW d \in Bound, NEW s \in Bound, Unquote(d, s) PROVE SafeInv' /\ Unspoiled
  <2>1. CASE stack[s].tag = "symbol" /\ Put(d, car[stack[s].cell])
    BY <1>0, <2>1, PutStep, BoundSlotWords, CellWords, HeldReached, CellReached
  <2>2. CASE stack[s].tag = "name" /\ Put(d, stack[s])
    BY <1>0, <2>2, PutStep, BoundSlotWords, HeldReached
  <2> QED
    BY <1>10, <2>1, <2>2, TypeErrorStep DEF Unquote
<1>11. ASSUME NEW d \in Bound, NEW s \in Bound, Capture(d, s)
       PROVE  SafeInv' /\ (tame' => Unspoiled)
  <2>1. Fits("chain", stack[s], stack[d])
    BY <1>11, HeldReached DEF Fits, Capture, IsValue, Bytes, Flat
  <2> QED
    BY <1>0, <1>11, <2>1, BoundSlotWords, GcallocStep DEF Capture
<1>12. ASSUME NEW d \in Bound, NEW s \in Bound, Captured(d, s) PROVE SafeInv' /\ Unspoiled
  <2>1. /\ cdr[stack[s].cell] \in Words
        /\ IsPointer(cdr[stack[s].cell]) => cdr[stack[s].cell] \in Reached
    BY <1>0, <1>12, BoundSlotWords, CellWords, HeldReached, CellReached DEF Captured
  <2>2. PICK p \in ChainOf(cdr, cdr[stack[s].cell]) : Put(d, car[p.cell])
    BY <1>12 DEF Captured
  <2>3. p.tag = "chain" /\ p \in Reached
    BY <1>0, <2>1, ChainWords, ChainReached
  <2>4. car[p.cell] \in Words /\ (IsPointer(car[p.cell]) => car[p.cell] \in Reached)
    BY <1>0, <2>3, CellReached, ReachedWord DEF TypeOK
  <2> QED
    BY <2>2, <2>4, PutStep
<1>13. ASSUME NEW d \in Bound, NEW s \in Bound, NEW t \in Bound, Cons(d, s, t)
       PROVE  SafeInv' /\ (tame' => Unspoiled)
  <2>1. Fits("list", stack[s], stack[t])
    BY HeldReached DEF Fits
  <2> QED
    BY <1>0, <1>13, <2>1, BoundSlotWords, GcallocStep DEF Cons
<1>14. ASSUME NEW d \in Bound, NEW s \in Bound, NEW t \in Bound, SymbolAppend(d, s, t)
       PROVE  SafeInv' /\ (tame' => Unspoiled)
  BY <1>0, <1>14, AppendStep
<1>15. ASSUME NEW g \in Globals, NEW s \in Bound, SetGlobal(g, s) PROVE SafeInv' /\ Unspoiled
  <2>1. \A w \in ProgramRoots' : w \in ProgramRoots
    BY <1>0, <1>15 DEF SetGlobal, ProgramRoots, Bound, TypeOK
  <2>2. \A w \in ProgramRoots' : IsPointer(w) => w \in Reached
    BY <2>1, ReachRoots DEF Reached
  <2>3. (tame' => tame) /\ UNCHANGED heap
    BY <1>15 DEF SetGlobal
  <2>4. tame' => AllScanned'
    BY <1>0, <1>15 DEF SetGlobal, AllScanned, SafeInv, TypeOK
  <2> QED
    BY <1>0, <2>2, <2>3, <2>4, RootStep
<1>16. ASSUME NEW g \in Globals, NEW s \in Bound, GetGlobal(s, g) PROVE SafeInv' /\ Unspoiled
  <2>1. glbl[g] \in Words
    BY <1>0 DEF TypeOK
  <2> QED
    BY <1>16, <2>1, HeldReached, PutStep DEF GetGlobal
<1>17. CASE UNCHANGED vars
  <2>1. ProgramRoots' = ProgramRoots /\ AllScanned' = AllScanned /\ UNCHANGED heap /\ tame' = tame
    BY <1>17 DEF vars, heap, ProgramRoots, Bound, AllScanned
  <2>2. \A w \in ProgramRoots' : IsPointer(w) => w \in Reached
    BY <2>1, ReachRoots DEF Reached
  <2> QED
    BY <1>0, <2>1, <2>2, RootStep DEF SafeInv
<1> QED
  BY <1>1, <1>2, <1>3, <1>4, <1>5, <1>6, <1>7, <1>8, <1>9, <1>10, <1>11, <1>12, <1>13,
     <1>14, <1>15, <1>16, <1>17 DEF Next

-----------------------------------------------------------------------------
(* The theorems.                                                           *)

(* The invariant holds of every reachable state of every program.          *)
THEOREM Safe == Spec => []SafeInv
<1>1. Init => SafeInv
  <2> SUFFICES ASSUME Init PROVE SafeInv
    OBVIOUS
  <2>1. TypeOK
    BY MadeWords, HeapAssumption, ProgramAssumption DEF Init, TypeOK
  <2>2. Present(car, cdr, ProgramRoots) = {}
    BY ProgramAssumption DEF Init, Present, ProgramRoots, Bound, IsPointer, Zero, Flat, PointerTags,
       BoxLikeTags, ListTags
  <2>3. Reached = {}
    BY <2>2 DEF Reached, Reach
  <2>4. AllScanned
    BY DEF Init, AllScanned, IsPointer, Zero, Flat, PointerTags, BoxLikeTags, ListTags
  <2>5. NoCellLost
    BY DEF Init, NoCellLost
  <2> QED
    BY <2>1, <2>3, <2>4, <2>5 DEF SafeInv, NoDangling, LooksUsed, ChunksStayChunks
<1> QED
  BY <1>1, SafeStep, PTL DEF Spec

(* No pointer a tame program can reach leads to a cell that was swept or   *)
(* that gcalloc gave out again under another tag.                          *)
THEOREM NeverDangling == Spec => []NoDangling
<1>1. SafeInv => NoDangling
  BY DEF SafeInv
<1> QED
  BY <1>1, Safe, PTL

(* No allocation of a tame program leaves an empty cell behind.            *)
THEOREM NoneLost == Spec => []NoCellLost
<1>1. SafeInv => NoCellLost
  BY DEF SafeInv
<1> QED
  BY <1>1, Safe, PTL

(* What a tame program can reach changes only where symbol_append links.   *)
THEOREM ReachedUntouched == Spec => Untouched
<1>1. SafeInv /\ [Next]_vars =>
        [tame' => \A p \in Reached :
           /\ car'[p.cell] = car[p.cell]
           /\ \/ p.tag \in BoxLikeTags
              \/ cdr'[p.cell] = cdr[p.cell]
              \/ car[p.cell] = Bytes /\ cdr[p.cell] = Empty /\ cdr'[p.cell].tag = "chain"]_vars
  BY SafeStep DEF Unspoiled
<1> QED
  BY <1>1, Safe, PTL DEF Spec, Untouched

(* What a gcalloc does to the cells when a collection is due, whether or   *)
(* not the program is tame: if it gives up all cells but the first were in *)
(* use, and only live cells and the new one hold anything afterwards.      *)
LEMMA GcallocCollects ==
  ASSUME TypeOK, status = "run", Collecting, NEW d \in Bound, NEW tag \in PointerTags,
         NEW first \in Words, NEW second \in Words, Gcalloc(d, tag, first, second)
  PROVE  /\ ErrMemFull => 1 .. Limit \subseteq Live
         /\ \A c \in Cells : (car'[c] # Zero \/ cdr'[c] # Zero) => c \in Live \/ c = free' - 1
<1> DEFINE cars == Swept(car, Live)
           cdrs == Swept(cdr, Live)
<1>1. PICK f \in Cells, c \in 0 .. (Limit + 1) :
        /\ FreeAfter(f, Live) /\ Mnscfr(cars, f, c)
        /\ Exhausted(c, cars, cdrs) \/ Built(c, cars, cdrs, d, tag, first, second)
  BY DEF Gcalloc
<1>2. \A k \in Cells : k \notin Live => cars[k] = Zero /\ cdrs[k] = Zero
  BY DEF Kept, Swept
<1>3. cars \in [Cells -> Words] /\ cdrs \in [Cells -> Words]
  BY MadeWords DEF TypeOK, Kept, Swept
<1>4. CASE Exhausted(c, cars, cdrs)
  <2>1. ASSUME NEW k \in 1 .. Limit PROVE k \in Live
    <3>1. k \in Cells /\ k # 0
      BY HeapAssumption DEF Cells
    <3>2. CASE k < f
      BY <1>1, <3>1, <3>2, HeapAssumption DEF FirstCleared, FreeAfter, Cells
    <3>3. CASE k >= f
      <4>1. k \in f .. (c - 1)
        BY <1>4, <3>3, HeapAssumption DEF Exhausted, Cells
      <4>2. cars[k] # Zero
        BY <1>1, <4>1 DEF Mnscfr
      <4> QED
        BY <1>2, <3>1, <4>2
    <3> QED
      BY <3>2, <3>3, HeapAssumption DEF Cells
  <2> QED
    BY <1>2, <1>4, <2>1 DEF Exhausted
<1>5. CASE Built(c, cars, cdrs, d, tag, first, second)
  <2>1. ~ ErrMemFull
    BY <1>5 DEF Built, ErrMemFull
  <2>2. \A k \in Cells : k # c => car'[k] = cars[k] /\ cdr'[k] = cdrs[k]
    BY <1>3, <1>5 DEF Built
  <2>3. c = free' - 1
    BY <1>5, HeapAssumption DEF Built
  <2> QED
    BY <1>2, <2>1, <2>2, <2>3
<1> QED
  BY <1>1, <1>4, <1>5

(* An allocation that collected and still gives up found the heap full.    *)
(* A collection leaves nothing but what is live.                           *)
LEMMA CollectStep ==
  TypeOK /\ [Next]_vars =>
    /\ [(Collecting /\ ErrMemFull) => 1 .. Limit \subseteq Live]_vars
    /\ [(Collecting /\ car' # car) =>
          \A c \in Cells : (car'[c] # Zero \/ cdr'[c] # Zero) => c \in Live \/ c = free' - 1]_vars
<1> DEFINE G == /\ (Collecting /\ ErrMemFull) => 1 .. Limit \subseteq Live
                /\ (Collecting /\ car' # car) =>
                     \A c \in Cells : (car'[c] # Zero \/ cdr'[c] # Zero)
                                        => c \in Live \/ c = free' - 1
<1> SUFFICES ASSUME TypeOK, Next PROVE G
  OBVIOUS
<1>0. status = "run"
  BY DEF Next
<1>1. ASSUME NEW d \in Bound, NEW tag \in PointerTags, NEW first \in Words, NEW second \in Words,
             Gcalloc(d, tag, first, second)
      PROVE  G
  BY <1>0, <1>1, GcallocCollects
<1>2. ASSUME car' = car, status' # "full" PROVE G
  BY <1>2 DEF ErrMemFull
<1>3. ASSUME NEW d, NEW w, Put(d, w) PROVE G
  BY <1>0, <1>2, <1>3 DEF Put, heap
<1>4. ASSUME TypeError PROVE G
  BY <1>2, <1>4 DEF TypeError, heap
<1> HIDE DEF G
<1> USE DEF PointerTags, BoxLikeTags, ListTags
<1>5. CASE Bind \/ \E n \in Slots : PopScope(n)
  BY <1>0, <1>2, <1>5 DEF Bind, PopScope, heap
<1>6. ASSUME NEW d \in Bound, Constant(d) PROVE G
  BY <1>3, <1>6 DEF Constant
<1>7. ASSUME NEW d \in Bound, Chunk(d) \/ String(d) \/ Name(d) \/ Lambda(d) PROVE G
  BY <1>1, <1>7, MadeWords, BoundSlotWords DEF Chunk, String, Name, Lambda
<1>8. ASSUME NEW d \in Bound, NEW s \in Bound, Variable(d, s) \/ Captured(d, s) PROVE G
  BY <1>3, <1>8 DEF Variable, Captured
<1>9. ASSUME NEW d \in Bound, NEW s \in Bound, Box(d, s) \/ Capture(d, s) PROVE G
  BY <1>1, <1>9, MadeWords, BoundSlotWords DEF Box, Capture
<1>10. ASSUME NEW d \in Bound, NEW s \in Bound, Unbox(d, s) \/ CarCdr(d, s) \/ Unquote(d, s) PROVE G
  BY <1>3, <1>4, <1>10 DEF Unbox, CarCdr, Unquote
<1>11. ASSUME NEW d \in Bound, NEW s \in Bound, Quote(d, s) PROVE G
  BY <1>1, <1>3, <1>11, MadeWords, BoundSlotWords DEF Quote
<1>12. ASSUME NEW d \in Bound, NEW s \in Bound, NEW t \in Bound, Cons(d, s, t) PROVE G
  BY <1>1, <1>12, BoundSlotWords DEF Cons
<1>13. ASSUME NEW d \in Bound, NEW s \in Bound, NEW t \in Bound, SymbolAppend(d, s, t) PROVE G
  BY <1>0, <1>2, <1>4, <1>13 DEF SymbolAppend, heap
<1>14. ASSUME NEW g \in Globals, NEW s \in Bound, SetGlobal(g, s) \/ GetGlobal(s, g) PROVE G
  BY <1>0, <1>2, <1>3, <1>14 DEF SetGlobal, GetGlobal, heap
<1> QED
  BY <1>5, <1>6, <1>7, <1>8, <1>9, <1>10, <1>11, <1>12, <1>13, <1>14 DEF Next

(* When an allocation that collected gives up, every cell it could have    *)
(* handed out is in use, the first cell apart.                             *)
THEOREM GivesUpOnlyAfterGcIfFull == Spec => FullAfterGc
<1>1. TypeOK /\ [Next]_vars => [(Collecting /\ ErrMemFull) => 1 .. Limit \subseteq Live]_vars
  BY CollectStep
<1> QED
  BY <1>1, TypeCorrect, PTL DEF Spec, FullAfterGc

(* After a collection no cell holds anything that was not live, except the *)
(* cell just built.                                                        *)
THEOREM SweepIsExact == Spec => ExactSweep
<1>1. TypeOK /\ [Next]_vars =>
        [(Collecting /\ car' # car) =>
          \A c \in Cells : (car'[c] # Zero \/ cdr'[c] # Zero) => c \in Live \/ c = free' - 1]_vars
  BY CollectStep
<1> QED
  BY <1>1, TypeCorrect, PTL DEF Spec, ExactSweep
=============================================================================
