------------------------------ MODULE PopWords ------------------------------
(***************************************************************************)
(* The machine words of a Poplang program and what the collector reads     *)
(* through them.  A word is either flat data or a tagged pointer to a      *)
(* 16-byte cell; a cell holds two words, kept in two functions from cells  *)
(* to words (car the word at offset 0, cdr the word at offset 8).          *)
(*                                                                         *)
(* The bit pattern of a word is abstracted to its tag and, for a pointer,  *)
(* the index of its cell.  What the collector can tell apart is kept:      *)
(*   zero   the word 0, which is also the tagged integer 0                 *)
(*   data   any other integer or flag                                      *)
(*   bytes  a chunk of seven characters (TAG_BYTES)                        *)
(*   empty  the list terminal (TAG_ELIST)                                  *)
(*   code   a TAG_PROC pointer to an instruction, outside the heap         *)
(* and the heap pointers                                                   *)
(*   box, list, proc, string                                               *)
(*   symbol  a composite symbol, "name" a primitive one (type byte 255)    *)
(*   chain   a TAG_LIST pointer that no expression of the language returns:*)
(*           the chunk list of a string or primitive symbol, or the        *)
(*           environment list of a closure.                                *)
(***************************************************************************)
EXTENDS Integers

CONSTANTS
  N,      (* The number of cells of the heap: __heapsize__ / 16.           *)
  Limit   (* The last cell gcalloc hands out: (__heapsize__ - 256) / 16.   *)

ASSUME HeapAssumption == N \in Nat /\ Limit \in Nat /\ Limit + 1 < N

Cells == 0 .. (N - 1)

FlatTags    == {"zero", "data", "bytes", "empty", "code"}
BoxLikeTags == {"box", "string", "symbol", "name"}
ListTags    == {"list", "chain"}
PointerTags == BoxLikeTags \cup ListTags \cup {"proc"}

Flat(tag)       == [tag |-> tag, cell |-> -1]
Pointer(tag, c) == [tag |-> tag, cell |-> c]

Zero  == Flat("zero")
Data  == Flat("data")
Bytes == Flat("bytes")
Empty == Flat("empty")
Code  == Flat("code")

FlatWords == [tag : FlatTags, cell : {-1}]
Pointers  == [tag : PointerTags, cell : Cells]
Words     == FlatWords \cup Pointers

(***************************************************************************)
(* The words mns_ reads, and goes on from, when it meets the pointer p: a  *)
(* box, string or symbol leads to the first word of its cell, a list to    *)
(* both, a procedure to its environment (its first word is code).          *)
(***************************************************************************)
Follow(car, cdr, p) ==
  IF p.tag \in BoxLikeTags THEN {car[p.cell]}
  ELSE IF p.tag \in ListTags THEN {car[p.cell], cdr[p.cell]}
  ELSE {cdr[p.cell]}

IsPointer(w) == w.tag \in PointerTags

Closed(car, cdr, S) == \A p \in S : \A w \in Follow(car, cdr, p) : IsPointer(w) => w \in S

(* Every pointer that lies in a cell or among the given roots.             *)
Present(car, cdr, roots) ==
  {w \in {car[c] : c \in Cells} \cup {cdr[c] : c \in Cells} \cup roots : IsPointer(w)}

(***************************************************************************)
(* The pointers reached from roots: the smallest closed set that holds the *)
(* pointers among them.                                                    *)
(***************************************************************************)
Reach(car, cdr, roots) ==
  LET P      == Present(car, cdr, roots)
      closed == {S \in SUBSET P : /\ \A w \in roots : IsPointer(w) => w \in S
                                 /\ Closed(car, cdr, S)}
  IN  {p \in P : \A S \in closed : p \in S}

(***************************************************************************)
(* The cells of the list w as a loop over second words visits them.        *)
(***************************************************************************)
ChainOf(cdr, w) ==
  LET links == {p \in {w} \cup {cdr[c] : c \in Cells} : p.tag = "chain"}
  IN  {p \in links : \A S \in SUBSET links :
         ( /\ {w} \cap links \subseteq S
           /\ \A q \in S : {cdr[q.cell]} \cap links \subseteq S) => p \in S}

(***************************************************************************)
(* What a collection leaves: one of the two columns of words when the      *)
(* cells in live are kept, and the free pointer.  mnsweep keeps the first  *)
(* cell it clears in __free__, where 0 also means that there is none yet.  *)
(***************************************************************************)
Kept(word, live) == [c \in Cells |-> IF c \in live THEN word[c] ELSE Zero]

FirstCleared(f, live) ==
  LET cleared == Cells \ (live \cup {0})
  IN  IF cleared = {} THEN f = 0 ELSE f \in cleared /\ \A c \in cleared : f <= c

=============================================================================
