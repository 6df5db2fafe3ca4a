--------------------------- MODULE PopWords_proofs ---------------------------
(***************************************************************************)
(* What is true of the words of a program and of reachability, for every   *)
(* size of the heap.                                                       *)
(***************************************************************************)
EXTENDS PopWords, TLAPS

-----------------------------------------------------------------------------
(* Words and reachability.                                                 *)

(* A word with a pointer tag is a pointer and names a cell.                *)
LEMMA PointerWord ==
  ASSUME NEW w \in Words, IsPointer(w)
  PROVE  w \in Pointers /\ w.cell \in Cells
  BY DEF Words, IsPointer, Pointers, FlatWords, PointerTags, FlatTags, BoxLikeTags, ListTags

(* The flat words and the pointers made by the allocator are words.        *)
LEMMA MadeWords ==
  /\ Zero \in Words /\ Data \in Words /\ Bytes \in Words
  /\ Empty \in Words /\ Code \in Words
  /\ \A tag \in FlatTags : Flat(tag) \in Words /\ ~IsPointer(Flat(tag))
  /\ \A tag \in PointerTags, c \in Cells :
       Pointer(tag, c) \in Words /\ IsPointer(Pointer(tag, c))
  BY DEF Zero, Data, Bytes, Empty, Code, Flat, Pointer, Words, FlatWords, Pointers, FlatTags,
     IsPointer, PointerTags, BoxLikeTags, ListTags

(* What the collector reads through a pointer lies in the pointer's cell.  *)
LEMMA FollowPresent ==
  ASSUME NEW a \in [Cells -> Words], NEW d \in [Cells -> Words], NEW roots \in SUBSET Words,
         NEW p \in Present(a, d, roots), NEW w \in Follow(a, d, p), IsPointer(w)
  PROVE  w \in Present(a, d, roots)
<1>1. p \in Words /\ IsPointer(p)
  BY DEF Present
<1>2. p.cell \in Cells
  BY <1>1, PointerWord
<1>3. w \in {a[p.cell], d[p.cell]}
  BY DEF Follow
<1> QED
  BY <1>2, <1>3 DEF Present

(* The pointers among the roots are reached.                               *)
LEMMA ReachRoots ==
  ASSUME NEW a, NEW d, NEW roots, NEW w \in roots, IsPointer(w)
  PROVE  w \in Reach(a, d, roots)
  BY DEF Reach, Present

(* What is reached is a pointer that lies in memory.                       *)
LEMMA ReachPresent ==
  ASSUME NEW a \in [Cells -> Words], NEW d \in [Cells -> Words], NEW roots \in SUBSET Words,
         NEW p \in Reach(a, d, roots)
  PROVE  p \in Present(a, d, roots) /\ p \in Words /\ IsPointer(p) /\ p.cell \in Cells
<1>1. p \in Present(a, d, roots)
  BY DEF Reach
<1>2. p \in Words /\ IsPointer(p)
  BY <1>1 DEF Present
<1> QED
  BY <1>1, <1>2, PointerWord

(* Reach is closed under following pointers.                               *)
LEMMA ReachClosed ==
  ASSUME NEW a \in [Cells -> Words], NEW d \in [Cells -> Words], NEW roots \in SUBSET Words,
         NEW p \in Reach(a, d, roots), NEW w \in Follow(a, d, p), IsPointer(w)
  PROVE  w \in Reach(a, d, roots)
<1>1. w \in Present(a, d, roots)
  BY ReachPresent, FollowPresent
<1>2. ASSUME NEW S \in SUBSET Present(a, d, roots),
             \A v \in roots : IsPointer(v) => v \in S, Closed(a, d, S)
      PROVE  w \in S
  <2>1. p \in S
    BY <1>2 DEF Reach
  <2> QED
    BY <2>1, <1>2 DEF Closed
<1> QED
  BY <1>1, <1>2 DEF Reach

(* Reach is the least set that is closed and holds the roots.              *)
LEMMA ReachLeast ==
  ASSUME NEW a \in [Cells -> Words], NEW d \in [Cells -> Words], NEW roots \in SUBSET Words,
         NEW S, \A w \in roots : IsPointer(w) => w \in S,
         \A p \in S : p \in Present(a, d, roots) =>
           \A w \in Follow(a, d, p) : IsPointer(w) => w \in S
  PROVE  Reach(a, d, roots) \subseteq S
<1> DEFINE T == S \cap Present(a, d, roots)
<1>1. T \in SUBSET Present(a, d, roots)
  OBVIOUS
<1>2. \A w \in roots : IsPointer(w) => w \in T
  BY DEF Present
<1>3. Closed(a, d, T)
  BY FollowPresent DEF Closed
<1> QED
  BY <1>1, <1>2, <1>3 DEF Reach

=============================================================================
