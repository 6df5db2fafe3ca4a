--------------------------- MODULE Collector_proofs ---------------------------
(***************************************************************************)
(* Proofs about a run of the collector, for every size of the heap, every  *)
(* number of globals and every stack: CollectorInv is inductive, and with  *)
(* it a collection marks what the program can reach and nothing else, and  *)
(* does to the heap what Collection promises.                              *)
(***************************************************************************)
EXTENDS Collector, PopWords_proofs, SequenceTheorems, FiniteSetTheorems,
        WellFoundedInduction

-----------------------------------------------------------------------------
(* The inductive invariant.                                                *)

(* What the program can reach when the collection starts, and its cells.   *)
Reached == Reach(before.car, before.cdr, Roots)
Live    == {p.cell : p \in Reached}

CallRecords == [word : Words, seen : BOOLEAN, resumed : BOOLEAN]
StackWords  == Words \cup {Marker, Return}

(* A return address lies behind each marker and nowhere else.              *)
Blocks(s) ==
  \A i \in 1 .. Len(s) :
    /\ s[i] = Marker => i < Len(s) /\ s[i + 1] = Return
    /\ s[i] = Return => i > 1 /\ s[i - 1] = Marker

(* The heap, globals and stack the collection started with.                *)
Given ==
  /\ before.car \in [Cells -> Words] /\ before.cdr \in [Cells -> Words]
  /\ glbl \in [Globals -> Words]
  /\ stack \in Seq(StackWords) /\ Blocks(stack)
  /\ \A p, q \in Present(before.car, before.cdr, Roots) : p.cell = q.cell => p.tag = q.tag

(* The activations of mns_: all but the innermost are at the first word of *)
(* a list, which is marked.                                                *)
Activations ==
  /\ calls \in Seq(CallRecords)
  /\ \A i \in 1 .. Len(calls) :
       /\ IsPointer(calls[i].word) => calls[i].word \in Reached
       /\ i > 1 => calls[i].resumed
       /\ calls[i].resumed => calls[i].word.tag \in ListTags /\ calls[i].word.cell \in firsts

(* Two of them at the same list: one is the caller of an activation that   *)
(* turns back.                                                             *)
Distinct ==
  \A i, j \in 1 .. Len(calls) :
    (1 < i /\ i < j /\ calls[i].word.cell = calls[j].word.cell) =>
      i = 2 /\ ~ Top.resumed /\ Returns(Top)

(* The word that the innermost one is about to follow.                     *)
Pending == calls # <<>> /\ ~ Top.resumed /\ ~ Top.seen

(* A word has been followed: its cell is marked, or will be next.          *)
Followed(w) == IsPointer(w) => w.cell \in firsts \/ (Pending /\ Top.word = w)

(* The list in cell c has not yet had its second word marked, but will.    *)
Waiting(c) == \E i \in 1 .. Len(calls) : calls[i].resumed /\ calls[i].word.cell = c

(* What has been marked is reached, and what it leads to has been followed *)
(* or will be.                                                             *)
Sound == firsts \subseteq Live /\ seconds \subseteq Live

Complete ==
  \A p \in Reached :
    /\ p.cell \in firsts =>
         /\ p.tag # "proc" => Followed(before.car[p.cell])
         /\ p.tag = "proc" => p.cell \in seconds
         /\ p.tag \in ListTags => p.cell \in seconds \/ Waiting(p.cell)
    /\ p.cell \in seconds /\ p.tag \notin BoxLikeTags => Followed(before.cdr[p.cell])

RootsRead ==
  /\ phase = "globals" =>
       /\ next \in 1 .. (NGlobals + 1)
       /\ \A k \in 1 .. (next - 1) : Followed(GlobalWord(k))
  /\ phase = "stack" =>
       /\ next \in 1 .. (Len(stack) + 1)
       /\ \A k \in 1 .. NGlobals : Followed(GlobalWord(k))
       /\ \A i \in 1 .. (next - 1) : Followed(stack[i])
       /\ next <= Len(stack) => stack[next] # Return

(* While roots are read the heap is the one the collection started with.   *)
Marking ==
  phase \in {"globals", "stack"} =>
    /\ car = before.car /\ cdr = before.cdr /\ free = Limit
    /\ Activations /\ Distinct /\ Sound /\ Complete /\ RootsRead

(* One of the two columns of words, swept up to cell n.                    *)
SweptTo(n, word) == [c \in Cells |-> IF c < n /\ c \notin Live THEN Zero ELSE word[c]]

(* The cells before the n-th that the sweep has cleared, but for cell 0.   *)
ClearedTo(n) == {c \in Cells \ (Live \cup {0}) : c < n}

Sweeping ==
  phase \in {"sweep", "done"} =>
    /\ calls = <<>>
    /\ next \in 0 .. N
    /\ firsts = {c \in Live : c >= next}
    /\ seconds \subseteq {c \in Cells : c >= next}
    /\ car = SweptTo(next, before.car) /\ cdr = SweptTo(next, before.cdr)
    /\ IF ClearedTo(next) = {} THEN free = 0
       ELSE free \in ClearedTo(next) /\ \A c \in ClearedTo(next) : free <= c
    /\ phase = "done" => next = N

CollectorInv ==
  /\ phase \in {"globals", "stack", "sweep", "done"}
  /\ Given
  /\ Marking
  /\ Sweeping

-----------------------------------------------------------------------------
(* What is given.                                                          *)

(* A marker and a return address are no words of the program.              *)
LEMMA MarkerWords ==
  /\ Marker \notin Words /\ Return \notin Words /\ Marker # Return
  /\ ~ IsPointer(Marker) /\ ~ IsPointer(Return) /\ ~ IsPointer(Zero) /\ Zero \in Words
  BY DEF Marker, Return, Flat, Zero, Words, FlatWords, FlatTags, Pointers, PointerTags,
     BoxLikeTags, ListTags, IsPointer

LEMMA RootWords ==
  ASSUME Given
  PROVE  Roots \subseteq Words
<1>1. \A g \in Globals : glbl[g] \in Words
  BY DEF Given
<1>2. \A i \in DOMAIN stack : stack[i] \in StackWords
  BY LenProperties, ElementOfSeq DEF Given
<1> QED
  BY <1>1, <1>2 DEF Roots, StackWords

(* A reached pointer leads to what is reached.                             *)
LEMMA ReachedProperties ==
  ASSUME Given, NEW p \in Reached
  PROVE  /\ p \in Words /\ IsPointer(p) /\ p.cell \in Cells /\ p.cell \in Live
         /\ p \in Present(before.car, before.cdr, Roots)
         /\ p.tag \in BoxLikeTags \/ p.tag \in ListTags \/ p.tag = "proc"
         /\ before.car[p.cell] \in Words /\ before.cdr[p.cell] \in Words
         /\ p.tag # "proc" /\ IsPointer(before.car[p.cell]) => before.car[p.cell] \in Reached
         /\ p.tag \notin BoxLikeTags /\ IsPointer(before.cdr[p.cell]) =>
              before.cdr[p.cell] \in Reached
<1>1. before.car \in [Cells -> Words] /\ before.cdr \in [Cells -> Words] /\ Roots \in SUBSET Words
  BY RootWords DEF Given
<1>2. /\ p \in Present(before.car, before.cdr, Roots)
      /\ p \in Words /\ IsPointer(p) /\ p.cell \in Cells
  BY <1>1, ReachPresent DEF Reached
<1>3. p.tag \in BoxLikeTags \/ p.tag \in ListTags \/ p.tag = "proc"
  BY <1>2 DEF IsPointer, PointerTags
<1>4. ASSUME NEW w \in Follow(before.car, before.cdr, p), IsPointer(w) PROVE w \in Reached
  BY <1>1, <1>4, ReachClosed DEF Reached
<1>5. p.tag # "proc" => before.car[p.cell] \in Follow(before.car, before.cdr, p)
  BY <1>3 DEF Follow
<1>6. p.tag \notin BoxLikeTags => before.cdr[p.cell] \in Follow(before.car, before.cdr, p)
  BY <1>3 DEF Follow
<1> QED
  BY <1>1, <1>2, <1>3, <1>4, <1>5, <1>6 DEF Live

(* A pointer to a reached cell is reached.                                 *)
LEMMA LiveReached ==
  ASSUME Given, NEW p \in Present(before.car, before.cdr, Roots), p.cell \in Live
  PROVE  p \in Reached
<1>1. PICK q \in Reached : q.cell = p.cell
  BY DEF Live
<1>2. q \in Words /\ IsPointer(q) /\ q \in Present(before.car, before.cdr, Roots)
  BY ReachedProperties
<1>3. p \in Words /\ IsPointer(p)
  BY RootWords DEF Present, Given
<1>4. p \in Pointers /\ q \in Pointers
  BY <1>2, <1>3, PointerWord
<1>5. p.tag = q.tag
  BY <1>1, <1>2 DEF Given
<1>6. p = q
  BY <1>1, <1>4, <1>5 DEF Pointers
<1> QED
  BY <1>6

(* All of it stays.                                                        *)
LEMMA SameGiven ==
  ASSUME before' = before, glbl' = glbl, stack' = stack
  PROVE  /\ Roots' = Roots /\ Reached' = Reached /\ Live' = Live
         /\ Given' <=> Given
         /\ \A k : GlobalWord(k)' = GlobalWord(k)
<1>1. Roots' = Roots
  BY DEF Roots
<1>2. Reached' = Reached
  BY <1>1 DEF Reached
<1>3. Live' = Live
  BY <1>2 DEF Live
<1>4. Given' <=> Given
  BY <1>1 DEF Given
<1>5. \A k : GlobalWord(k)' = GlobalWord(k)
  BY DEF GlobalWord
<1> QED
  BY <1>1, <1>2, <1>3, <1>4, <1>5

-----------------------------------------------------------------------------
(* The activations of mns_.                                                *)

(* What is left when the innermost returns.                                *)
LEMMA TailWords ==
  ASSUME NEW s \in Seq(CallRecords), s # <<>>
  PROVE  /\ Tail(s) \in Seq(CallRecords) /\ Len(s) \in Nat \ {0} /\ Len(Tail(s)) = Len(s) - 1
         /\ s[1] \in CallRecords /\ Head(s) = s[1]
         /\ \A i \in 1 .. Len(Tail(s)) : Tail(s)[i] = s[i + 1]
  BY HeadTailProperties, LenProperties, ElementOfSeq, EmptySeq

(* One and two activations before others.                                  *)
LEMMA OneMore ==
  ASSUME NEW a \in CallRecords, NEW s \in Seq(CallRecords)
  PROVE  /\ <<a>> \o s \in Seq(CallRecords) /\ Len(<<a>> \o s) = Len(s) + 1
         /\ (<<a>> \o s)[1] = a /\ Head(<<a>> \o s) = a /\ <<a>> \o s # <<>>
         /\ \A i \in 2 .. Len(s) + 1 : (<<a>> \o s)[i] = s[i - 1]
<1> DEFINE t == <<a>> \o s
<1>1. <<a>> \in Seq(CallRecords) /\ Len(<<a>>) = 1 /\ <<a>>[1] = a /\ Len(s) \in Nat
  BY LenProperties
<1>2. t \in Seq(CallRecords) /\ Len(t) = Len(s) + 1 /\ t[1] = a
  BY <1>1, ConcatProperties
<1>3. \A i \in 2 .. Len(s) + 1 : t[i] = s[i - 1]
  BY <1>1, ConcatProperties
<1> HIDE DEF t
<1>4. t # <<>> /\ Head(t) = t[1]
  BY <1>1, <1>2, EmptySeq, HeadTailProperties
<1> QED
  BY <1>2, <1>3, <1>4 DEF t

LEMMA TwoMore ==
  ASSUME NEW a \in CallRecords, NEW b \in CallRecords, NEW s \in Seq(CallRecords)
  PROVE  /\ <<a, b>> \o s \in Seq(CallRecords) /\ Len(<<a, b>> \o s) = Len(s) + 2
         /\ (<<a, b>> \o s)[1] = a /\ (<<a, b>> \o s)[2] = b
         /\ Head(<<a, b>> \o s) = a /\ <<a, b>> \o s # <<>>
         /\ \A i \in 3 .. Len(s) + 2 : (<<a, b>> \o s)[i] = s[i - 2]
<1> DEFINE t == <<a, b>> \o s
<1>1. <<a, b>> \in Seq(CallRecords) /\ Len(<<a, b>>) = 2 /\ <<a, b>>[1] = a /\ <<a, b>>[2] = b
      /\ Len(s) \in Nat
  BY LenProperties
<1>2. t \in Seq(CallRecords) /\ Len(t) = Len(s) + 2 /\ t[1] = a /\ t[2] = b
  BY <1>1, ConcatProperties
<1>3. \A i \in 3 .. Len(s) + 2 : t[i] = s[i - 2]
  BY <1>1, ConcatProperties
<1> HIDE DEF t
<1>4. t # <<>> /\ Head(t) = t[1]
  BY <1>1, <1>2, EmptySeq, HeadTailProperties
<1> QED
  BY <1>2, <1>3, <1>4 DEF t

(* The innermost one.                                                      *)
LEMMA TopProperties ==
  ASSUME Given, Activations, calls # <<>>
  PROVE  /\ Top = calls[1] /\ Top \in CallRecords
         /\ IsPointer(Top.word) => Top.word \in Reached
         /\ Top.resumed => /\ IsPointer(Top.word)
                           /\ Top.word.tag \in ListTags /\ Top.word.cell \in firsts
<1>1. Top = calls[1] /\ Top \in CallRecords /\ 1 \in 1 .. Len(calls)
  BY TailWords DEF Activations, Top
<1>2. Top.resumed => Top.word.tag \in ListTags /\ Top.word.cell \in firsts
  BY <1>1 DEF Activations
<1>3. Top.word.tag \in ListTags => IsPointer(Top.word)
  BY DEF IsPointer, PointerTags
<1> QED
  BY <1>1, <1>2, <1>3 DEF Activations

(* The innermost one returns, or goes on with another word.                *)
LEMMA Replaced ==
  ASSUME Given, Activations, Distinct, calls # <<>>, firsts \subseteq firsts', Reached' = Reached,
         \/ calls' = Tail(calls)
         \/ /\ \E a \in CallRecords : /\ calls' = <<a>> \o Tail(calls)
                                      /\ ~ a.resumed /\ a.word \in Reached
            /\ Top.resumed \/ ~ Returns(Top)
  PROVE  /\ Activations' /\ Distinct'
         /\ \A c : Waiting(c) => Waiting(c)' \/ (Top.resumed /\ c = Top.word.cell)
<1> DEFINE s == Tail(calls)
           n == Len(calls)
<1>1. /\ s \in Seq(CallRecords) /\ n \in Nat \ {0} /\ Len(s) = n - 1 /\ Top = calls[1]
      /\ \A i \in 1 .. Len(s) : s[i] = calls[i + 1]
  BY TailWords DEF Activations, Top
<1>2. \A i \in 1 .. n :
        /\ IsPointer(calls[i].word) => calls[i].word \in Reached
        /\ i > 1 => calls[i].resumed
        /\ calls[i].resumed => calls[i].word.tag \in ListTags /\ calls[i].word.cell \in firsts
  BY DEF Activations
<1>3. \A i, j \in 1 .. n :
        (1 < i /\ i < j /\ calls[i].word.cell = calls[j].word.cell) =>
          i = 2 /\ ~ Top.resumed /\ Returns(Top)
  BY DEF Distinct
<1>4. CASE calls' = s
  <2>1. /\ Len(calls') = n - 1 /\ calls' \in Seq(CallRecords)
        /\ \A i \in 1 .. n - 1 : calls'[i] = calls[i + 1]
    BY <1>1, <1>4
  <2> HIDE DEF s, n
  <2>2. Activations'
    <3>1. ASSUME NEW i \in 1 .. n - 1
          PROVE  /\ IsPointer(calls'[i].word) => calls'[i].word \in Reached
                 /\ calls'[i].resumed
                 /\ calls'[i].word.tag \in ListTags /\ calls'[i].word.cell \in firsts'
      <4>1. i + 1 \in 1 .. n /\ i + 1 > 1 /\ calls'[i] = calls[i + 1]
        BY <1>1, <2>1
      <4> QED
        BY <1>2, <4>1
    <3> QED
      BY <2>1, <3>1 DEF Activations
  <2>3. ASSUME NEW i \in 1 .. n - 1, NEW j \in 1 .. n - 1, 1 < i, i < j,
               calls'[i].word.cell = calls'[j].word.cell
        PROVE  FALSE
    <3>1. i + 1 \in 1 .. n /\ j + 1 \in 1 .. n /\ 1 < i + 1 /\ i + 1 < j + 1 /\ i + 1 # 2
      BY <1>1, <2>3
    <3> QED
      BY <1>3, <2>1, <2>3, <3>1
  <2>4. Distinct'
    BY <2>1, <2>3 DEF Distinct
  <2>5. ASSUME NEW c, Waiting(c), c # Top.word.cell \/ ~ Top.resumed PROVE Waiting(c)'
    <3>1. PICK i \in 1 .. n : calls[i].resumed /\ calls[i].word.cell = c
      BY <2>5 DEF Waiting, n
    <3>2. i # 1
      BY <3>1, <1>1, <2>5
    <3>3. i - 1 \in 1 .. n - 1 /\ calls'[i - 1] = calls[i]
      BY <1>1, <2>1, <3>2
    <3> QED
      BY <2>1, <3>1, <3>3 DEF Waiting
  <2> QED
    BY <2>2, <2>4, <2>5
<1>5. CASE calls' # s
  <2>1. PICK a \in CallRecords : calls' = <<a>> \o s /\ ~ a.resumed /\ a.word \in Reached
    BY <1>5
  <2>2. /\ Len(calls') = n /\ calls' \in Seq(CallRecords) /\ calls'[1] = a
        /\ \A i \in 2 .. n : calls'[i] = s[i - 1]
    <3>1. /\ Len(<<a>> \o s) = Len(s) + 1 /\ <<a>> \o s \in Seq(CallRecords) /\ (<<a>> \o s)[1] = a
          /\ \A i \in 2 .. Len(s) + 1 : (<<a>> \o s)[i] = s[i - 1]
      BY <1>1, OneMore
    <3> HIDE DEF s, n
    <3> QED
      BY <1>1, <2>1, <3>1
  <2> HIDE DEF s, n
  <2>3. \A i \in 2 .. n : calls'[i] = calls[i]
    <3> TAKE i \in 2 .. n
    <3>1. i - 1 \in 1 .. Len(s) /\ (i - 1) + 1 = i
      BY <1>1
    <3> QED
      BY <1>1, <2>2, <3>1
  <2>4. Top.resumed \/ ~ Returns(Top)
    BY <1>5 DEF s
  <2>5. Activations'
    <3>1. ASSUME NEW i \in 1 .. n
          PROVE  /\ IsPointer(calls'[i].word) => calls'[i].word \in Reached
                 /\ i > 1 => calls'[i].resumed
                 /\ calls'[i].resumed =>
                      calls'[i].word.tag \in ListTags /\ calls'[i].word.cell \in firsts'
      <4>1. CASE i = 1
        BY <2>1, <2>2, <4>1
      <4>2. CASE i # 1
        <5>1. i \in 2 .. n /\ calls'[i] = calls[i]
          BY <1>1, <2>3, <4>2
        <5> QED
          BY <1>2, <5>1
      <4> QED
        BY <4>1, <4>2
    <3> QED
      BY <2>2, <3>1 DEF Activations
  <2>6. ASSUME NEW i \in 1 .. n, NEW j \in 1 .. n, 1 < i, i < j,
               calls'[i].word.cell = calls'[j].word.cell
        PROVE  FALSE
    <3>1. i \in 2 .. n /\ j \in 2 .. n
      BY <1>1, <2>6
    <3> QED
      BY <1>3, <2>3, <2>4, <2>6, <3>1
  <2>7. Distinct'
    BY <2>2, <2>6 DEF Distinct
  <2>8. ASSUME NEW c, Waiting(c), c # Top.word.cell \/ ~ Top.resumed PROVE Waiting(c)'
    <3>1. PICK i \in 1 .. n : calls[i].resumed /\ calls[i].word.cell = c
      BY <2>8 DEF Waiting, n
    <3>2. i # 1
      BY <3>1, <1>1, <2>8
    <3>3. i \in 2 .. n /\ calls'[i] = calls[i]
      BY <1>1, <2>3, <3>2
    <3> QED
      BY <2>2, <3>1, <3>3 DEF Waiting
  <2> QED
    BY <2>5, <2>7, <2>8
<1> QED
  BY <1>4, <1>5

(* The innermost one starts another for the first word of its list.        *)
LEMMA Pushed ==
  ASSUME Given, Activations, Distinct, calls # <<>>, ~ Top.resumed, ~ Returns(Top),
         Top.word.tag \in ListTags,
         firsts' = firsts \cup {Top.word.cell}, Reached' = Reached,
         NEW a \in CallRecords, NEW b \in CallRecords,
         calls' = <<a, b>> \o Tail(calls), ~ a.resumed, IsPointer(a.word) => a.word \in Reached,
         Top.word.cell \in firsts => a.seen, b.resumed, b.word = Top.word
  PROVE  Activations' /\ Distinct' /\ \A c : Waiting(c) => Waiting(c)'
<1> DEFINE s == Tail(calls)
           n == Len(calls)
<1>1. /\ s \in Seq(CallRecords) /\ n \in Nat \ {0} /\ Len(s) = n - 1 /\ Top = calls[1]
      /\ \A i \in 1 .. Len(s) : s[i] = calls[i + 1]
  BY TailWords DEF Activations, Top
<1>2. \A i \in 1 .. n :
        /\ IsPointer(calls[i].word) => calls[i].word \in Reached
        /\ i > 1 => calls[i].resumed
        /\ calls[i].resumed => calls[i].word.tag \in ListTags /\ calls[i].word.cell \in firsts
  BY DEF Activations
<1>3. \A i, j \in 1 .. n :
        (1 < i /\ i < j) => calls[i].word.cell # calls[j].word.cell
  BY DEF Distinct
<1>4. /\ Len(calls') = n + 1 /\ calls' \in Seq(CallRecords) /\ calls'[1] = a /\ calls'[2] = b
      /\ Head(calls') = a
      /\ \A i \in 3 .. n + 1 : calls'[i] = s[i - 2]
  <2>1. /\ Len(<<a, b>> \o s) = Len(s) + 2 /\ <<a, b>> \o s \in Seq(CallRecords)
        /\ (<<a, b>> \o s)[1] = a /\ (<<a, b>> \o s)[2] = b /\ Head(<<a, b>> \o s) = a
        /\ \A i \in 3 .. Len(s) + 2 : (<<a, b>> \o s)[i] = s[i - 2]
    BY <1>1, TwoMore
  <2> HIDE DEF s, n
  <2> QED
    BY <1>1, <2>1 DEF s
<1> HIDE DEF s, n
<1>5. \A k \in 2 .. n : \A j : j = k + 1 => calls'[j] = calls[k]
  <2> SUFFICES ASSUME NEW k \in 2 .. n PROVE calls'[k + 1] = calls[k]
    OBVIOUS
  <2>1. k + 1 \in 3 .. n + 1 /\ (k + 1) - 2 = k - 1 /\ k - 1 \in 1 .. Len(s) /\ (k - 1) + 1 = k
    BY <1>1
  <2> QED
    BY <1>1, <1>4, <2>1
<1>6. IsPointer(Top.word) /\ Top.word \in Reached
  BY <1>1, <1>2 DEF Returns
<1>7. Activations'
  <2>1. ASSUME NEW i \in 1 .. n + 1
        PROVE  /\ IsPointer(calls'[i].word) => calls'[i].word \in Reached
               /\ i > 1 => calls'[i].resumed
               /\ calls'[i].resumed =>
                    calls'[i].word.tag \in ListTags /\ calls'[i].word.cell \in firsts'
    <3>1. CASE i = 1
      BY <1>4, <3>1
    <3>2. CASE i = 2
      BY <1>4, <1>6, <3>2
    <3>3. CASE i # 1 /\ i # 2
      <4>1. PICK k \in 2 .. n : i = k + 1
        BY <1>1, <3>3
      <4>2. calls'[i] = calls[k]
        BY <1>5, <4>1
      <4>3. k \in 1 .. n /\ k > 1
        BY <1>1
      <4> QED
        BY <1>2, <4>2, <4>3
    <3> QED
      BY <3>1, <3>2, <3>3
  <2> QED
    BY <1>4, <2>1 DEF Activations
<1>8. ASSUME NEW i \in 1 .. n + 1, NEW j \in 1 .. n + 1, 1 < i, i < j,
             calls'[i].word.cell = calls'[j].word.cell
      PROVE  i = 2 /\ ~ a.resumed /\ Returns(a)
  <2>1. PICK l \in 2 .. n : j = l + 1
    BY <1>1, <1>8
  <2>2. calls'[j] = calls[l]
    BY <1>5, <2>1
  <2>3. l \in 1 .. n /\ l > 1
    BY <1>1
  <2>4. i = 2
    <3> SUFFICES ASSUME i # 2 PROVE FALSE
      OBVIOUS
    <3>1. PICK k \in 2 .. n : i = k + 1
      BY <1>1, <1>8
    <3>2. calls'[i] = calls[k]
      BY <1>5, <3>1
    <3>3. k \in 1 .. n /\ 1 < k /\ k < l
      BY <1>1, <1>8, <2>1, <3>1
    <3> QED
      BY <1>3, <1>8, <2>2, <2>3, <3>2, <3>3
  <2>5. Top.word.cell = calls[l].word.cell
    BY <1>4, <1>8, <2>2, <2>4
  <2>6. calls[l].word.cell \in firsts
    BY <1>2, <2>3
  <2> QED
    BY <2>4, <2>5, <2>6 DEF Returns
<1>9. Distinct'
  BY <1>4, <1>8 DEF Distinct, Top
<1>10. ASSUME NEW c, Waiting(c) PROVE Waiting(c)'
  <2>1. PICK i \in 1 .. n : calls[i].resumed /\ calls[i].word.cell = c
    BY <1>10 DEF Waiting, n
  <2>2. i # 1
    BY <2>1, <1>1
  <2>3. PICK j \in 1 .. n + 1 : j = i + 1
    BY <1>1
  <2>4. calls'[j] = calls[i]
    <3>1. i \in 2 .. n
      BY <1>1, <2>2
    <3> QED
      BY <1>5, <2>3, <3>1
  <2>5. 1 .. n + 1 = 1 .. Len(calls')
    BY <1>4
  <2> QED
    BY <2>1, <2>3, <2>4, <2>5 DEF Waiting
<1> QED
  BY <1>7, <1>9, <1>10

(* Whatever mns_ does next, what has been followed stays so.               *)
LEMMA StaysFollowed ==
  ASSUME firsts \subseteq firsts',
         \/ calls = <<>>
         \/ Top.resumed
         \/ Returns(Top)
         \/ Top.word.cell \in firsts',
         NEW w, Followed(w)
  PROVE  Followed(w)'
  BY DEF Followed, Pending, Returns

(* A step of mns_ keeps the marks complete when it does so for the words   *)
(* it marks.                                                               *)
LEMMA StaysComplete ==
  ASSUME Complete, before' = before, Reached' = Reached,
         firsts \subseteq firsts', seconds \subseteq seconds',
         \A v : Followed(v) => Followed(v)',
         \A c : Waiting(c) => Waiting(c)' \/ c \in seconds',
         \A p \in Reached :
           p.cell \in firsts' /\ p.cell \notin firsts =>
             /\ p.tag # "proc" => Followed(before.car[p.cell])'
             /\ p.tag = "proc" => p.cell \in seconds'
             /\ p.tag \in ListTags => p.cell \in seconds' \/ Waiting(p.cell)',
         \A p \in Reached :
           p.cell \in seconds' /\ p.cell \notin seconds /\ p.tag \notin BoxLikeTags =>
             Followed(before.cdr[p.cell])'
  PROVE  Complete'
<1>1. ASSUME NEW p \in Reached, p.cell \in firsts'
      PROVE  /\ p.tag # "proc" => Followed(before.car[p.cell])'
             /\ p.tag = "proc" => p.cell \in seconds'
             /\ p.tag \in ListTags => p.cell \in seconds' \/ Waiting(p.cell)'
  <2>1. CASE p.cell \in firsts
    <3>1. /\ p.tag # "proc" => Followed(before.car[p.cell])
          /\ p.tag = "proc" => p.cell \in seconds
          /\ p.tag \in ListTags => p.cell \in seconds \/ Waiting(p.cell)
      BY <2>1 DEF Complete
    <3> QED
      BY <3>1
  <2>2. CASE p.cell \notin firsts
    BY <1>1, <2>2
  <2> QED
    BY <2>1, <2>2
<1>2. ASSUME NEW p \in Reached, p.cell \in seconds', p.tag \notin BoxLikeTags
      PROVE  Followed(before.cdr[p.cell])'
  <2>1. CASE p.cell \in seconds
    <3>1. Followed(before.cdr[p.cell])
      BY <1>2, <2>1 DEF Complete
    <3> QED
      BY <3>1
  <2>2. CASE p.cell \notin seconds
    BY <1>2, <2>2
  <2> QED
    BY <2>1, <2>2
<1> QED
  BY <1>1, <1>2 DEF Complete

(* The record of an activation whose word was marked, or not.              *)
LEMMA CallMade ==
  ASSUME NEW w \in Words, NEW c, NEW marks
  PROVE  LET a == [Call(w) EXCEPT !.seen = c \in marks]
         IN  /\ a \in CallRecords /\ a.word = w /\ ~ a.resumed
             /\ (c \in marks => a.seen) /\ (a.seen => c \in marks)
<1> DEFINE a == [Call(w) EXCEPT !.seen = c \in marks]
<1>1. ASSUME c \in marks PROVE a = [word |-> w, seen |-> TRUE, resumed |-> FALSE]
  <2>1. (c \in marks) = TRUE
    BY <1>1
  <2>2. a = [Call(w) EXCEPT !.seen = TRUE]
    BY <2>1, Zenon
  <2> HIDE DEF a
  <2> QED
    BY <2>2 DEF Call
<1>2. ASSUME c \notin marks PROVE a = [word |-> w, seen |-> FALSE, resumed |-> FALSE]
  <2>1. (c \in marks) = FALSE
    BY <1>2
  <2>2. a = [Call(w) EXCEPT !.seen = FALSE]
    BY <2>1, Zenon
  <2> HIDE DEF a
  <2> QED
    BY <2>2 DEF Call
<1> HIDE DEF a
<1>3. /\ a \in CallRecords /\ a.word = w /\ ~ a.resumed
      /\ (c \in marks => a.seen) /\ (a.seen => c \in marks)
  <2>1. CASE c \in marks
    <3>1. a = [word |-> w, seen |-> TRUE, resumed |-> FALSE]
      BY <1>1, <2>1
    <3> QED
      BY <2>1, <3>1 DEF CallRecords
  <2>2. CASE c \notin marks
    <3>1. a = [word |-> w, seen |-> FALSE, resumed |-> FALSE]
      BY <1>2, <2>2
    <3> QED
      BY <2>2, <3>1 DEF CallRecords
  <2> QED
    BY <2>1, <2>2
<1> QED
  BY <1>3 DEF a

(* A word mns_ goes on from is followed, unless its mark says it was.      *)
LEMMA GoneOn ==
  ASSUME Activations, calls # <<>>, NEW w \in Words, NEW c, NEW marks, GoOn(w, c \in marks),
         IsPointer(w) => w \in Reached
  PROVE  /\ \/ calls' = Tail(calls)
            \/ \E a \in CallRecords : /\ calls' = <<a>> \o Tail(calls)
                                      /\ ~ a.resumed /\ a.word \in Reached
         /\ c \notin marks => Followed(w)'
<1>1. CASE ~ IsPointer(w)
  BY <1>1 DEF GoOn, Followed
<1>2. CASE IsPointer(w)
  <2> DEFINE a == [Call(w) EXCEPT !.seen = c \in marks]
  <2>1. calls' = <<a>> \o Tail(calls)
    BY <1>2 DEF GoOn
  <2>2. /\ a \in CallRecords /\ a.word = w /\ ~ a.resumed
        /\ (c \in marks => a.seen) /\ (a.seen => c \in marks)
    BY CallMade
  <2> HIDE DEF a
  <2>3. Head(calls') = a /\ calls' # <<>>
    BY <2>1, <2>2, OneMore, TailWords DEF Activations
  <2> QED
    BY <1>2, <2>1, <2>2, <2>3 DEF Followed, Pending, Top
<1> QED
  BY <1>1, <1>2

(* A cell is reached under one tag.                                        *)
LEMMA OneTag ==
  ASSUME Given, NEW p \in Reached, NEW q \in Reached, p.cell = q.cell
  PROVE  p = q
<1>1. /\ p \in Words /\ IsPointer(p) /\ p \in Present(before.car, before.cdr, Roots)
      /\ q \in Words /\ IsPointer(q) /\ q \in Present(before.car, before.cdr, Roots)
  BY ReachedProperties
<1>2. p \in Pointers /\ q \in Pointers
  BY <1>1, PointerWord
<1>3. p.tag = q.tag
  BY <1>1 DEF Given
<1> QED
  BY <1>2, <1>3 DEF Pointers

(* The roots that have been read stay followed.                            *)
LEMMA StaysRead ==
  ASSUME RootsRead, UNCHANGED <<phase, next, glbl, stack>>, \A v : Followed(v) => Followed(v)'
  PROVE  RootsRead'
<1>1. phase' = phase /\ next' = next /\ stack' = stack
  OBVIOUS
<1>2. ASSUME NEW k, Followed(GlobalWord(k)) PROVE Followed(GlobalWord(k))'
  <2>1. GlobalWord(k)' = GlobalWord(k)
    BY DEF GlobalWord
  <2>2. \A v : Followed(v) => Followed(v)'
    OBVIOUS
  <2> QED
    BY <1>2, <2>1, <2>2 DEF Followed
<1>3. ASSUME NEW i, Followed(stack[i]) PROVE Followed(stack[i])'
  BY <1>3 DEF Followed
<1>4. CASE phase = "globals"
  <2>1. next \in 1 .. (NGlobals + 1) /\ \A k \in 1 .. (next - 1) : Followed(GlobalWord(k))
    BY <1>4 DEF RootsRead
  <2> QED
    BY <1>1, <1>2, <1>4, <2>1 DEF RootsRead
<1>5. CASE phase = "stack"
  <2>1. /\ next \in 1 .. (Len(stack) + 1)
        /\ \A k \in 1 .. NGlobals : Followed(GlobalWord(k))
        /\ \A i \in 1 .. (next - 1) : Followed(stack[i])
        /\ next <= Len(stack) => stack[next] # Return
    BY <1>5 DEF RootsRead
  <2> QED
    BY <1>1, <1>2, <1>3, <1>5, <2>1 DEF RootsRead
<1>6. CASE phase \notin {"globals", "stack"}
  BY <1>1, <1>6 DEF RootsRead
<1> QED
  BY <1>4, <1>5, <1>6

-----------------------------------------------------------------------------
(* The steps of mns_.                                                      *)

(* Where they are taken.                                                   *)
LEMMA WhileMarking ==
  ASSUME CollectorInv, calls # <<>>
  PROVE  /\ phase \in {"globals", "stack"} /\ Given
         /\ car = before.car /\ cdr = before.cdr /\ free = Limit
         /\ Activations /\ Distinct /\ Sound /\ Complete /\ RootsRead
  BY DEF CollectorInv, Marking, Sweeping

(* What they have to keep.                                                 *)
LEMMA MarkingStays ==
  ASSUME CollectorInv, calls # <<>>,
         UNCHANGED <<car, cdr, free, glbl, stack, phase, next, before>>,
         Activations', Distinct', Sound', Complete', \A v : Followed(v) => Followed(v)'
  PROVE  CollectorInv'
<1>1. RootsRead'
  BY WhileMarking, StaysRead
<1>2. Given'
  BY SameGiven DEF CollectorInv
<1> QED
  BY <1>1, <1>2, WhileMarking DEF CollectorInv, Marking, Sweeping

LEMMA LeaveStep ==
  ASSUME CollectorInv, Leave
  PROVE  CollectorInv'
<1>1. /\ phase \in {"globals", "stack"} /\ Given
      /\ Activations /\ Distinct /\ Sound /\ Complete /\ calls # <<>>
  BY WhileMarking DEF Leave
<1>2. /\ calls' = Tail(calls) /\ Returns(Top) /\ ~ Top.resumed
      /\ UNCHANGED <<car, cdr, firsts, seconds, free, glbl, stack, phase, next, before>>
  BY DEF Leave
<1>3. Reached' = Reached /\ Live' = Live
  BY <1>2, SameGiven
<1>4. \A v : Followed(v) => Followed(v)'
  BY <1>2, StaysFollowed
<1>5. Activations' /\ Distinct' /\ \A c : Waiting(c) => Waiting(c)'
  BY <1>1, <1>2, <1>3, Replaced
<1>6. Sound'
  BY <1>1, <1>2, <1>3 DEF Sound
<1>7. Complete'
  BY <1>1, <1>2, <1>3, <1>4, <1>5, StaysComplete
<1> QED
  BY <1>1, <1>2, <1>4, <1>5, <1>6, <1>7, MarkingStays

LEMMA MarkBoxStep ==
  ASSUME CollectorInv, MarkBox
  PROVE  CollectorInv'
<1>0. PICK c, w : c = Top.word.cell /\ w = before.car[c]
  OBVIOUS
<1>1. /\ phase \in {"globals", "stack"} /\ Given /\ car = before.car
      /\ Activations /\ Distinct /\ Sound /\ Complete /\ calls # <<>>
  BY WhileMarking DEF MarkBox
<1>2. /\ ~ Top.resumed /\ ~ Returns(Top) /\ Top.word.tag \in BoxLikeTags
      /\ firsts' = firsts \cup {c} /\ seconds' = seconds /\ GoOn(w, c \in firsts)
      /\ UNCHANGED <<car, cdr, free, glbl, stack, phase, next, before>>
  BY <1>0, <1>1 DEF MarkBox
<1>3. Reached' = Reached /\ Live' = Live
  BY <1>2, SameGiven
<1>4. Top.word \in Reached
  BY <1>1, <1>2, TopProperties DEF Returns
<1>5. c \in Live /\ w \in Words /\ (IsPointer(w) => w \in Reached)
  <2>1. Top.word.tag # "proc"
    BY <1>2 DEF BoxLikeTags
  <2> QED
    BY <1>0, <1>1, <1>4, <2>1, ReachedProperties
<1>6. /\ \/ calls' = Tail(calls)
         \/ \E a \in CallRecords : /\ calls' = <<a>> \o Tail(calls)
                                   /\ ~ a.resumed /\ a.word \in Reached
      /\ c \notin firsts => Followed(w)'
  BY <1>1, <1>2, <1>5, GoneOn
<1>7. Activations' /\ Distinct' /\ \A x : Waiting(x) => Waiting(x)'
  BY <1>1, <1>2, <1>3, <1>6, Replaced
<1>8. \A v : Followed(v) => Followed(v)'
  BY <1>0, <1>2, StaysFollowed
<1>9. Sound'
  BY <1>1, <1>2, <1>3, <1>5 DEF Sound
<1>10. ASSUME NEW p \in Reached, p.cell \in firsts', p.cell \notin firsts
       PROVE  p.tag # "proc" /\ p.tag \notin ListTags /\ Followed(before.car[p.cell])'
  <2>1. p = Top.word /\ p.cell = c
    BY <1>0, <1>1, <1>2, <1>4, <1>10, OneTag
  <2>2. Followed(w)' /\ before' = before
    BY <1>2, <1>6, <1>10, <2>1
  <2>3. Followed(before.car[p.cell])'
    BY <1>0, <2>1, <2>2 DEF Followed
  <2> QED
    BY <1>2, <2>1, <2>3 DEF BoxLikeTags, ListTags
<1>11. Complete'
  BY <1>1, <1>2, <1>3, <1>7, <1>8, <1>10, StaysComplete
<1> QED
  BY <1>1, <1>2, <1>7, <1>8, <1>9, <1>11, MarkingStays

LEMMA MarkProcedureStep ==
  ASSUME CollectorInv, MarkProcedure
  PROVE  CollectorInv'
<1>0. PICK c, w : c = Top.word.cell /\ w = before.cdr[c]
  OBVIOUS
<1>1. /\ phase \in {"globals", "stack"} /\ Given /\ cdr = before.cdr
      /\ Activations /\ Distinct /\ Sound /\ Complete /\ calls # <<>>
  BY WhileMarking DEF MarkProcedure
<1>2. /\ ~ Top.resumed /\ ~ Returns(Top) /\ Top.word.tag = "proc"
      /\ firsts' = firsts \cup {c} /\ seconds' = seconds \cup {c} /\ GoOn(w, c \in seconds)
      /\ UNCHANGED <<car, cdr, free, glbl, stack, phase, next, before>>
  BY <1>0, <1>1 DEF MarkProcedure, FollowEnvironment
<1>3. Reached' = Reached /\ Live' = Live
  BY <1>2, SameGiven
<1>4. Top.word \in Reached
  BY <1>1, <1>2, TopProperties DEF Returns
<1>5. c \in Live /\ w \in Words /\ (IsPointer(w) => w \in Reached)
  <2>1. Top.word.tag \notin BoxLikeTags
    BY <1>2 DEF BoxLikeTags
  <2> QED
    BY <1>0, <1>1, <1>4, <2>1, ReachedProperties
<1>6. /\ \/ calls' = Tail(calls)
         \/ \E a \in CallRecords : /\ calls' = <<a>> \o Tail(calls)
                                   /\ ~ a.resumed /\ a.word \in Reached
      /\ c \notin seconds => Followed(w)'
  BY <1>1, <1>2, <1>5, GoneOn
<1>7. Activations' /\ Distinct' /\ \A x : Waiting(x) => Waiting(x)'
  BY <1>1, <1>2, <1>3, <1>6, Replaced
<1>8. \A v : Followed(v) => Followed(v)'
  BY <1>0, <1>2, StaysFollowed
<1>9. Sound'
  BY <1>1, <1>2, <1>3, <1>5 DEF Sound
<1>10. ASSUME NEW p \in Reached, p.cell \in firsts', p.cell \notin firsts
       PROVE  p.tag = "proc" /\ p.tag \notin ListTags /\ p.cell \in seconds'
  <2>1. p = Top.word /\ p.cell = c
    BY <1>0, <1>1, <1>2, <1>4, <1>10, OneTag
  <2> QED
    BY <1>2, <2>1 DEF ListTags
<1>11. ASSUME NEW p \in Reached, p.cell \in seconds', p.cell \notin seconds
       PROVE  Followed(before.cdr[p.cell])'
  <2>1. p.cell = c
    BY <1>2, <1>11
  <2>2. Followed(w)' /\ before' = before
    BY <1>2, <1>6, <1>11, <2>1
  <2> QED
    BY <1>0, <2>1, <2>2 DEF Followed
<1>12. Complete'
  BY <1>1, <1>2, <1>3, <1>7, <1>8, <1>10, <1>11, StaysComplete
<1> QED
  BY <1>1, <1>2, <1>7, <1>8, <1>9, <1>12, MarkingStays

LEMMA MarkLeftStep ==
  ASSUME CollectorInv, MarkLeft
  PROVE  CollectorInv'
<1>0. PICK c, w : c = Top.word.cell /\ w = before.car[c]
  OBVIOUS
<1>1. /\ phase \in {"globals", "stack"} /\ Given /\ car = before.car
      /\ Activations /\ Distinct /\ Sound /\ Complete /\ calls # <<>>
  BY WhileMarking DEF MarkLeft
<1>2. /\ ~ Top.resumed /\ ~ Returns(Top) /\ Top.word.tag \in ListTags
      /\ firsts' = firsts \cup {c} /\ seconds' = seconds
      /\ UNCHANGED <<car, cdr, free, glbl, stack, phase, next, before>>
  BY <1>0, <1>1 DEF MarkLeft
<1>3. Reached' = Reached /\ Live' = Live
  BY <1>2, SameGiven
<1>4. Top.word \in Reached /\ Top \in CallRecords
  BY <1>1, <1>2, TopProperties DEF Returns
<1>5. c \in Live /\ w \in Words /\ (IsPointer(w) => w \in Reached)
  <2>1. Top.word.tag # "proc"
    BY <1>2 DEF ListTags
  <2> QED
    BY <1>0, <1>1, <1>4, <2>1, ReachedProperties
<1>6. PICK a \in CallRecords, b \in CallRecords :
        /\ calls' = <<a, b>> \o Tail(calls)
        /\ a.word = w /\ (c \in firsts => a.seen) /\ (a.seen => c \in firsts) /\ ~ a.resumed
        /\ b.word = Top.word /\ b.resumed
  <2> DEFINE a == [Call(w) EXCEPT !.seen = c \in firsts]
             b == [Top EXCEPT !.resumed = TRUE]
  <2>1. b \in CallRecords /\ b.word = Top.word /\ b.resumed
    BY <1>4 DEF CallRecords
  <2>2. /\ a \in CallRecords /\ a.word = w /\ ~ a.resumed
        /\ (c \in firsts => a.seen) /\ (a.seen => c \in firsts)
    BY <1>5, CallMade
  <2>3. calls' = <<a, b>> \o Tail(calls)
    BY <1>0, <1>1 DEF MarkLeft
  <2> HIDE DEF a, b
  <2> QED
    BY <2>1, <2>2, <2>3
<1>7. Activations' /\ Distinct' /\ \A x : Waiting(x) => Waiting(x)'
  <2>1. (Top.word.cell \in firsts => a.seen) /\ firsts' = firsts \cup {Top.word.cell}
    BY <1>0, <1>2, <1>6
  <2> QED
    BY <1>1, <1>2, <1>3, <1>5, <1>6, <2>1, Pushed
<1>8. \A v : Followed(v) => Followed(v)'
  BY <1>0, <1>2, StaysFollowed
<1>9. Sound'
  BY <1>1, <1>2, <1>3, <1>5 DEF Sound
<1>10. Top' = a /\ calls' # <<>> /\ Len(calls') \in Nat /\ 2 \in 1 .. Len(calls') /\ calls'[2] = b
  <2>1. Tail(calls) \in Seq(CallRecords)
    BY <1>1, TailWords DEF Activations
  <2> QED
    BY <1>6, <2>1, TwoMore, LenProperties DEF Top
<1>11. ASSUME NEW p \in Reached, p.cell \in firsts', p.cell \notin firsts
       PROVE  p.tag # "proc" /\ Waiting(p.cell)' /\ Followed(before.car[p.cell])'
  <2>1. p = Top.word /\ p.cell = c
    BY <1>0, <1>1, <1>2, <1>4, <1>11, OneTag
  <2>2. Followed(w)' /\ before' = before
    BY <1>2, <1>6, <1>10, <1>11, <2>1 DEF Followed, Pending
  <2>3. Followed(before.car[p.cell])'
    BY <1>0, <2>1, <2>2 DEF Followed
  <2>4. Waiting(p.cell)'
    BY <1>0, <1>6, <1>10, <2>1 DEF Waiting
  <2> QED
    BY <1>2, <2>1, <2>3, <2>4 DEF ListTags
<1>12. Complete'
  BY <1>1, <1>2, <1>3, <1>7, <1>8, <1>11, StaysComplete
<1> QED
  BY <1>1, <1>2, <1>7, <1>8, <1>9, <1>12, MarkingStays

LEMMA MarkRightStep ==
  ASSUME CollectorInv, MarkRight
  PROVE  CollectorInv'
<1>0. PICK c, w : c = Top.word.cell /\ w = before.cdr[c]
  OBVIOUS
<1>1. /\ phase \in {"globals", "stack"} /\ Given /\ cdr = before.cdr
      /\ Activations /\ Distinct /\ Sound /\ Complete /\ calls # <<>>
  BY WhileMarking DEF MarkRight
<1>2. /\ Top.resumed /\ firsts' = firsts /\ seconds' = seconds \cup {c} /\ GoOn(w, c \in seconds)
      /\ UNCHANGED <<car, cdr, free, glbl, stack, phase, next, before>>
  BY <1>0, <1>1 DEF MarkRight
<1>3. Reached' = Reached /\ Live' = Live
  BY <1>2, SameGiven
<1>4. Top.word \in Reached /\ Top.word.tag \in ListTags
  BY <1>1, <1>2, TopProperties
<1>5. c \in Live /\ w \in Words /\ (IsPointer(w) => w \in Reached)
  <2>1. Top.word.tag \notin BoxLikeTags
    BY <1>4 DEF BoxLikeTags, ListTags
  <2> QED
    BY <1>0, <1>1, <1>4, <2>1, ReachedProperties
<1>6. /\ \/ calls' = Tail(calls)
         \/ \E a \in CallRecords : /\ calls' = <<a>> \o Tail(calls)
                                   /\ ~ a.resumed /\ a.word \in Reached
      /\ c \notin seconds => Followed(w)'
  BY <1>1, <1>2, <1>5, GoneOn
<1>7. Activations' /\ Distinct' /\ \A x : Waiting(x) => Waiting(x)' \/ x \in seconds'
  <2>1. /\ Activations' /\ Distinct'
        /\ \A x : Waiting(x) => Waiting(x)' \/ (Top.resumed /\ x = Top.word.cell)
    BY <1>1, <1>2, <1>3, <1>6, Replaced
  <2> QED
    BY <1>0, <1>2, <2>1
<1>8. \A v : Followed(v) => Followed(v)'
  BY <1>0, <1>2, StaysFollowed
<1>9. Sound'
  BY <1>1, <1>2, <1>3, <1>5 DEF Sound
<1>10. ASSUME NEW p \in Reached, p.cell \in seconds', p.cell \notin seconds
       PROVE  Followed(before.cdr[p.cell])'
  <2>1. p.cell = c
    BY <1>2, <1>10
  <2>2. Followed(w)' /\ before' = before
    BY <1>2, <1>6, <1>10, <2>1
  <2> QED
    BY <1>0, <2>1, <2>2 DEF Followed
<1>11. Complete'
  BY <1>1, <1>2, <1>3, <1>7, <1>8, <1>10, StaysComplete
<1> QED
  BY <1>1, <1>2, <1>7, <1>8, <1>9, <1>11, MarkingStays

-----------------------------------------------------------------------------
(* The walks over the roots.                                               *)

(* The words of the global segment that are read, and the globals.         *)
LEMMA GlobalRoots ==
  ASSUME Given
  PROVE  /\ \A k \in 1 .. NGlobals :
              GlobalWord(k) \in Words /\ (IsPointer(GlobalWord(k)) => GlobalWord(k) \in Reached)
         /\ \A g \in Globals : 2 * (g - 1) < NGlobals =>
              \E k \in 1 .. NGlobals : GlobalWord(k) = glbl[g]
<1>1. NGlobals \in Nat /\ \A g \in Globals : glbl[g] \in Words
  BY CollectorAssumption DEF Given
<1>2. ASSUME NEW k \in 1 .. NGlobals
      PROVE  GlobalWord(k) \in Words /\ (IsPointer(GlobalWord(k)) => GlobalWord(k) \in Reached)
  <2>1. CASE k % 2 = 1
    <3>1. PICK g \in Globals : g = (k + 1) \div 2 /\ 2 * (g - 1) < NGlobals
      BY <1>1, <2>1 DEF Globals
    <3>2. GlobalWord(k) = glbl[g]
      BY <2>1, <3>1 DEF GlobalWord
    <3>3. glbl[g] \in Roots
      BY <3>1 DEF Roots
    <3> QED
      BY <1>1, <3>2, <3>3, ReachRoots DEF Reached
  <2>2. CASE k % 2 # 1
    BY <2>2, MarkerWords DEF GlobalWord
  <2> QED
    BY <2>1, <2>2
<1>3. ASSUME NEW g \in Globals, 2 * (g - 1) < NGlobals
      PROVE  \E k \in 1 .. NGlobals : GlobalWord(k) = glbl[g]
  <2>1. PICK k \in 1 .. NGlobals : k = 2 * g - 1
    BY <1>1, <1>3 DEF Globals
  <2>2. k % 2 = 1 /\ (k + 1) \div 2 = g
    BY <2>1 DEF Globals
  <2> QED
    BY <2>2 DEF GlobalWord
<1> QED
  BY <1>2, <1>3

(* The words of the stack.                                                 *)
LEMMA StackRoots ==
  ASSUME Given, NEW i \in 1 .. Len(stack)
  PROVE  /\ stack[i] \in Words \/ stack[i] = Marker \/ stack[i] = Return
         /\ IsPointer(stack[i]) => stack[i] \in Reached /\ stack[i] \in Words
         /\ stack[i] \in Roots \/ stack[i] = Marker \/ stack[i] = Return
<1>1. stack[i] \in StackWords /\ i \in DOMAIN stack
  BY ElementOfSeq, LenProperties DEF Given
<1>2. stack[i] \in Roots \/ stack[i] = Marker \/ stack[i] = Return
  BY <1>1 DEF Roots
<1> QED
  BY <1>1, <1>2, MarkerWords, ReachRoots DEF StackWords, Reached

(* mns_ is given a root while no other activation is there.                *)
LEMMA RootGiven ==
  ASSUME CollectorInv, phase \in {"globals", "stack"}, calls = <<>>,
         UNCHANGED <<car, cdr, firsts, seconds, free, glbl, stack, before>>,
         NEW w, IsPointer(w) => w \in Reached /\ w \in Words, calls' = Activation(w)
  PROVE  /\ Given' /\ Activations' /\ Distinct' /\ Sound' /\ Complete'
         /\ \A v : Followed(v) => Followed(v)'
         /\ Followed(w)'
<1>1. Given /\ Activations /\ Sound /\ Complete
  BY DEF CollectorInv, Marking
<1>2. Reached' = Reached /\ Live' = Live /\ (Given' <=> Given)
  BY SameGiven
<1>3. \A v : Followed(v) => Followed(v)'
  BY StaysFollowed
<1>4. ~ \E c : Waiting(c)
  BY EmptySeq DEF Waiting
<1>5. Complete'
  BY <1>1, <1>2, <1>3, <1>4, StaysComplete
<1>6. Sound'
  BY <1>1, <1>2 DEF Sound
<1>7. Activations' /\ Distinct' /\ Followed(w)'
  <2>1. CASE ~ IsPointer(w)
    <3>1. calls' = <<>>
      BY <2>1 DEF Activation
    <3>2. Len(calls') = 0 /\ calls' \in Seq(CallRecords)
      BY <3>1, EmptySeq
    <3> QED
      BY <2>1, <3>2 DEF Activations, Distinct, Followed
  <2>2. CASE IsPointer(w)
    <3>1. calls' = <<Call(w)>>
      BY <2>2 DEF Activation
    <3>2. Call(w) \in CallRecords /\ Call(w).word = w /\ ~ Call(w).seen /\ ~ Call(w).resumed
      BY <2>2 DEF Call, CallRecords
    <3> DEFINE a == Call(w)
    <3> HIDE DEF a
    <3>3. /\ <<a>> \in Seq(CallRecords) /\ Len(<<a>>) = 1 /\ <<a>>[1] = a
          /\ <<a>> # <<>> /\ Head(<<a>>) = a
      BY <3>2 DEF a
    <3>4. calls' \in Seq(CallRecords) /\ Len(calls') = 1 /\ calls'[1] = a
          /\ calls' # <<>> /\ Head(calls') = a
      BY <3>1, <3>3 DEF a
    <3>5. a.word = w /\ ~ a.seen /\ ~ a.resumed
      BY <3>2 DEF a
    <3> QED
      BY <1>2, <2>2, <3>4, <3>5 DEF Activations, Distinct, Followed, Pending, Top
  <2> QED
    BY <2>1, <2>2
<1> QED
  BY <1>1, <1>2, <1>3, <1>5, <1>6, <1>7

LEMMA ReadGlobalStep ==
  ASSUME CollectorInv, ReadGlobal
  PROVE  CollectorInv'
<1>0. PICK w : w = GlobalWord(next)
  OBVIOUS
<1>1. /\ phase = "globals" /\ calls = <<>> /\ next <= NGlobals
      /\ calls' = Activation(w) /\ next' = next + 1
      /\ UNCHANGED <<car, cdr, firsts, seconds, free, glbl, stack, phase, before>>
  BY <1>0 DEF ReadGlobal
<1>2. /\ Given /\ car = before.car /\ cdr = before.cdr /\ free = Limit
      /\ next \in 1 .. (NGlobals + 1) /\ NGlobals \in Nat
      /\ \A k \in 1 .. (next - 1) : Followed(GlobalWord(k))
  BY <1>1, CollectorAssumption DEF CollectorInv, Marking, RootsRead
<1>3. IsPointer(w) => w \in Reached /\ w \in Words
  BY <1>0, <1>1, <1>2, GlobalRoots
<1>4. /\ Given' /\ Activations' /\ Distinct' /\ Sound' /\ Complete'
      /\ \A v : Followed(v) => Followed(v)'
      /\ Followed(w)'
  BY <1>1, <1>3, RootGiven
<1>5. \A k : GlobalWord(k)' = GlobalWord(k)
  BY <1>1, SameGiven
<1>6. ASSUME NEW k \in 1 .. next PROVE Followed(GlobalWord(k))'
  <2>1. CASE k = next
    BY <1>0, <1>4, <1>5, <2>1 DEF Followed
  <2>2. CASE k # next
    <3>1. k \in 1 .. (next - 1)
      BY <1>2, <2>2
    <3>2. Followed(GlobalWord(k))
      BY <1>2, <3>1
    <3> QED
      BY <1>4, <1>5, <3>2 DEF Followed
  <2> QED
    BY <2>1, <2>2
<1>7. RootsRead'
  <2>1. next' \in 1 .. (NGlobals + 1) /\ next' - 1 = next
    BY <1>1, <1>2
  <2> QED
    BY <1>1, <1>6, <2>1 DEF RootsRead
<1> QED
  BY <1>1, <1>2, <1>4, <1>7 DEF CollectorInv, Marking, Sweeping

LEMMA EndGlobalsStep ==
  ASSUME CollectorInv, EndGlobals
  PROVE  CollectorInv'
<1>1. /\ phase = "globals" /\ calls = <<>> /\ next > NGlobals /\ phase' = "stack" /\ next' = 1
      /\ UNCHANGED <<car, cdr, firsts, seconds, free, glbl, stack, calls, before>>
  BY DEF EndGlobals
<1>2. /\ Given /\ car = before.car /\ cdr = before.cdr /\ free = Limit
      /\ Activations /\ Distinct /\ Sound /\ Complete
      /\ next \in 1 .. (NGlobals + 1) /\ NGlobals \in Nat
      /\ \A k \in 1 .. (next - 1) : Followed(GlobalWord(k))
  BY <1>1, CollectorAssumption DEF CollectorInv, Marking, RootsRead
<1>3. /\ Reached' = Reached /\ Live' = Live /\ Given' /\ \A k : GlobalWord(k)' = GlobalWord(k)
  BY <1>1, <1>2, SameGiven
<1>4. Activations' /\ Distinct' /\ Sound'
  BY <1>1, <1>2, <1>3 DEF Activations, Distinct, Sound, Top
<1>5. \A v : Followed(v) => Followed(v)'
  BY <1>1, StaysFollowed
<1>6. Complete'
  <2>1. \A c : Waiting(c) => Waiting(c)'
    BY <1>1 DEF Waiting
  <2> QED
    BY <1>1, <1>2, <1>3, <1>5, <2>1, StaysComplete
<1>7. \A k \in 1 .. NGlobals : Followed(GlobalWord(k))'
  <2> TAKE k \in 1 .. NGlobals
  <2>1. k \in 1 .. (next - 1)
    BY <1>1, <1>2
  <2>2. Followed(GlobalWord(k))
    BY <1>2, <2>1
  <2> QED
    BY <1>3, <1>5, <2>2 DEF Followed
<1>8. Len(stack) \in Nat /\ (1 <= Len(stack) => stack[1] # Return)
  <2>1. Len(stack) \in Nat
    BY <1>2, LenProperties DEF Given
  <2>2. 1 <= Len(stack) => 1 \in 1 .. Len(stack)
    BY <2>1
  <2> QED
    BY <1>2, <2>1, <2>2 DEF Given, Blocks
<1>9. RootsRead'
  BY <1>1, <1>7, <1>8 DEF RootsRead
<1> QED
  BY <1>1, <1>2, <1>3, <1>4, <1>6, <1>9 DEF CollectorInv, Marking, Sweeping

LEMMA ReadStackStep ==
  ASSUME CollectorInv, ReadStack
  PROVE  CollectorInv'
<1>0. PICK w : w = stack[next]
  OBVIOUS
<1>1. /\ phase = "stack" /\ calls = <<>> /\ next <= Len(stack)
      /\ calls' = Activation(w) /\ next' = next + Skip(w)
      /\ UNCHANGED <<car, cdr, firsts, seconds, free, glbl, stack, phase, before>>
  BY <1>0 DEF ReadStack
<1>2. /\ Given /\ car = before.car /\ cdr = before.cdr /\ free = Limit
      /\ next \in 1 .. (Len(stack) + 1) /\ NGlobals \in Nat
      /\ \A k \in 1 .. NGlobals : Followed(GlobalWord(k))
      /\ \A i \in 1 .. (next - 1) : Followed(stack[i])
      /\ w # Return
  BY <1>0, <1>1, CollectorAssumption DEF CollectorInv, Marking, RootsRead
<1>3. Len(stack) \in Nat /\ next \in 1 .. Len(stack) /\ Blocks(stack)
  <2>1. Len(stack) \in Nat
    BY <1>2, LenProperties DEF Given
  <2> QED
    BY <1>1, <1>2, <2>1 DEF Given
<1>4. IsPointer(w) => w \in Reached /\ w \in Words
  BY <1>0, <1>2, <1>3, StackRoots
<1>5. /\ Given' /\ Activations' /\ Distinct' /\ Sound' /\ Complete'
      /\ \A v : Followed(v) => Followed(v)'
      /\ Followed(w)'
  BY <1>1, <1>4, RootGiven
<1>6. \A k \in 1 .. NGlobals : Followed(GlobalWord(k))'
  <2> TAKE k \in 1 .. NGlobals
  <2>1. Followed(GlobalWord(k))
    BY <1>2
  <2>2. GlobalWord(k)' = GlobalWord(k)
    BY <1>1, SameGiven
  <2> QED
    BY <1>5, <2>1, <2>2 DEF Followed
<1>7. ASSUME NEW i \in 1 .. next PROVE Followed(stack[i])'
  <2>1. CASE i = next
    BY <1>0, <1>1, <1>5, <2>1 DEF Followed
  <2>2. CASE i # next
    <3>1. i \in 1 .. (next - 1)
      BY <1>2, <2>2
    <3>2. Followed(stack[i])
      BY <1>2, <3>1
    <3> QED
      BY <1>1, <1>5, <3>2 DEF Followed
  <2> QED
    BY <2>1, <2>2
<1>8. /\ next' \in 1 .. (Len(stack) + 1)
      /\ \A i \in 1 .. (next' - 1) : Followed(stack[i])'
      /\ next' <= Len(stack) => stack[next'] # Return
  <2>1. CASE w = Marker
    <3>1. next' = next + 2 /\ next < Len(stack)
      BY <1>0, <1>1, <1>3, <2>1 DEF Skip, Blocks
    <3>2. PICK m \in 1 .. Len(stack) : m = next + 1
      BY <1>3, <3>1
    <3>3. stack[m] = Return
      BY <1>0, <1>3, <2>1, <3>2 DEF Blocks
    <3>4. Followed(stack[m])'
      <4>1. ~ IsPointer(stack[m])
        BY <3>3, MarkerWords
      <4> QED
        BY <1>1, <4>1 DEF Followed
    <3>5. \A i \in 1 .. (next' - 1) : i \in 1 .. next \/ i = m
      BY <1>3, <3>1, <3>2
    <3>6. next' <= Len(stack) => stack[next'] # Return
      <4> SUFFICES ASSUME next' <= Len(stack), stack[next'] = Return PROVE FALSE
        OBVIOUS
      <4>1. PICK k \in 1 .. Len(stack) : k = next' /\ k - 1 = m
        BY <1>3, <3>1, <3>2
      <4>2. stack[k - 1] = Marker
        BY <1>3, <4>1 DEF Blocks
      <4>3. stack[m] = Marker
        BY <4>1, <4>2
      <4> QED
        BY <3>3, <4>3, MarkerWords
    <3> QED
      BY <1>3, <1>7, <3>1, <3>4, <3>5, <3>6
  <2>2. CASE w # Marker
    <3>1. next' = next + 1
      BY <1>1, <2>2 DEF Skip
    <3>2. next' <= Len(stack) => stack[next'] # Return
      <4> SUFFICES ASSUME next' <= Len(stack), stack[next'] = Return PROVE FALSE
        OBVIOUS
      <4>1. PICK k \in 1 .. Len(stack) : k = next' /\ k - 1 = next
        BY <1>3, <3>1
      <4>2. stack[k - 1] = Marker
        BY <1>3, <4>1 DEF Blocks
      <4>3. stack[next] = Marker
        BY <4>1, <4>2
      <4> QED
        BY <1>0, <2>2, <4>3
    <3>3. next' - 1 = next
      BY <1>3, <3>1
    <3> QED
      BY <1>3, <1>7, <3>1, <3>2, <3>3
  <2> QED
    BY <2>1, <2>2
<1>9. RootsRead'
  BY <1>1, <1>6, <1>8 DEF RootsRead
<1> QED
  BY <1>1, <1>2, <1>5, <1>9 DEF CollectorInv, Marking, Sweeping

-----------------------------------------------------------------------------
(* Between two roots.                                                      *)

(* What a marked pointer leads to is marked.                               *)
LEMMA MarkedLeadsToMarked ==
  ASSUME Given, Complete, calls = <<>>,
         NEW p \in Reached, p.cell \in firsts,
         NEW w \in Follow(before.car, before.cdr, p), IsPointer(w)
  PROVE  w.cell \in firsts
<1>1. ~ Pending /\ ~ \E c : Waiting(c)
  BY EmptySeq DEF Pending, Waiting
<1>2. /\ p.tag # "proc" => Followed(before.car[p.cell])
      /\ p.tag \notin BoxLikeTags => Followed(before.cdr[p.cell])
  <2>1. p.tag \in BoxLikeTags \/ p.tag \in ListTags \/ p.tag = "proc"
    BY ReachedProperties
  <2>2. /\ p.tag # "proc" => Followed(before.car[p.cell])
        /\ p.tag = "proc" => p.cell \in seconds
        /\ p.tag \in ListTags => p.cell \in seconds
    BY <1>1 DEF Complete
  <2>3. p.cell \in seconds /\ p.tag \notin BoxLikeTags => Followed(before.cdr[p.cell])
    BY DEF Complete
  <2> QED
    BY <2>1, <2>2, <2>3
<1>3. \/ w = before.car[p.cell] /\ p.tag # "proc"
      \/ w = before.cdr[p.cell] /\ p.tag \notin BoxLikeTags
  BY DEF Follow, BoxLikeTags, ListTags
<1> QED
  BY <1>1, <1>2, <1>3 DEF Followed

(* When the roots have all been read, what is reached is marked.           *)
LEMMA AllMarked ==
  ASSUME CollectorInv, EndStack
  PROVE  firsts = Live
<1>1. phase = "stack" /\ calls = <<>> /\ next > Len(stack)
  BY DEF EndStack
<1>2. /\ Given /\ Sound /\ Complete
      /\ next \in 1 .. (Len(stack) + 1)
      /\ \A k \in 1 .. NGlobals : Followed(GlobalWord(k))
      /\ \A i \in 1 .. (next - 1) : Followed(stack[i])
  BY <1>1 DEF CollectorInv, Marking, RootsRead
<1>3. \A w : Followed(w) => (IsPointer(w) => w.cell \in firsts)
  BY <1>1 DEF Followed, Pending
<1>4. ASSUME NEW w \in Roots, IsPointer(w) PROVE w.cell \in firsts
  <2>1. CASE \E g \in Globals : 2 * (g - 1) < NGlobals /\ w = glbl[g]
    <3>1. PICK k \in 1 .. NGlobals : w = GlobalWord(k)
      BY <1>2, <2>1, GlobalRoots
    <3> QED
      BY <1>2, <1>3, <1>4, <3>1
  <2>2. CASE \E i \in DOMAIN stack : w = stack[i]
    <3>1. Len(stack) \in Nat /\ DOMAIN stack = 1 .. Len(stack)
      BY <1>2, LenProperties DEF Given
    <3>2. PICK i \in 1 .. Len(stack) : w = stack[i]
      BY <2>2, <3>1
    <3>3. i \in 1 .. (next - 1)
      BY <1>1, <1>2, <3>1
    <3> QED
      BY <1>2, <1>3, <1>4, <3>2, <3>3
  <2> QED
    BY <2>1, <2>2 DEF Roots
<1> DEFINE S == {p \in Reached : p.cell \in firsts}
<1>5. \A w \in Roots : IsPointer(w) => w \in S
  BY <1>4, ReachRoots DEF Reached
<1>6. ASSUME NEW p \in S, p \in Present(before.car, before.cdr, Roots),
             NEW w \in Follow(before.car, before.cdr, p), IsPointer(w)
      PROVE  w \in S
  <2>1. w.cell \in firsts
    BY <1>1, <1>2, <1>6, MarkedLeadsToMarked
  <2>2. before.car \in [Cells -> Words] /\ before.cdr \in [Cells -> Words] /\ Roots \in SUBSET Words
    BY <1>2, RootWords DEF Given
  <2>3. w \in Reached
    BY <1>6, <2>2, ReachClosed DEF Reached
  <2> QED
    BY <2>1, <2>3
<1>7. Reached \subseteq S
  <2>1. before.car \in [Cells -> Words] /\ before.cdr \in [Cells -> Words] /\ Roots \in SUBSET Words
    BY <1>2, RootWords DEF Given
  <2> HIDE DEF S
  <2> QED
    BY <1>5, <1>6, <2>1, ReachLeast DEF Reached
<1> QED
  BY <1>2, <1>7 DEF Sound, Live

(* The cells that are reached.                                             *)
LEMMA LiveCells ==
  ASSUME Given
  PROVE  Live \subseteq Cells /\ Cells \subseteq Nat /\ N \in Nat /\ 0 \in Cells /\ Limit \in Cells
  BY ReachedProperties, HeapAssumption DEF Live, Cells

LEMMA EndStackStep ==
  ASSUME CollectorInv, EndStack
  PROVE  CollectorInv'
<1>1. /\ calls' = <<>> /\ phase' = "sweep" /\ next' = 0 /\ free' = 0
      /\ UNCHANGED <<car, cdr, firsts, seconds, glbl, stack, calls, before>>
      /\ phase = "stack" /\ calls = <<>>
  BY DEF EndStack
<1>2. /\ Given /\ car = before.car /\ cdr = before.cdr /\ Sound
  BY <1>1 DEF CollectorInv, Marking
<1>3. Reached' = Reached /\ Live' = Live /\ Given'
  BY <1>1, <1>2, SameGiven
<1>4. Live \subseteq Cells /\ Cells \subseteq Nat /\ N \in Nat /\ 0 \in Cells
  BY <1>2, LiveCells
<1>5. firsts' = {c \in Live : c >= 0}
  <2>1. firsts' = Live
    BY <1>1, AllMarked
  <2>2. \A c \in Live : c >= 0
    BY <1>4
  <2> QED
    BY <2>1, <2>2
<1>6. seconds' \subseteq {c \in Cells : c >= 0}
  BY <1>1, <1>2, <1>4 DEF Sound
<1>7. SweptTo(0, before.car) = car /\ SweptTo(0, before.cdr) = cdr /\ ClearedTo(0) = {}
  BY <1>2, <1>4 DEF SweptTo, ClearedTo, Given
<1>8. /\ SweptTo(next, before.car)' = car' /\ SweptTo(next, before.cdr)' = cdr'
      /\ ClearedTo(next)' = {}
  BY <1>1, <1>2, <1>3, <1>4, <1>7 DEF SweptTo, ClearedTo, Given
<1>9. Sweeping'
  BY <1>1, <1>3, <1>4, <1>5, <1>6, <1>8 DEF Sweeping
<1> QED
  BY <1>1, <1>3, <1>9 DEF CollectorInv, Marking

-----------------------------------------------------------------------------
(* The sweep.                                                              *)

(* One more cell.                                                          *)
LEMMA SweptOneMore ==
  ASSUME Given, NEW n \in Cells, NEW f \in [Cells -> Words]
  PROVE  /\ n \in Live => SweptTo(n + 1, f) = SweptTo(n, f) /\ ClearedTo(n + 1) = ClearedTo(n)
         /\ n \notin Live => SweptTo(n + 1, f) = [SweptTo(n, f) EXCEPT ![n] = Zero]
         /\ n \notin Live => ClearedTo(n + 1) = ClearedTo(n) \cup ({n} \ {0})
         /\ {c \in Live : c >= n} \ {n} = {c \in Live : c >= n + 1}
<1>1. Live \subseteq Cells /\ Cells \subseteq Nat /\ n \in Nat
  BY LiveCells
<1>2. \A c \in Cells : c < n + 1 <=> c < n \/ c = n
  BY <1>1
<1>3. \A c \in Cells : c >= n + 1 <=> c >= n /\ c # n
  BY <1>1
<1>4. ASSUME n \in Live PROVE SweptTo(n + 1, f) = SweptTo(n, f) /\ ClearedTo(n + 1) = ClearedTo(n)
  <2>1. \A c \in Cells : (c < n + 1 /\ c \notin Live) <=> (c < n /\ c \notin Live)
    BY <1>2, <1>4
  <2> QED
    BY <2>1 DEF SweptTo, ClearedTo
<1>5. ASSUME n \notin Live PROVE SweptTo(n + 1, f) = [SweptTo(n, f) EXCEPT ![n] = Zero]
  <2>1. \A c \in Cells : (c < n + 1 /\ c \notin Live) <=> ((c < n /\ c \notin Live) \/ c = n)
    BY <1>2, <1>5
  <2> QED
    BY <2>1 DEF SweptTo
<1>6. ASSUME n \notin Live PROVE ClearedTo(n + 1) = ClearedTo(n) \cup ({n} \ {0})
  BY <1>2, <1>6 DEF ClearedTo
<1>7. {c \in Live : c >= n} \ {n} = {c \in Live : c >= n + 1}
  BY <1>1, <1>3
<1> QED
  BY <1>4, <1>5, <1>6, <1>7

(* Where a sweep step is taken.                                            *)
LEMMA WhileSweeping ==
  ASSUME CollectorInv, phase = "sweep"
  PROVE  /\ Given /\ calls = <<>> /\ next \in 0 .. N
         /\ firsts = {c \in Live : c >= next}
         /\ seconds \subseteq {c \in Cells : c >= next}
         /\ car = SweptTo(next, before.car) /\ cdr = SweptTo(next, before.cdr)
         /\ IF ClearedTo(next) = {} THEN free = 0
            ELSE free \in ClearedTo(next) /\ \A c \in ClearedTo(next) : free <= c
         /\ before.car \in [Cells -> Words] /\ before.cdr \in [Cells -> Words]
  BY DEF CollectorInv, Sweeping, Given

(* What it has to do.                                                      *)
LEMMA SweepingGoesOn ==
  ASSUME CollectorInv, phase = "sweep", NEW n \in Cells, n = next,
         next' = n + 1, UNCHANGED <<glbl, stack, phase, calls, before>>,
         firsts' = {c \in Live : c >= n + 1},
         seconds' = seconds \ {n},
         car' = SweptTo(n + 1, before.car), cdr' = SweptTo(n + 1, before.cdr),
         IF ClearedTo(n + 1) = {} THEN free' = 0
         ELSE free' \in ClearedTo(n + 1) /\ \A c \in ClearedTo(n + 1) : free' <= c
  PROVE  CollectorInv'
<1>1. Given /\ N \in Nat /\ n \in Nat /\ n < N /\ Cells \subseteq Nat
  BY WhileSweeping, LiveCells DEF Cells
<1>2. Live' = Live /\ Given'
  BY <1>1, SameGiven
<1>3. next' \in 0 .. N /\ calls' = <<>>
  BY <1>1, WhileSweeping
<1>4. seconds' \subseteq {c \in Cells : c >= next'}
  <2>1. \A c \in seconds : c \in Cells /\ c >= n
    BY WhileSweeping
  <2>2. \A c \in Cells : c >= n /\ c # n => c >= n + 1
    BY <1>1
  <2> QED
    BY <2>1, <2>2
<1>5. SweptTo(next, before.car)' = car' /\ SweptTo(next, before.cdr)' = cdr'
  BY <1>2 DEF SweptTo
<1>6. ClearedTo(next)' = ClearedTo(n + 1)
  BY <1>2 DEF ClearedTo
<1>7. Sweeping'
  <2>1. firsts' = {c \in Live' : c >= next'}
    BY <1>2
  <2>2. IF ClearedTo(next)' = {} THEN free' = 0
        ELSE free' \in ClearedTo(next)' /\ \A c \in ClearedTo(next)' : free' <= c
    BY <1>6
  <2> QED
    BY <1>3, <1>4, <1>5, <2>1, <2>2 DEF Sweeping
<1> QED
  BY <1>2, <1>7 DEF CollectorInv, Marking

LEMMA UnmarkStep ==
  ASSUME CollectorInv, Unmark
  PROVE  CollectorInv'
<1>0. PICK n : n = next
  OBVIOUS
<1>1. /\ phase = "sweep" /\ n \in firsts
      /\ firsts' = firsts \ {n} /\ seconds' = seconds \ {n} /\ next' = n + 1
      /\ UNCHANGED <<car, cdr, free, glbl, stack, phase, calls, before>>
  BY <1>0 DEF Unmark, Unmarked
<1>2. n \in Live /\ n \in Cells /\ Given
  BY <1>1, WhileSweeping, LiveCells
<1>3. firsts' = {c \in Live : c >= n + 1}
  BY <1>0, <1>1, <1>2, WhileSweeping, SweptOneMore
<1>4. /\ car' = SweptTo(n + 1, before.car) /\ cdr' = SweptTo(n + 1, before.cdr)
      /\ ClearedTo(n + 1) = ClearedTo(n)
  BY <1>0, <1>1, <1>2, WhileSweeping, SweptOneMore
<1> QED
  BY <1>0, <1>1, <1>2, <1>3, <1>4, WhileSweeping, SweepingGoesOn

LEMMA ClearStep ==
  ASSUME CollectorInv, Clear
  PROVE  CollectorInv'
<1>0. PICK n : n = next
  OBVIOUS
<1>1. /\ phase = "sweep" /\ n \in Cells /\ n \notin firsts
      /\ free' = IF free = 0 THEN n ELSE free
      /\ car' = [car EXCEPT ![n] = Zero] /\ cdr' = [cdr EXCEPT ![n] = Zero]
      /\ firsts' = firsts /\ seconds' = seconds \ {n} /\ next' = n + 1
      /\ UNCHANGED <<glbl, stack, phase, calls, before>>
  BY <1>0 DEF Clear, Cleared
<1>2. Given /\ Live \subseteq Cells /\ Cells \subseteq Nat /\ n \notin Live
  BY <1>0, <1>1, WhileSweeping, LiveCells
<1>3. firsts' = {c \in Live : c >= n + 1}
  <2>1. {c \in Live : c >= n} \ {n} = {c \in Live : c >= n + 1}
    BY <1>1, <1>2, WhileSweeping, SweptOneMore
  <2>2. firsts = {c \in Live : c >= n}
    BY <1>0, <1>1, WhileSweeping
  <2> QED
    BY <1>1, <1>2, <2>1, <2>2
<1>4. /\ car' = SweptTo(n + 1, before.car) /\ cdr' = SweptTo(n + 1, before.cdr)
      /\ ClearedTo(n + 1) = ClearedTo(n) \cup ({n} \ {0})
  BY <1>0, <1>1, <1>2, WhileSweeping, SweptOneMore
<1>5. IF ClearedTo(n + 1) = {} THEN free' = 0
      ELSE free' \in ClearedTo(n + 1) /\ \A c \in ClearedTo(n + 1) : free' <= c
  <2>1. \A c \in ClearedTo(n) : c \in Nat /\ c < n /\ c # 0
    BY <1>2 DEF ClearedTo
  <2>2. CASE ClearedTo(n) = {}
    BY <1>0, <1>1, <1>2, <1>4, <2>2, WhileSweeping
  <2>3. CASE ClearedTo(n) # {}
    <3>1. free \in ClearedTo(n) /\ \A c \in ClearedTo(n) : free <= c
      BY <1>0, <1>1, <2>3, WhileSweeping
    <3>2. free' = free /\ free <= n
      BY <1>1, <1>2, <2>1, <3>1
    <3> QED
      BY <1>4, <3>1, <3>2
  <2> QED
    BY <2>2, <2>3
<1> QED
  BY <1>0, <1>1, <1>3, <1>4, <1>5, SweepingGoesOn

LEMMA EndSweepStep ==
  ASSUME CollectorInv, EndSweep
  PROVE  CollectorInv'
<1>1. /\ phase = "sweep" /\ next = N /\ phase' = "done"
      /\ UNCHANGED <<car, cdr, firsts, seconds, free, glbl, stack, next, calls, before>>
  BY DEF EndSweep
<1>2. Live' = Live /\ Given'
  BY <1>1, WhileSweeping, SameGiven
<1>3. SweptTo(next, before.car)' = car' /\ SweptTo(next, before.cdr)' = cdr'
      /\ ClearedTo(next)' = ClearedTo(next)
  BY <1>1, <1>2, WhileSweeping DEF SweptTo, ClearedTo
<1>4. Sweeping'
  BY <1>1, <1>2, <1>3, WhileSweeping DEF Sweeping
<1> QED
  BY <1>1, <1>2, <1>4 DEF CollectorInv, Marking

-----------------------------------------------------------------------------
(* The heap a collection starts in.                                        *)

(* A set of natural numbers has a least element.                           *)
LEMMA LeastOf ==
  ASSUME NEW S \in SUBSET Nat, S # {}
  PROVE  \E n \in S : \A m \in S : n <= m
<1> DEFINE R == OpToRel(<, Nat)
<1>1. IsWellFoundedOn(R, Nat)
  BY NatLessThanWellFounded
<1>2. \A m, n \in Nat : m < n => <<m, n>> \in R
  BY DEF OpToRel
<1> HIDE DEF R
<1>3. PICK n \in S : \A m \in S : ~(<<m, n>> \in R)
  BY <1>1, WFMin
<1>4. \A m \in S : ~(m < n)
  BY <1>2, <1>3
<1> QED
  BY <1>3, <1>4

(* The concatenation of one or more sequences of a set that is closed      *)
(* under it is in the set.                                                 *)
LEMMA Flattened ==
  ASSUME NEW T, \A s, t \in T : s \o t \in T,
         NEW n \in Nat \ {0}, NEW seqs \in [1 .. n -> T]
  PROVE  FlattenSeq(seqs) \in T
<1> DEFINE Equation(f, m) ==
             f = [i \in 1 .. m |-> IF i = 1 THEN seqs[i] ELSE f[i - 1] \o seqs[i]]
           flatten == CHOOSE f : Equation(f, n)
<1>1. FlattenSeq(seqs) = flatten[n]
  <2>1. Len(seqs) = n
    BY LenProperties
  <2> QED
    BY <2>1 DEF FlattenSeq
<1>2. ASSUME NEW m \in 1 .. n, NEW f, Equation(f, m - 1)
      PROVE  \E g : Equation(g, m)
  <2> DEFINE last == IF m = 1 THEN seqs[m] ELSE f[m - 1] \o seqs[m]
             g == [i \in 1 .. m |-> IF i = m THEN last ELSE f[i]]
  <2>1. ASSUME NEW i \in 1 .. m PROVE g[i] = IF i = 1 THEN seqs[i] ELSE g[i - 1] \o seqs[i]
    <3>1. CASE i = m
      <4>1. m # 1 => m - 1 \in 1 .. m /\ m - 1 # m
        OBVIOUS
      <4>2. m # 1 => g[m - 1] = f[m - 1]
        BY <4>1
      <4>3. g[i] = last
        BY <3>1
      <4> HIDE DEF g
      <4> QED
        BY <3>1, <4>2, <4>3
    <3>2. CASE i # m
      <4>1. i \in 1 .. (m - 1) /\ g[i] = f[i]
        BY <3>2
      <4>2. f[i] = IF i = 1 THEN seqs[i] ELSE f[i - 1] \o seqs[i]
        BY <1>2, <4>1
      <4>3. i # 1 => g[i - 1] = f[i - 1]
        BY <4>1
      <4> HIDE DEF g
      <4> QED
        BY <4>1, <4>2, <4>3
    <3> QED
      BY <3>1, <3>2
  <2>2. g = [i \in 1 .. m |-> g[i]]
    OBVIOUS
  <2> HIDE DEF g
  <2>3. Equation(g, m)
    BY <2>1, <2>2
  <2> QED
    BY <2>3
<1>3. \E f : Equation(f, 0)
  <2>1. Equation([i \in 1 .. 0 |-> 0], 0)
    OBVIOUS
  <2> QED
    BY <2>1
<1> HIDE DEF Equation
<1>4. \E f : Equation(f, n)
  <2> DEFINE S == {m \in 0 .. n : ~ \E f : Equation(f, m)}
  <2> SUFFICES ASSUME S # {} PROVE FALSE
    OBVIOUS
  <2>1. PICK m \in S : \A k \in S : m <= k
    <3>1. S \in SUBSET Nat
      OBVIOUS
    <3> HIDE DEF S
    <3> QED
      BY <3>1, LeastOf
  <2>2. m \in 1 .. n /\ m - 1 \in 0 .. n
    BY <1>3
  <2>3. m - 1 \notin S
    BY <2>1, <2>2
  <2>4. \E f : Equation(f, m - 1)
    BY <2>2, <2>3
  <2> QED
    BY <1>2, <2>2, <2>4
<1>5. Equation(flatten, n)
  BY <1>4
<1> HIDE DEF flatten
<1>6. \A i \in 1 .. n : flatten[i] = IF i = 1 THEN seqs[i] ELSE flatten[i - 1] \o seqs[i]
  BY <1>5 DEF Equation
<1>7. \A i \in 1 .. n : flatten[i] \in T
  <2> DEFINE S == {i \in 1 .. n : flatten[i] \notin T}
  <2> SUFFICES ASSUME S # {} PROVE FALSE
    OBVIOUS
  <2>1. PICK i \in S : \A k \in S : i <= k
    <3>1. S \in SUBSET Nat
      OBVIOUS
    <3> HIDE DEF S
    <3> QED
      BY <3>1, LeastOf
  <2>2. CASE i = 1
    BY <1>6, <2>2
  <2>3. CASE i # 1
    <3>1. i \in 1 .. n /\ i - 1 \in 1 .. n
      BY <2>3
    <3>2. i - 1 \notin S
      BY <2>1, <3>1
    <3>3. flatten[i - 1] \in T
      BY <3>1, <3>2
    <3>4. flatten[i] = flatten[i - 1] \o seqs[i]
      BY <1>6, <2>3, <3>1
    <3>5. seqs[i] \in T
      BY <3>1
    <3> QED
      BY <3>3, <3>4, <3>5
  <2> QED
    BY <2>2, <2>3
<1> QED
  BY <1>1, <1>7

(* The stacks with a return address behind each marker.                    *)
StacksOf(S) == {s \in Seq(S \cup {Marker, Return}) : Blocks(s)}

LEMMA StacksJoin ==
  ASSUME NEW S, NEW s \in StacksOf(S), NEW t \in StacksOf(S)
  PROVE  s \o t \in StacksOf(S)
<1> DEFINE m == Len(s)
           n == Len(t)
           u == s \o t
<1>1. /\ s \in Seq(S \cup {Marker, Return}) /\ t \in Seq(S \cup {Marker, Return})
      /\ Blocks(s) /\ Blocks(t)
  BY DEF StacksOf
<1>2. m \in Nat /\ n \in Nat
  BY <1>1, LenProperties
<1>3. /\ u \in Seq(S \cup {Marker, Return}) /\ Len(u) = m + n
      /\ \A i \in 1 .. m : u[i] = s[i]
      /\ \A i \in 1 .. n : u[i + m] = t[i]
  <2>1. /\ u \in Seq(S \cup {Marker, Return}) /\ Len(u) = m + n
        /\ \A i \in 1 .. Len(u) : u[i] = IF i <= m THEN s[i] ELSE t[i - m]
    BY <1>1, ConcatProperties
  <2> HIDE DEF u, m, n
  <2>2. \A i \in 1 .. m : i \in 1 .. Len(u) /\ i <= m
    BY <1>2, <2>1
  <2>3. \A i \in 1 .. n : i + m \in 1 .. Len(u) /\ ~ (i + m <= m) /\ (i + m) - m = i
    BY <1>2, <2>1
  <2> QED
    BY <2>1, <2>2, <2>3
<1>4. /\ \A i \in 1 .. m : /\ s[i] = Marker => i < m /\ s[i + 1] = Return
                           /\ s[i] = Return => i > 1 /\ s[i - 1] = Marker
      /\ \A i \in 1 .. n : /\ t[i] = Marker => i < n /\ t[i + 1] = Return
                           /\ t[i] = Return => i > 1 /\ t[i - 1] = Marker
  BY <1>1 DEF Blocks
<1> HIDE DEF u, m, n
<1>5. ASSUME NEW i \in 1 .. m + n
      PROVE  /\ u[i] = Marker => i < m + n /\ u[i + 1] = Return
             /\ u[i] = Return => i > 1 /\ u[i - 1] = Marker
  <2>1. CASE i \in 1 .. m
    <3>1. u[i] = s[i]
      BY <1>3, <2>1
    <3>2. ASSUME u[i] = Marker PROVE i < m + n /\ u[i + 1] = Return
      <4>1. i < m /\ s[i + 1] = Return
        BY <1>4, <2>1, <3>1, <3>2
      <4>2. i + 1 \in 1 .. m
        BY <1>2, <2>1, <4>1
      <4>3. u[i + 1] = s[i + 1]
        BY <1>3, <4>2
      <4> QED
        BY <1>2, <2>1, <4>1, <4>3
    <3>3. ASSUME u[i] = Return PROVE i > 1 /\ u[i - 1] = Marker
      <4>1. i > 1 /\ s[i - 1] = Marker
        BY <1>4, <2>1, <3>1, <3>3
      <4>2. i - 1 \in 1 .. m
        BY <1>2, <2>1, <4>1
      <4>3. u[i - 1] = s[i - 1]
        BY <1>3, <4>2
      <4> QED
        BY <4>1, <4>3
    <3> QED
      BY <3>2, <3>3
  <2>2. CASE i \notin 1 .. m
    <3>1. PICK j \in 1 .. n : i = j + m
      BY <1>2, <2>2
    <3>2. u[i] = t[j]
      BY <1>3, <3>1
    <3>3. ASSUME u[i] = Marker PROVE i < m + n /\ u[i + 1] = Return
      <4>1. j < n /\ t[j + 1] = Return
        BY <1>4, <3>2, <3>3
      <4>2. PICK k \in 1 .. n : k = j + 1
        BY <1>2, <4>1
      <4>3. u[k + m] = t[k] /\ k + m = i + 1
        BY <1>2, <1>3, <3>1, <4>2
      <4> QED
        BY <1>2, <3>1, <4>1, <4>2, <4>3
    <3>4. ASSUME u[i] = Return PROVE i > 1 /\ u[i - 1] = Marker
      <4>1. j > 1 /\ t[j - 1] = Marker
        BY <1>4, <3>2, <3>4
      <4>2. PICK k \in 1 .. n : k = j - 1
        BY <1>2, <4>1
      <4>3. u[k + m] = t[k] /\ k + m = i - 1
        BY <1>2, <1>3, <3>1, <4>2
      <4> QED
        BY <1>2, <3>1, <4>1, <4>2, <4>3
    <3> QED
      BY <3>3, <3>4
  <2> QED
    BY <2>1, <2>2
<1>6. Blocks(u)
  BY <1>2, <1>3, <1>5 DEF Blocks
<1> QED
  BY <1>3, <1>6 DEF StacksOf, u

(* The words of the initial heap.                                          *)
WordsOf(shape) == {w \in Words : IsPointer(w) => w.tag = shape[w.cell]}

LEMMA InitialWords ==
  ASSUME NEW shape \in Shapes(Tags)
  PROVE  /\ Values(shape) \subseteq WordsOf(shape) /\ Chains(shape) \subseteq WordsOf(shape)
         /\ \A c \in Cells : /\ FirstWords(shape, shape[c]) \subseteq WordsOf(shape)
                             /\ SecondWords(shape, shape[c]) \subseteq WordsOf(shape)
<1>1. \A w \in FlatWords : w \in WordsOf(shape)
  BY DEF WordsOf, Words, FlatWords, IsPointer, FlatTags, PointerTags, BoxLikeTags, ListTags
<1>2. /\ Zero \in WordsOf(shape) /\ Data \in WordsOf(shape)
      /\ Empty \in WordsOf(shape) /\ Code \in WordsOf(shape)
  BY <1>1 DEF FlatWords, FlatTags, Zero, Data, Empty, Code, Flat
<1>3. ASSUME NEW tags \in SUBSET PointerTags
      PROVE  Pointing(shape, tags) \subseteq WordsOf(shape)
  <2>1. ASSUME NEW c \in Cells, shape[c] \in tags PROVE Pointer(shape[c], c) \in WordsOf(shape)
    <3>1. Pointer(shape[c], c) = [tag |-> shape[c], cell |-> c]
      BY DEF Pointer
    <3>2. Pointer(shape[c], c) \in Words
      BY <2>1, <3>1 DEF Words, Pointers
    <3> QED
      BY <3>1, <3>2 DEF WordsOf
  <2> QED
    BY <2>1 DEF Pointing
<1>4. Values(shape) \subseteq WordsOf(shape) /\ Chains(shape) \subseteq WordsOf(shape)
  <2>1. PointerTags \ {"chain"} \in SUBSET PointerTags /\ {"chain"} \in SUBSET PointerTags
    BY DEF PointerTags, ListTags
  <2> QED
    BY <1>2, <1>3, <2>1 DEF Values, Chains
<1>5. ASSUME NEW tag
      PROVE  /\ FirstWords(shape, tag) \subseteq WordsOf(shape)
             /\ SecondWords(shape, tag) \subseteq WordsOf(shape)
  BY <1>2, <1>4 DEF FirstWords, SecondWords
<1> QED
  BY <1>4, <1>5

LEMMA InitialStacks ==
  ASSUME NEW shape \in Shapes(Tags), NEW bound \in Nat, NEW s \in Stacks(shape, bound)
  PROVE  s \in StacksOf(WordsOf(shape))
<1> DEFINE V == Values(shape) \cup Chains(shape)
           Parts == {<<w>> : w \in V} \cup {<<Marker, Return>>}
           T == StacksOf(WordsOf(shape))
<1>1. PICK blocks \in BoundedSeq(Parts, bound) : s = FlattenSeq(blocks)
  BY DEF Stacks
<1>2. PICK m \in 0 .. bound : blocks \in [1 .. m -> Parts]
  BY DEF BoundedSeq, SeqOf
<1>3. Parts \subseteq T
  <2>1. ASSUME NEW w \in V PROVE <<w>> \in T
    <3>1. w \in WordsOf(shape) /\ w # Marker /\ w # Return
      BY InitialWords, MarkerWords DEF WordsOf
    <3>2. <<w>> \in Seq(WordsOf(shape) \cup {Marker, Return}) /\ Len(<<w>>) = 1 /\ <<w>>[1] = w
      BY <3>1
    <3>3. Blocks(<<w>>)
      BY <3>1, <3>2 DEF Blocks
    <3> QED
      BY <3>2, <3>3 DEF StacksOf
  <2>2. <<Marker, Return>> \in T
    <3>1. /\ <<Marker, Return>> \in Seq(WordsOf(shape) \cup {Marker, Return})
          /\ Len(<<Marker, Return>>) = 2
          /\ <<Marker, Return>>[1] = Marker /\ <<Marker, Return>>[2] = Return
      OBVIOUS
    <3>2. Blocks(<<Marker, Return>>)
      BY <3>1, MarkerWords DEF Blocks
    <3> QED
      BY <3>1, <3>2 DEF StacksOf
  <2> QED
    BY <2>1, <2>2
<1>4. CASE m = 0
  <2>1. blocks = <<>> /\ Len(blocks) = 0
    BY <1>2, <1>4
  <2>2. s = <<>>
    BY <1>1, <2>1 DEF FlattenSeq
  <2>3. <<>> \in Seq(WordsOf(shape) \cup {Marker, Return}) /\ Len(<<>>) = 0
    BY EmptySeq
  <2> QED
    BY <2>2, <2>3 DEF StacksOf, Blocks
<1>5. CASE m # 0
  <2>1. m \in Nat \ {0} /\ blocks \in [1 .. m -> T]
    BY <1>2, <1>3, <1>5
  <2>2. \A t, u \in T : t \o u \in T
    BY StacksJoin
  <2> HIDE DEF T
  <2>3. FlattenSeq(blocks) \in T
    BY <2>1, <2>2, Flattened
  <2> QED
    BY <1>1, <2>3 DEF T
<1> QED
  BY <1>4, <1>5

LEMMA InitHolds ==
  ASSUME Init
  PROVE  CollectorInv
<1>1. PICK shape \in Shapes(Tags) :
        Begins(shape, [Globals -> Values(shape)], Stacks(shape, MaxBlocks))
  BY DEF Init
<1>2. /\ \A c \in Cells : car[c] \in WordsOf(shape) /\ cdr[c] \in WordsOf(shape)
      /\ car \in [Cells -> Words] /\ cdr \in [Cells -> Words]
  <2>1. car \in Columns(shape, FirstWords) /\ cdr \in Columns(shape, SecondWords)
    BY <1>1 DEF Begins
  <2>2. car \in [Cells -> UNION {FirstWords(shape, shape[c]) : c \in Cells}]
        /\ \A c \in Cells : car[c] \in FirstWords(shape, shape[c])
    BY <2>1 DEF Columns
  <2>3. cdr \in [Cells -> UNION {SecondWords(shape, shape[c]) : c \in Cells}]
        /\ \A c \in Cells : cdr[c] \in SecondWords(shape, shape[c])
    BY <2>1 DEF Columns
  <2>4. \A c \in Cells : car[c] \in WordsOf(shape) /\ cdr[c] \in WordsOf(shape)
    BY <2>2, <2>3, InitialWords
  <2> QED
    BY <2>2, <2>3, <2>4 DEF WordsOf
<1>3. glbl \in [Globals -> Words] /\ \A g \in Globals : glbl[g] \in WordsOf(shape)
  <2>1. glbl \in [Globals -> Values(shape)]
    BY <1>1 DEF Begins
  <2> QED
    BY <2>1, InitialWords DEF WordsOf
<1>4. stack \in StacksOf(WordsOf(shape))
  BY <1>1, InitialStacks, CollectorAssumption DEF Begins
<1>5. /\ firsts = {} /\ seconds = {} /\ free = Limit /\ phase = "globals" /\ next = 1
      /\ calls = <<>> /\ before.car = car /\ before.cdr = cdr
  BY <1>1 DEF Begins
<1>6. /\ stack \in Seq(StackWords) /\ Blocks(stack)
      /\ \A i \in DOMAIN stack : stack[i] \in WordsOf(shape) \cup {Marker, Return}
  <2>1. stack \in Seq(WordsOf(shape) \cup {Marker, Return}) /\ Blocks(stack)
    BY <1>4 DEF StacksOf
  <2>2. WordsOf(shape) \cup {Marker, Return} \subseteq StackWords
    BY DEF WordsOf, StackWords
  <2> QED
    BY <2>1, <2>2, ElementOfSeq, LenProperties
<1>7. \A p \in Present(before.car, before.cdr, Roots) : p \in WordsOf(shape) /\ IsPointer(p)
  BY <1>2, <1>3, <1>5, <1>6 DEF Present, Roots
<1>8. Given
  BY <1>2, <1>3, <1>5, <1>6, <1>7 DEF Given, WordsOf
<1>9. Activations /\ Distinct /\ Sound /\ Complete
  <2>1. calls \in Seq(CallRecords) /\ Len(calls) = 0
    BY <1>5, EmptySeq
  <2> QED
    BY <1>5, <2>1 DEF Activations, Distinct, Sound, Complete
<1>10. RootsRead
  BY <1>5, CollectorAssumption DEF RootsRead
<1> QED
  BY <1>5, <1>8, <1>9, <1>10 DEF CollectorInv, Marking, Sweeping

-----------------------------------------------------------------------------
(* The theorems.                                                           *)

LEMMA NextHolds ==
  ASSUME CollectorInv, [Next]_vars
  PROVE  CollectorInv'
<1>1. CASE UNCHANGED vars
  <2>1. /\ UNCHANGED <<car, cdr, firsts, seconds, free, glbl, stack, phase, next, calls, before>>
        /\ Given
    BY <1>1 DEF vars, CollectorInv
  <2>2. /\ Reached' = Reached /\ Live' = Live /\ Given'
        /\ \A k : GlobalWord(k)' = GlobalWord(k)
    BY <2>1, SameGiven
  <2>3. \A v : Followed(v) => Followed(v)'
    BY <2>1 DEF Followed, Pending, Top
  <2>4. Marking'
    <3>1. CASE phase \in {"globals", "stack"}
      <4>1. /\ car = before.car /\ cdr = before.cdr /\ free = Limit
            /\ Activations /\ Distinct /\ Sound /\ Complete /\ RootsRead
        BY <3>1 DEF CollectorInv, Marking
      <4>2. Activations' /\ Distinct' /\ Sound'
        BY <2>1, <2>2, <4>1 DEF Activations, Distinct, Sound, Top
      <4>3. \A c : Waiting(c) => Waiting(c)'
        BY <2>1 DEF Waiting
      <4>4. Complete'
        BY <2>1, <2>2, <2>3, <4>1, <4>3, StaysComplete
      <4>5. RootsRead'
        BY <2>1, <2>3, <4>1, StaysRead
      <4> QED
        BY <2>1, <4>1, <4>2, <4>4, <4>5 DEF Marking
    <3>2. CASE phase \notin {"globals", "stack"}
      BY <2>1, <3>2 DEF Marking
    <3> QED
      BY <3>1, <3>2
  <2>5. Sweeping'
    <3>1. CASE phase \in {"sweep", "done"}
      <4>1. /\ SweptTo(next, before.car)' = SweptTo(next, before.car)
            /\ SweptTo(next, before.cdr)' = SweptTo(next, before.cdr)
            /\ ClearedTo(next)' = ClearedTo(next)
        BY <2>1, <2>2 DEF SweptTo, ClearedTo
      <4> QED
        BY <2>1, <2>2, <3>1, <4>1 DEF CollectorInv, Sweeping
    <3>2. CASE phase \notin {"sweep", "done"}
      BY <2>1, <3>2 DEF Sweeping
    <3> QED
      BY <3>1, <3>2
  <2> QED
    BY <2>1, <2>2, <2>4, <2>5 DEF CollectorInv
<1>2. CASE Next
  BY <1>2, ReadGlobalStep, EndGlobalsStep, ReadStackStep, EndStackStep, LeaveStep, MarkBoxStep,
     MarkProcedureStep, MarkLeftStep, MarkRightStep, UnmarkStep, ClearStep, EndSweepStep DEF Next
<1> QED
  BY <1>1, <1>2

(* The invariant of a run of the collector: what is marked is reached,     *)
(* what it leads to is marked or about to be, the swept cells are those of *)
(* the heap before with what was not reached cleared.                      *)
THEOREM CollectorInvariant == Spec => []CollectorInv
<1>1. Init => CollectorInv
  BY InitHolds
<1>2. CollectorInv /\ [Next]_vars => CollectorInv'
  BY NextHolds
<1> QED
  BY <1>1, <1>2, PTL DEF Spec

(* The state of __gc__ has its types, whatever the heap and the stack.     *)
THEOREM TypesHold == Spec => []TypeOK
<1>1. CollectorInv => TypeOK
  <2> SUFFICES ASSUME CollectorInv PROVE TypeOK
    OBVIOUS
  <2>1. Given /\ before.car \in [Cells -> Words] /\ before.cdr \in [Cells -> Words]
    BY DEF CollectorInv, Given
  <2>2. Live \subseteq Cells /\ Cells \subseteq Nat /\ N \in Nat /\ 0 \in Cells /\ Limit \in Cells
    BY <2>1, LiveCells
  <2>3. CASE phase \in {"globals", "stack"}
    <3>1. /\ car = before.car /\ cdr = before.cdr /\ free = Limit
          /\ Activations /\ Sound /\ RootsRead
      BY <2>3 DEF CollectorInv, Marking
    <3>2. next \in Nat
      <4>1. NGlobals \in Nat /\ Len(stack) \in Nat
        BY <2>1, CollectorAssumption, LenProperties DEF Given
      <4> QED
        BY <2>3, <3>1, <4>1 DEF RootsRead
    <3>3. \A i \in DOMAIN calls : /\ calls[i].word \in Words
                                  /\ calls[i].seen \in BOOLEAN /\ calls[i].resumed \in BOOLEAN
      <4>1. \A i \in DOMAIN calls : calls[i] \in CallRecords
        BY <3>1, ElementOfSeq, LenProperties DEF Activations
      <4> QED
        BY <4>1 DEF CallRecords
    <3> QED
      BY <2>1, <2>2, <2>3, <3>1, <3>2, <3>3 DEF TypeOK, Sound
  <2>4. CASE phase \in {"sweep", "done"}
    <3>1. /\ calls = <<>> /\ next \in 0 .. N /\ firsts = {c \in Live : c >= next}
          /\ seconds \subseteq {c \in Cells : c >= next}
          /\ car = SweptTo(next, before.car) /\ cdr = SweptTo(next, before.cdr)
          /\ IF ClearedTo(next) = {} THEN free = 0 ELSE free \in ClearedTo(next)
      BY <2>4 DEF CollectorInv, Sweeping
    <3>2. car \in [Cells -> Words] /\ cdr \in [Cells -> Words]
      BY <2>1, <3>1, MarkerWords DEF SweptTo
    <3>3. free \in Cells
      BY <2>2, <3>1 DEF ClearedTo
    <3>4. next \in Nat /\ firsts \subseteq Cells /\ seconds \subseteq Cells
      <4>1. firsts \subseteq Live
        BY <3>1
      <4>2. seconds \subseteq Cells
        BY <3>1
      <4>3. next \in Nat
        BY <2>2, <3>1
      <4> QED
        BY <2>2, <4>1, <4>2, <4>3
    <3>5. DOMAIN calls = {}
      BY <3>1
    <3> QED
      BY <2>4, <3>2, <3>3, <3>4, <3>5 DEF TypeOK
  <2> QED
    BY <2>3, <2>4 DEF CollectorInv
<1> QED
  BY <1>1, CollectorInvariant, PTL

(* Between two roots whatever a marked cell leads to is marked: that mns_  *)
(* turns back at the mark of a word, and not of a cell, loses nothing.     *)
THEOREM MarksStayClosed == Spec => []MarksClosed
<1>1. CollectorInv => MarksClosed
  <2> SUFFICES ASSUME CollectorInv, phase \in {"globals", "stack"}, calls = <<>>,
                      NEW p \in Present(car, cdr, Roots), p.cell \in firsts,
                      NEW w \in Follow(car, cdr, p), IsPointer(w)
               PROVE  w.cell \in firsts
    BY DEF MarksClosed
  <2>1. Given /\ car = before.car /\ cdr = before.cdr /\ Sound /\ Complete
    BY DEF CollectorInv, Marking
  <2>2. p \in Reached
    BY <2>1, LiveReached DEF Sound
  <2> QED
    BY <2>1, <2>2, MarkedLeadsToMarked
<1> QED
  BY <1>1, CollectorInvariant, PTL

(* When the collection is over no word is marked any more.                 *)
THEOREM NoMarkLeft == Spec => []MarksGone
<1>1. CollectorInv => MarksGone
  <2> SUFFICES ASSUME CollectorInv, phase = "done" PROVE firsts = {} /\ seconds = {}
    BY DEF MarksGone
  <2>1. /\ Given /\ next = N /\ firsts = {c \in Live : c >= next}
        /\ seconds \subseteq {c \in Cells : c >= next}
    BY DEF CollectorInv, Sweeping
  <2>2. Live \subseteq Cells /\ \A c \in Cells : ~ (c >= N)
    BY <2>1, LiveCells DEF Cells
  <2> QED
    BY <2>1, <2>2
<1> QED
  BY <1>1, CollectorInvariant, PTL

(* The walk down the stack never takes a return address for a word of the  *)
(* program, whatever the blocks on the stack.                              *)
THEOREM ReturnsSkipped == Spec => []SkipsReturns
<1>1. CollectorInv => SkipsReturns
  BY DEF CollectorInv, Marking, RootsRead, SkipsReturns
<1> QED
  BY <1>1, CollectorInvariant, PTL

(* The recursion of mns_ is no deeper than the lists it is at, and two: no *)
(* heap, cyclic or not, can make it deeper.                                *)
THEOREM DepthIsBounded == Spec => []DepthBounded
<1> DEFINE Held == {calls[i].word.cell : i \in {i \in DOMAIN calls : calls[i].resumed}}
<1>1. CollectorInv => DepthBounded
  <2> SUFFICES ASSUME CollectorInv PROVE Len(calls) <= 2 + Cardinality(Held)
    BY DEF DepthBounded
  <2>1. calls # <<>> => Given /\ Activations /\ Distinct /\ Sound
    BY WhileMarking
  <2>2. Given /\ IsFiniteSet(Cells)
    BY HeapAssumption, FS_Interval DEF Cells, CollectorInv
  <2>3. calls \in Seq(CallRecords) /\ Len(calls) \in Nat /\ DOMAIN calls = 1 .. Len(calls)
    <3>1. CASE calls = <<>>
      BY <3>1, EmptySeq, LenProperties
    <3>2. CASE calls # <<>>
      BY <2>1, <3>2, LenProperties DEF Activations
    <3> QED
      BY <3>1, <3>2
  <2>4. Held \subseteq Cells
    <3> SUFFICES ASSUME NEW i \in DOMAIN calls, calls[i].resumed
                 PROVE  calls[i].word.cell \in Cells
      OBVIOUS
    <3>1. calls # <<>>
      BY <2>3, EmptySeq
    <3>2. calls[i].word.cell \in firsts
      BY <2>1, <2>3, <3>1 DEF Activations
    <3> QED
      BY <2>1, <3>1, <3>2, LiveCells DEF Sound
  <2>5. IsFiniteSet(Held) /\ Cardinality(Held) \in Nat
    <3> HIDE DEF Held
    <3> QED
      BY <2>2, <2>4, FS_Subset, FS_CardinalityType
  <2>6. CASE Len(calls) <= 2
    <3> HIDE DEF Held
    <3> QED
      BY <2>3, <2>5, <2>6
  <2>7. CASE Len(calls) > 2
    <3> DEFINE n == Len(calls)
               f == [i \in 3 .. n |-> calls[i].word.cell]
    <3>1. calls # <<>>
      BY <2>7, EmptySeq
    <3>2. \A i \in 3 .. n : i \in DOMAIN calls /\ i \in 1 .. n /\ calls[i].resumed
      BY <2>1, <2>3, <3>1 DEF Activations
    <3>3. f \in [3 .. n -> Held]
      BY <3>2
    <3>4. ASSUME NEW i \in 3 .. n, NEW j \in 3 .. n, f[i] = f[j] PROVE i = j
      <4>1. \A k, l \in 3 .. n : k < l => calls[k].word.cell # calls[l].word.cell
        BY <2>1, <2>3, <3>1 DEF Distinct
      <4> QED
        BY <2>3, <3>4, <4>1
    <3>5. f \in Injection(3 .. n, Held)
      <4> HIDE DEF f, Held
      <4> QED
        BY <3>3, <3>4 DEF Injection, IsInjective
    <3>6. Cardinality(3 .. n) = n - 2
      BY <2>3, <2>7, FS_Interval
    <3> HIDE DEF f, Held, n
    <3>7. Cardinality(3 .. n) <= Cardinality(Held)
      BY <2>5, <3>5, FS_Injection
    <3> QED
      BY <2>3, <2>5, <3>6, <3>7 DEF n
  <2> QED
    BY <2>3, <2>6, <2>7
<1> QED
  BY <1>1, CollectorInvariant, PTL

(* Reachability is the same in Collection.                                 *)
LEMMA SameReach ==
  ASSUME NEW a, NEW d, NEW roots
  PROVE  Promise!Reach(a, d, roots) = Reach(a, d, roots)
<1>1. \A w : Promise!IsPointer(w) <=> IsPointer(w)
  BY DEF Promise!IsPointer, IsPointer, Promise!PointerTags, PointerTags, Promise!BoxLikeTags,
     BoxLikeTags, Promise!ListTags, ListTags
<1>2. \A p : Promise!Follow(a, d, p) = Follow(a, d, p)
  BY DEF Promise!Follow, Follow, Promise!BoxLikeTags, BoxLikeTags, Promise!ListTags, ListTags
<1>3. Promise!Present(a, d, roots) = Present(a, d, roots)
  BY <1>1 DEF Promise!Present, Present, Promise!Cells, Cells
<1>4. \A S : Promise!Closed(a, d, S) <=> Closed(a, d, S)
  BY <1>1, <1>2 DEF Promise!Closed, Closed
<1> QED
  BY <1>1, <1>3, <1>4 DEF Promise!Reach, Reach

(* The last step of a collection is the step of Collection.                *)
LEMMA EndSweepCollects ==
  ASSUME CollectorInv, EndSweep
  PROVE  Promise!Collect
<1>1. /\ phase = "sweep" /\ next = N /\ phase' = "done"
      /\ UNCHANGED <<car, cdr, firsts, seconds, free, glbl, stack, next, calls, before>>
  BY DEF EndSweep
<1>2. /\ Given /\ car = SweptTo(N, before.car) /\ cdr = SweptTo(N, before.cdr)
      /\ IF ClearedTo(N) = {} THEN free = 0
         ELSE free \in ClearedTo(N) /\ \A c \in ClearedTo(N) : free <= c
  BY <1>1, WhileSweeping
<1>3. /\ \A c \in Cells : c < N
      /\ Live = {p.cell : p \in Promise!Reach(before.car, before.cdr, Roots)}
  <2>1. Promise!Reach(before.car, before.cdr, Roots) = Reached
    BY SameReach DEF Reached
  <2>2. \A c \in Cells : c < N
    BY HeapAssumption DEF Cells
  <2> QED
    BY <2>1, <2>2 DEF Live
<1>4. \A f : SweptTo(N, f) = Promise!Kept(f, Live)
  BY <1>3 DEF SweptTo, Promise!Kept, Promise!Cells, Cells, Promise!Zero, Zero, Promise!Flat, Flat
<1>5. ClearedTo(N) = Cells \ (Live \cup {0})
  BY <1>3 DEF ClearedTo
<1>6. Promise!FirstCleared(free, Live)
  BY <1>2, <1>5 DEF Promise!FirstCleared, Promise!Cells, Cells
<1>7. Roots' = Roots
  BY <1>1, SameGiven
<1> QED
  BY <1>1, <1>2, <1>3, <1>4, <1>6, <1>7 DEF Promise!Collect

(* A collection as a whole does to the heap what Collection promises:      *)
(* what the program can reach keeps its words, the rest is cleared, and    *)
(* the free pointer is at the first cell that was.                         *)
THEOREM CollectsAsPromised == Spec => Collects
<1>1. Init => Promise!Init
  <2> SUFFICES ASSUME Init PROVE Promise!Init
    OBVIOUS
  <2>1. Given /\ phase = "globals"
    BY InitHolds DEF Init, Begins, CollectorInv
  <2>2. Limit \in Cells /\ Roots \subseteq Words
    BY <2>1, LiveCells, RootWords
  <2>3. Promise!Words = Words /\ Promise!Cells = Cells
    BY DEF Promise!Words, Words, Promise!FlatWords, FlatWords, Promise!FlatTags, FlatTags,
       Promise!Pointers, Pointers, Promise!PointerTags, PointerTags, Promise!BoxLikeTags,
       BoxLikeTags, Promise!ListTags, ListTags, Promise!Cells, Cells
  <2> QED
    BY <2>1, <2>2, <2>3 DEF Promise!Init, Given
<1>2. CollectorInv /\ [Next]_vars => [Promise!Collect]_(Promise!vars)
  <2> SUFFICES ASSUME CollectorInv, [Next]_vars PROVE Promise!Collect \/ UNCHANGED Promise!vars
    OBVIOUS
  <2>1. CASE EndSweep
    BY <2>1, EndSweepCollects
  <2>2. CASE ~ EndSweep
    <3>1. UNCHANGED <<glbl, stack, before>>
      BY <2>2 DEF Next, vars, ReadGlobal, EndGlobals, ReadStack, EndStack, Leave, MarkBox,
         MarkProcedure, MarkLeft, MarkRight, Unmark, Clear
    <3>2. /\ phase # "done" => phase' # "done"
          /\ phase = "done" => UNCHANGED <<phase, car, cdr, free>>
      <4>1. CASE UNCHANGED vars
        BY <4>1 DEF vars
      <4>2. CASE Leave \/ MarkBox \/ MarkProcedure \/ MarkLeft \/ MarkRight
        <5>1. calls # <<>> /\ phase' = phase
          BY <4>2 DEF Leave, MarkBox, MarkProcedure, MarkLeft, MarkRight
        <5> QED
          BY <5>1, WhileMarking
      <4>3. CASE ReadGlobal \/ EndGlobals \/ ReadStack \/ EndStack \/ Unmark \/ Clear
        BY <4>3 DEF ReadGlobal, EndGlobals, ReadStack, EndStack, Unmark, Clear
      <4> QED
        BY <2>2, <4>1, <4>2, <4>3 DEF Next
    <3>3. Roots' = Roots
      BY <3>1, SameGiven
    <3> QED
      BY <3>1, <3>2, <3>3 DEF Promise!vars
  <2> QED
    BY <2>1, <2>2
<1> QED
  BY <1>1, <1>2, CollectorInvariant, PTL DEF Spec, Collects, Promise!Spec

=============================================================================
