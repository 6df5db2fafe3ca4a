---------------------------- MODULE Frames_proofs ----------------------------
(***************************************************************************)
(* Proofs about the frames of Frames, for every program, every size of the *)
(* stack and every number of activations: FramesInv is inductive, and the  *)
(* exactness of the frame counter, of the root walk and of the return      *)
(* addresses follows from it, and that the frames implement the            *)
(* activations of Activations: each step of the code does to the words of  *)
(* the activations what calls mean, or nothing.                            *)
(***************************************************************************)
EXTENDS Frames, TLAPS, SequenceTheorems, WellFoundedInduction

-----------------------------------------------------------------------------
(* The inductive invariant.                                                *)

Kinds   == {"params", "let", "call", "args", "tail"}
Lexical == [kind : Kinds, first : Nat \ {0}, size : Nat, done : Nat]
Frame   == [base : Nat, bound : Nat, scopes : Seq(Lexical)]

(* A scope has as many slots as its kind asks for.                         *)
Sized(scope) ==
  /\ scope.done <= scope.size
  /\ scope.kind = "call" => scope.size = 2
  /\ scope.kind \in {"args", "tail"} => scope.size > 0 /\ scope.size <= MaxArgs + 1

(* The scopes of an activation lie one behind the other in its bound       *)
(* slots, the parameters first, and the operands of a call right behind    *)
(* its link.                                                               *)
Nested(scopes, bound) ==
  /\ Len(scopes) > 0
  /\ scopes[1].kind = "params"
  /\ \A s \in 1 .. Len(scopes) : Sized(scopes[s])
  /\ \A s \in 2 .. Len(scopes) :
       /\ scopes[s].first = scopes[s - 1].first + scopes[s - 1].size
       /\ scopes[s].kind # "params"
       /\ scopes[s].kind = "args" <=> scopes[s - 1].kind = "call"
  /\ \A s, t \in 1 .. Len(scopes) :
       s < t => scopes[s].first + scopes[s].size <= scopes[t].first
  /\ scopes[Len(scopes)].first + scopes[Len(scopes)].size = bound + 1

(* An activation waits just when its last scope is the link of a call.     *)
Lexicons ==
  /\ acts \in Seq(Frame)
  /\ \A k \in 1 .. Len(acts) :
       LET scopes == acts[k].scopes
       IN  /\ Nested(scopes, acts[k].bound)
           /\ scopes[Len(scopes)].kind = "call" <=> k < Len(acts)

(* Each activation begins where the slots of its caller end, and every     *)
(* word of the frame is a slot of one of them.                             *)
Stacked ==
  /\ acts[1].base = 0
  /\ \A k \in 2 .. Len(acts) : acts[k].base = acts[k - 1].base + acts[k - 1].bound
  /\ \A j, k \in 1 .. Len(acts) : j < k => acts[j].base + acts[j].bound <= acts[k].base
  /\ \A a \in 1 .. gcframe : \E k \in 1 .. Len(acts) : a - acts[k].base \in 1 .. acts[k].bound

(* The last two slots of an activation that waits are a marker and the     *)
(* return address that leads back to it; all others hold values.           *)
Held ==
  \A k \in 1 .. Len(acts) : \A i \in 1 .. acts[k].bound :
    LET word == mem[acts[k].base + i]
    IN  IF k = Len(acts) \/ i < acts[k].bound - 1 THEN word \in Values
        ELSE word = IF i = acts[k].bound THEN ReturnTo(k) ELSE Marker

FramesInv ==
  /\ TypeOK
  /\ Lexicons
  /\ Stacked
  /\ Held
  /\ FrameExact
  /\ rsp = Running.base

-----------------------------------------------------------------------------
(* Lists of scopes.                                                        *)

(* A list of scopes without its last one.                                  *)
LEMMA OuterProperties ==
  ASSUME NEW scopes \in Seq(Lexical), Len(scopes) > 0
  PROVE  LET outer == SubSeq(scopes, 1, Len(scopes) - 1)
         IN  /\ outer \in Seq(Lexical)
             /\ Len(outer) = Len(scopes) - 1
             /\ \A s \in 1 .. Len(scopes) - 1 : outer[s] = scopes[s]
<1> DEFINE n == Len(scopes)
<1>1. n \in Nat /\ n > 0
  BY LenProperties
<1>2. \A s \in 1 .. n - 1 : scopes[s] \in Lexical
  BY <1>1, ElementOfSeq
<1> HIDE DEF n
<1>3. n - 1 \in Int /\ n - 1 - 1 + 1 = n - 1 /\ (1 <= n - 1 \/ n - 1 = 0)
  BY <1>1
<1>4. LET outer == SubSeq(scopes, 1, n - 1)
      IN  /\ outer \in Seq(Lexical)
          /\ Len(outer) = IF 1 <= n - 1 THEN n - 1 - 1 + 1 ELSE 0
          /\ \A s \in 1 .. n - 1 - 1 + 1 : outer[s] = scopes[1 + s - 1]
  BY <1>2, <1>3, SubSeqProperties
<1>5. \A s \in 1 .. n - 1 : 1 + s - 1 = s
  OBVIOUS
<1> QED
  BY <1>1, <1>3, <1>4, <1>5 DEF n

(* A list of scopes with one more.                                         *)
LEMMA AppendScope ==
  ASSUME NEW scopes \in Seq(Lexical), NEW scope \in Lexical
  PROVE  /\ Append(scopes, scope) \in Seq(Lexical)
         /\ Len(Append(scopes, scope)) = Len(scopes) + 1
         /\ \A s \in 1 .. Len(scopes) : Append(scopes, scope)[s] = scopes[s]
         /\ Append(scopes, scope)[Len(scopes) + 1] = scope
  BY AppendProperties

(* A scope is opened at the first free slot.                               *)
LEMMA NestedAppend ==
  ASSUME NEW scopes \in Seq(Lexical), NEW bound \in Nat, Nested(scopes, bound),
         NEW scope \in Lexical, scope.first = bound + 1, Sized(scope), scope.kind # "params",
         scope.kind = "args" <=> scopes[Len(scopes)].kind = "call"
  PROVE  Nested(Append(scopes, scope), bound + scope.size)
<1> DEFINE n == Len(scopes)
           longer == Append(scopes, scope)
<1>1. /\ n \in Nat /\ n > 0
      /\ longer \in Seq(Lexical) /\ Len(longer) = n + 1
      /\ \A s \in 1 .. n : longer[s] = scopes[s] /\ scopes[s] \in Lexical
      /\ longer[n + 1] = scope
  BY AppendScope, ElementOfSeq DEF Nested
<1> HIDE DEF n, longer
<1>2. \A s \in 1 .. n : scopes[s].first \in Nat /\ scopes[s].size \in Nat
  BY <1>1 DEF Lexical
<1>3. scope.first \in Nat /\ scope.size \in Nat
  BY DEF Lexical
<1>4. /\ scopes[n].first + scopes[n].size = bound + 1
      /\ \A s, t \in 1 .. n : s < t => scopes[s].first + scopes[s].size <= scopes[t].first
  BY DEF Nested, n
<1>5. \A s \in 1 .. n : longer[s].first + longer[s].size <= bound + 1
  <2> TAKE s \in 1 .. n
  <2>1. CASE s = n
    BY <1>1, <1>2, <1>4, <2>1
  <2>2. CASE s < n
    <3>1. n \in 1 .. n /\ longer[s] = scopes[s]
      BY <1>1
    <3>2. scopes[s].first + scopes[s].size <= scopes[n].first
      BY <1>4, <2>2, <3>1
    <3>3. /\ scopes[s].first \in Nat /\ scopes[s].size \in Nat
          /\ scopes[n].first \in Nat /\ scopes[n].size \in Nat
          /\ scopes[n].first + scopes[n].size = bound + 1
      BY <1>2, <1>4, <3>1
    <3>4. scopes[s].first + scopes[s].size <= bound + 1
      BY <3>2, <3>3, SMTT(30)
    <3> QED
      BY <3>1, <3>4
  <2> QED
    BY <1>1, <2>1, <2>2
<1>6. \A s \in 1 .. n + 1 : Sized(longer[s])
  BY <1>1 DEF Nested, n
<1>7. ASSUME NEW s \in 2 .. n + 1
      PROVE  /\ longer[s].first = longer[s - 1].first + longer[s - 1].size
             /\ longer[s].kind # "params"
             /\ longer[s].kind = "args" <=> longer[s - 1].kind = "call"
  <2>1. CASE s = n + 1
    BY <1>1, <1>4, <2>1 DEF n
  <2>2. CASE s < n + 1
    <3>1. s \in 2 .. n /\ s \in 1 .. n /\ s - 1 \in 1 .. n
      BY <1>1, <2>2
    <3> QED
      BY <1>1, <3>1 DEF Nested, n
  <2> QED
    BY <1>1, <2>1, <2>2
<1>8. ASSUME NEW s \in 1 .. n + 1, NEW t \in 1 .. n + 1, s < t
      PROVE  longer[s].first + longer[s].size <= longer[t].first
  BY <1>1, <1>4, <1>5, <1>8
<1>9. longer[n + 1].first + longer[n + 1].size = bound + scope.size + 1
  <2>1. bound + 1 + scope.size = bound + scope.size + 1
    BY <1>3
  <2> QED
    BY <1>1, <2>1
<1>10. longer[1].kind = "params"
  BY <1>1 DEF Nested
<1> QED
  BY <1>1, <1>6, <1>7, <1>8, <1>9, <1>10 DEF Nested, longer

(* The last scope is closed.                                               *)
LEMMA NestedOuter ==
  ASSUME NEW scopes \in Seq(Lexical), NEW bound \in Nat, Nested(scopes, bound),
         scopes[Len(scopes)].kind # "params"
  PROVE  LET top   == scopes[Len(scopes)]
             outer == SubSeq(scopes, 1, Len(scopes) - 1)
         IN  /\ Len(scopes) > 1
             /\ outer \in Seq(Lexical)
             /\ bound - top.size = top.first - 1
             /\ Nested(outer, top.first - 1)
             /\ top.kind = "args" <=> outer[Len(outer)].kind = "call"
             /\ outer[Len(outer)] = scopes[Len(scopes) - 1]
<1> DEFINE n == Len(scopes)
           top == scopes[n]
           outer == SubSeq(scopes, 1, n - 1)
<1>1. /\ n \in Nat /\ n > 1
      /\ outer \in Seq(Lexical) /\ Len(outer) = n - 1
      /\ \A s \in 1 .. n - 1 : outer[s] = scopes[s]
      /\ \A s \in 1 .. n : scopes[s] \in Lexical
  BY OuterProperties, ElementOfSeq DEF Nested
<1>2. /\ scopes[n].first \in Nat /\ scopes[n].size \in Nat
      /\ scopes[n - 1].first \in Nat /\ scopes[n - 1].size \in Nat
  <2>1. n \in 1 .. n /\ n - 1 \in 1 .. n
    BY <1>1
  <2>2. scopes[n] \in Lexical /\ scopes[n - 1] \in Lexical
    BY <1>1, <2>1
  <2> QED
    BY <2>2 DEF Lexical
<1>3. top.first + top.size = bound + 1
  BY DEF Nested
<1>4. /\ top.first = scopes[n - 1].first + scopes[n - 1].size
      /\ top.kind = "args" <=> scopes[n - 1].kind = "call"
  BY <1>1 DEF Nested
<1> HIDE DEF n, top, outer
<1>5. /\ \A s \in 1 .. n - 1 : Sized(outer[s])
      /\ outer[1].kind = "params"
  BY <1>1 DEF Nested, n
<1>6. ASSUME NEW s \in 2 .. n - 1
      PROVE  /\ outer[s].first = outer[s - 1].first + outer[s - 1].size
             /\ outer[s].kind # "params"
             /\ outer[s].kind = "args" <=> outer[s - 1].kind = "call"
  <2>1. s \in 2 .. n /\ s \in 1 .. n - 1 /\ s - 1 \in 1 .. n - 1
    BY <1>1
  <2> QED
    BY <1>1, <2>1 DEF Nested, n
<1>7. ASSUME NEW s \in 1 .. n - 1, NEW t \in 1 .. n - 1, s < t
      PROVE  outer[s].first + outer[s].size <= outer[t].first
  <2>1. s \in 1 .. n /\ t \in 1 .. n
    BY <1>1
  <2>2. scopes[s].first + scopes[s].size <= scopes[t].first
    BY <1>7, <2>1 DEF Nested, n
  <2> QED
    BY <1>1, <2>2
<1>8. /\ outer[n - 1].first + outer[n - 1].size = top.first - 1 + 1
      /\ bound - top.size = top.first - 1
      /\ outer[n - 1] = scopes[n - 1]
  <2>1. outer[n - 1] = scopes[n - 1] /\ top = scopes[n]
    BY <1>1 DEF top
  <2>2. top.first \in Nat /\ top.size \in Nat /\ outer[n - 1].first + outer[n - 1].size = top.first
    BY <1>2, <1>4, <2>1
  <2>3. bound - top.size = top.first - 1 /\ top.first - 1 + 1 = top.first
    BY <1>3, <2>2
  <2> QED
    BY <2>1, <2>2, <2>3
<1>9. Nested(outer, top.first - 1)
  BY <1>1, <1>5, <1>6, <1>7, <1>8 DEF Nested
<1> QED
  BY <1>1, <1>4, <1>8, <1>9 DEF n, top, outer

(* The last scope is replaced by one of the same kind at the same place.   *)
LEMMA NestedReplace ==
  ASSUME NEW scopes \in Seq(Lexical), NEW bound \in Nat, Nested(scopes, bound),
         NEW scope \in Lexical, Sized(scope), scope.kind # "params",
         scope.kind = scopes[Len(scopes)].kind, scope.first = scopes[Len(scopes)].first
  PROVE  LET replaced == Append(SubSeq(scopes, 1, Len(scopes) - 1), scope)
         IN  /\ replaced \in Seq(Lexical)
             /\ Len(replaced) = Len(scopes)
             /\ Nested(replaced, scope.first + scope.size - 1)
             /\ replaced[Len(replaced)] = scope
             /\ \A s \in 1 .. Len(scopes) - 1 : replaced[s] = scopes[s]
<1> DEFINE n == Len(scopes)
           outer == SubSeq(scopes, 1, n - 1)
<1>1. /\ n \in Nat /\ n > 1 /\ outer \in Seq(Lexical)
      /\ Nested(outer, scope.first - 1)
      /\ scope.kind = "args" <=> outer[Len(outer)].kind = "call"
  BY NestedOuter
<1>2. Len(outer) = n - 1 /\ \A s \in 1 .. n - 1 : outer[s] = scopes[s]
  BY <1>1, OuterProperties
<1>3. scope.first \in Nat \ {0} /\ scope.size \in Nat
  BY DEF Lexical
<1> HIDE DEF n, outer
<1>4. Nested(Append(outer, scope), scope.first - 1 + scope.size)
  BY <1>1, <1>3, NestedAppend
<1>5. /\ Append(outer, scope) \in Seq(Lexical) /\ Len(Append(outer, scope)) = n
      /\ Append(outer, scope)[n] = scope
      /\ \A s \in 1 .. n - 1 : Append(outer, scope)[s] = scopes[s]
  BY <1>1, <1>2, AppendScope
<1>6. scope.first - 1 + scope.size = scope.first + scope.size - 1
  BY <1>3
<1> QED
  BY <1>4, <1>5, <1>6 DEF n, outer

-----------------------------------------------------------------------------
(* The running activation.                                                 *)

StackWords == Values \cup Returns \cup {Marker, Junk}

(* What the invariant says of an activation: it is a frame that lies in    *)
(* the bound words of the stack.                                           *)
LEMMA FrameProperties ==
  ASSUME FramesInv, NEW k \in 1 .. Len(acts)
  PROVE  /\ acts[k] \in Frame
         /\ acts[k].base \in Nat /\ acts[k].bound \in Nat
         /\ acts[k].scopes \in Seq(Lexical)
         /\ Nested(acts[k].scopes, acts[k].bound)
         /\ acts[k].base + acts[k].bound <= gcframe
         /\ k < Len(acts) => acts[k].base + acts[k].bound <= rsp
<1> DEFINE n == Len(acts)
<1>1. n \in Nat /\ n > 0 /\ n \in 1 .. n /\ acts \in Seq(Frame)
  BY LenProperties DEF FramesInv, TypeOK, Lexicons
<1>2. \A j \in 1 .. n : acts[j] \in Frame
  BY <1>1, ElementOfSeq
<1>3. \A j \in 1 .. n : acts[j].base \in Nat /\ acts[j].bound \in Nat /\ acts[j].scopes \in Seq(Lexical)
  BY <1>2 DEF Frame
<1>4. Nested(acts[k].scopes, acts[k].bound)
  BY DEF FramesInv, Lexicons
<1>5. rsp = acts[n].base /\ gcframe = rsp + acts[n].bound
  BY DEF FramesInv, FrameExact, Running
<1>6. ASSUME k < n PROVE acts[k].base + acts[k].bound <= rsp
  BY <1>1, <1>5, <1>6 DEF FramesInv, Stacked
<1> HIDE DEF n
<1>7. acts[k].base + acts[k].bound <= gcframe
  <2>1. CASE k = n
    BY <1>1, <1>3, <1>5, <2>1 DEF n
  <2>2. CASE k < n
    <3>1. acts[n].bound \in Nat /\ acts[n].base \in Nat
      BY <1>1, <1>3
    <3>2. rsp <= gcframe /\ rsp \in Nat /\ gcframe \in Nat
      BY <1>5, <3>1
    <3>3. acts[k].base + acts[k].bound \in Nat
      BY <1>3 DEF n
    <3> QED
      BY <1>6, <2>2, <3>2, <3>3
  <2> QED
    BY <1>1, <2>1, <2>2 DEF n
<1> QED
  BY <1>2, <1>3, <1>4, <1>6, <1>7 DEF n

(* The running activation has its scopes open, and values in its slots.    *)
LEMMA RunningProperties ==
  ASSUME FramesInv
  PROVE  /\ Len(acts) \in Nat /\ Len(acts) > 0 /\ Len(acts) \in 1 .. Len(acts) /\ Len(acts) <= MaxActs
         /\ Running \in Frame
         /\ rsp \in Nat /\ Running.base = rsp /\ Running.bound \in Nat
         /\ gcframe = rsp + Running.bound /\ gcframe \in Nat /\ gcframe <= MaxWords
         /\ Scopes \in Seq(Lexical) /\ Len(Scopes) \in Nat /\ Len(Scopes) > 0
         /\ Nested(Scopes, Running.bound)
         /\ Top \in Lexical /\ Top.kind # "call" /\ Sized(Top)
         /\ Top.first \in Nat /\ Top.first > 0 /\ Top.size \in Nat /\ Top.done \in Nat
         /\ Top.first + Top.size = Running.bound + 1
         /\ \A i \in 1 .. Running.bound : mem[rsp + i] \in Values
<1>1. /\ Len(acts) \in Nat /\ Len(acts) > 0 /\ Len(acts) \in 1 .. Len(acts) /\ Len(acts) <= MaxActs
  BY FrameAssumption DEF FramesInv, TypeOK
<1>2. /\ Running \in Frame /\ rsp \in Nat /\ Running.base = rsp /\ Running.bound \in Nat
      /\ Scopes \in Seq(Lexical) /\ Nested(Scopes, Running.bound)
      /\ gcframe = rsp + Running.bound
  BY <1>1, FrameProperties DEF FramesInv, FrameExact, Running, Scopes
<1>3. gcframe \in Nat /\ gcframe <= MaxWords
  BY FrameAssumption DEF FramesInv, TypeOK
<1>4. Len(Scopes) \in Nat /\ Len(Scopes) > 0 /\ Len(Scopes) \in 1 .. Len(Scopes)
  BY <1>2, LenProperties DEF Nested
<1>5. Top \in Lexical /\ Sized(Top) /\ Top.first + Top.size = Running.bound + 1
  BY <1>2, <1>4, ElementOfSeq DEF Nested, Top
<1>6. Top.first \in Nat /\ Top.first > 0 /\ Top.size \in Nat /\ Top.done \in Nat
  BY <1>5 DEF Lexical
<1>7. Top.kind # "call"
  BY <1>1 DEF FramesInv, Lexicons, Top, Scopes, Running
<1>8. \A i \in 1 .. Running.bound : mem[rsp + i] \in Values
  BY <1>1, <1>2 DEF FramesInv, Held, Running
<1> QED
  BY <1>1, <1>2, <1>3, <1>4, <1>5, <1>6, <1>7, <1>8

(* A step that changes nothing but the running activation, its scopes, its *)
(* slots and what lies below them.                                         *)
LEMMA RunningChanges ==
  ASSUME FramesInv,
         NEW a \in Frame, a.base = rsp, rsp + a.bound <= MaxWords,
         Nested(a.scopes, a.bound), a.scopes[Len(a.scopes)].kind # "call",
         acts' = [acts EXCEPT ![Len(acts)] = a],
         rsp' = rsp, gcframe' = rsp + a.bound,
         mem' \in [Addresses -> StackWords],
         \A x \in 1 .. rsp : mem'[x] = mem[x],
         \A i \in 1 .. a.bound : mem'[rsp + i] \in Values,
         status' \in {"run", "mistyped", "undefined"}
  PROVE  FramesInv'
<1> DEFINE n == Len(acts)
<1>1. /\ n \in Nat /\ n > 0 /\ n \in 1 .. n /\ n <= MaxActs
      /\ acts \in Seq(Frame)
      /\ rsp \in Nat /\ gcframe \in Nat /\ rsp = acts[n].base
      /\ gcframe = rsp + acts[n].bound /\ acts[n].bound \in Nat
  BY RunningProperties DEF FramesInv, Lexicons, Running
<1>2. /\ acts' \in Seq(Frame) /\ Len(acts') = n
      /\ \A k \in 1 .. n : acts'[k] = IF k = n THEN a ELSE acts[k]
  BY <1>1, ExceptSeq
<1>3. \A k \in 1 .. n : /\ acts[k].base \in Nat /\ acts[k].bound \in Nat
                        /\ k < n => acts[k].base + acts[k].bound <= rsp
  BY FrameProperties
<1>4. a.bound \in Nat /\ a.base \in Nat
  BY DEF Frame
<1>5. MaxWords \in Nat
  BY FrameAssumption
<1> HIDE DEF n
<1>6. \A k \in 1 .. n : acts'[k].base = acts[k].base
  BY <1>1, <1>2
<1>7. \A k \in 1 .. n : k < n => acts'[k] = acts[k]
  BY <1>1, <1>2
<1>8. acts'[n] = a
  BY <1>1, <1>2
<1>9. TypeOK'
  <2>1. rsp \in 0 .. MaxWords /\ gcframe' \in 0 .. MaxWords /\ Len(acts') \in 1 .. MaxActs
    BY <1>1, <1>2, <1>4, <1>5, FrameAssumption, SMTT(30)
  <2> QED
    BY <2>1 DEF TypeOK, StackWords
<1>10. Lexicons'
  <2>1. ASSUME NEW k \in 1 .. n
        PROVE  LET scopes == acts'[k].scopes
               IN  /\ Nested(scopes, acts'[k].bound)
                   /\ scopes[Len(scopes)].kind = "call" <=> k < n
    <3>1. CASE k = n
      BY <1>1, <1>8, <3>1
    <3>2. CASE k < n
      BY <1>7, <3>2 DEF FramesInv, Lexicons, n
    <3> QED
      BY <1>1, <3>1, <3>2
  <2> QED
    BY <1>2, <2>1 DEF Lexicons
<1>11. Stacked'
  <2>1. acts'[1].base = 0
    BY <1>1, <1>6 DEF FramesInv, Stacked
  <2>2. ASSUME NEW k \in 2 .. n PROVE acts'[k].base = acts'[k - 1].base + acts'[k - 1].bound
    <3>1. k \in 1 .. n /\ k - 1 \in 1 .. n /\ k - 1 < n
      BY <1>1
    <3> QED
      BY <1>6, <1>7, <3>1 DEF FramesInv, Stacked, n
  <2>3. ASSUME NEW j \in 1 .. n, NEW k \in 1 .. n, j < k
        PROVE  acts'[j].base + acts'[j].bound <= acts'[k].base
    <3>1. j < n
      BY <1>1, <2>3
    <3> QED
      BY <1>6, <1>7, <2>3, <3>1 DEF FramesInv, Stacked, n
  <2>4. ASSUME NEW x \in 1 .. gcframe'
        PROVE  \E k \in 1 .. n : x - acts'[k].base \in 1 .. acts'[k].bound
    <3>1. CASE x > rsp
      <4>1. rsp \in Nat /\ a.bound \in Nat /\ x \in 1 .. (rsp + a.bound) /\ a.base = rsp
        BY <1>1, <1>4
      <4>2. x - rsp \in 1 .. a.bound
        BY <3>1, <4>1
      <4> QED
        BY <1>1, <1>8, <4>1, <4>2
    <3>2. CASE x <= rsp
      <4>1. x \in 1 .. gcframe
        BY <1>1, <1>4, <3>2
      <4>2. PICK k \in 1 .. n : x - acts[k].base \in 1 .. acts[k].bound
        BY <4>1 DEF FramesInv, Stacked, n
      <4>3. k # n
        BY <1>1, <3>2, <4>2
      <4> QED
        BY <1>1, <1>7, <4>2, <4>3
    <3> QED
      BY <1>1, <1>4, <3>1, <3>2
  <2> QED
    BY <1>2, <2>1, <2>2, <2>3, <2>4 DEF Stacked
<1>12. Held'
  <2>1. ASSUME NEW k \in 1 .. n, NEW i \in 1 .. acts'[k].bound
        PROVE  LET word == mem'[acts'[k].base + i]
               IN  IF k = n \/ i < acts'[k].bound - 1 THEN word \in Values
                   ELSE word = IF i = acts'[k].bound THEN ReturnTo(k) ELSE Marker
    <3>1. CASE k = n
      BY <1>8, <2>1, <3>1
    <3>2. CASE k < n
      <4>1. acts'[k] = acts[k]
        BY <1>7, <3>2
      <4>2. acts[k].base + i \in 1 .. rsp
        <5>1. /\ acts[k].base \in Nat /\ acts[k].bound \in Nat /\ rsp \in Nat
              /\ acts[k].base + acts[k].bound <= rsp /\ i \in 1 .. acts[k].bound
          BY <1>1, <1>3, <3>2, <4>1
        <5> QED
          BY <5>1
      <4>3. mem'[acts'[k].base + i] = mem[acts[k].base + i]
        BY <4>1, <4>2
      <4> QED
        BY <3>2, <4>1, <4>3 DEF FramesInv, Held, n
    <3> QED
      BY <1>1, <3>1, <3>2
  <2> QED
    BY <1>2, <2>1 DEF Held
<1>13. rsp' = Running'.base /\ FrameExact'
  BY <1>1, <1>2, <1>8 DEF Running, FrameExact
<1> QED
  BY <1>9, <1>10, <1>11, <1>12, <1>13 DEF FramesInv

-----------------------------------------------------------------------------
(* The steps within an activation.                                         *)

(* Binding slots, storing a value in one.                                  *)
LEMMA BoundStep ==
  ASSUME FramesInv, NEW n \in Nat, Bound(n)
  PROVE  /\ mem' \in [Addresses -> StackWords]
         /\ \A x \in 1 .. rsp : mem'[x] = mem[x]
         /\ \A i \in 1 .. (Running.bound + n) : mem'[rsp + i] \in Values
         /\ \A i \in 1 .. Running.bound : mem'[rsp + i] = mem[rsp + i]
         /\ \A i \in (Running.bound + 1) .. (Running.bound + n) : mem'[rsp + i] = Zero
         /\ gcframe' = rsp + (Running.bound + n) /\ rsp + (Running.bound + n) <= MaxWords
<1> DEFINE b == Running.bound
<1>1. /\ rsp \in Nat /\ b \in Nat /\ gcframe = rsp + b /\ MaxWords \in Nat
      /\ \A i \in 1 .. b : mem[rsp + i] \in Values
  BY RunningProperties, FrameAssumption
<1>2. /\ mem \in [Addresses -> StackWords] /\ Zero \in Values
  BY FrameAssumption DEF FramesInv, TypeOK, StackWords, Values
<1>3. /\ rsp + b + n <= MaxWords
      /\ mem' = [a \in Addresses |-> IF a - rsp \in (b + 1) .. (b + 1 + n - 1) THEN Zero ELSE mem[a]]
      /\ gcframe' = gcframe + n
  BY DEF Bound, Room, Offset
<1> HIDE DEF b
<1>4. gcframe' = rsp + (b + n) /\ rsp + (b + n) <= MaxWords
  BY <1>1, <1>3
<1>5. mem' \in [Addresses -> StackWords]
  BY <1>2, <1>3 DEF StackWords
<1>6. ASSUME NEW x \in 1 .. rsp PROVE mem'[x] = mem[x]
  <2>1. x \in Addresses /\ x - rsp \notin (b + 1) .. (b + 1 + n - 1)
    BY <1>1, <1>3 DEF Addresses
  <2> QED
    BY <1>3, <2>1
<1>7. ASSUME NEW i \in 1 .. (b + n), NEW x, x = rsp + i
      PROVE  x \in Addresses /\ x - rsp = i
  BY <1>1, <1>3, <1>7 DEF Addresses
<1>8. ASSUME NEW i \in 1 .. b, NEW x, x = rsp + i PROVE mem'[x] = mem[x] /\ mem[x] \in Values
  <2>1. i \in 1 .. (b + n)
    BY <1>1
  <2>2. x \in Addresses /\ x - rsp = i
    BY <1>7, <1>8, <2>1
  <2>3. x - rsp \notin (b + 1) .. (b + 1 + n - 1)
    BY <1>1, <2>2
  <2> QED
    BY <1>1, <1>3, <1>8, <2>2, <2>3
<1>9. ASSUME NEW i \in (b + 1) .. (b + n), NEW x, x = rsp + i PROVE mem'[x] = Zero
  <2>1. i \in 1 .. (b + n)
    BY <1>1
  <2>2. x \in Addresses /\ x - rsp = i
    BY <1>7, <1>9, <2>1
  <2>3. x - rsp \in (b + 1) .. (b + 1 + n - 1)
    BY <1>1, <2>2
  <2> QED
    BY <1>3, <2>2, <2>3
<1>10. \A i \in 1 .. (b + n) : i \in 1 .. b \/ i \in (b + 1) .. (b + n)
  BY <1>1
<1>11. \A i \in 1 .. (b + n) : mem'[rsp + i] \in Values
  BY <1>2, <1>8, <1>9, <1>10
<1> QED
  BY <1>4, <1>5, <1>6, <1>8, <1>9, <1>11 DEF b

LEMMA StoreStep ==
  ASSUME FramesInv, NEW slot \in 1 .. Running.bound, NEW v \in Results, Store(slot, v)
  PROVE  /\ mem' \in [Addresses -> StackWords]
         /\ \A x \in 1 .. rsp : mem'[x] = mem[x]
         /\ \A i \in 1 .. Running.bound : mem'[rsp + i] = IF i = slot THEN v ELSE mem[rsp + i]
         /\ \A i \in 1 .. Running.bound : mem'[rsp + i] \in Values
<1>1. /\ rsp \in Nat /\ Running.bound \in Nat /\ MaxWords \in Nat
      /\ gcframe = rsp + Running.bound /\ gcframe <= MaxWords
      /\ \A i \in 1 .. Running.bound : mem[rsp + i] \in Values
  BY RunningProperties, FrameAssumption
<1>2. mem \in [Addresses -> StackWords] /\ v \in Values
  BY FrameAssumption DEF FramesInv, TypeOK, StackWords
<1>3. \A i \in 1 .. Running.bound : rsp + i \in Addresses
  BY <1>1 DEF Addresses
<1>4. \A x \in 1 .. rsp : x \in Addresses /\ x # rsp + slot
  BY <1>1 DEF Addresses
<1>5. \A i \in 1 .. Running.bound : rsp + i = rsp + slot => i = slot
  BY <1>1
<1>6. mem' = [mem EXCEPT ![rsp + slot] = v]
  BY DEF Store
<1>7. mem' \in [Addresses -> StackWords]
  BY <1>2, <1>6 DEF StackWords
<1>8. \A x \in 1 .. rsp : mem'[x] = mem[x]
  BY <1>2, <1>4, <1>6
<1>9. \A i \in 1 .. Running.bound : mem'[rsp + i] = IF i = slot THEN v ELSE mem[rsp + i]
  BY <1>2, <1>3, <1>5, <1>6
<1> QED
  BY <1>1, <1>2, <1>7, <1>8, <1>9

LEMMA FrameEqual ==
  ASSUME NEW a \in Frame, NEW b \in Frame,
         a.base = b.base, a.bound = b.bound, a.scopes = b.scopes
  PROVE  a = b
  BY DEF Frame

(* Rescope keeps where the running activation begins.                      *)
LEMMA RescopedFrame ==
  ASSUME FramesInv, NEW scopes \in Seq(Lexical), NEW bound \in Nat, Rescope(scopes, bound)
  PROVE  acts' = [acts EXCEPT ![Len(acts)] = [base |-> rsp, bound |-> bound, scopes |-> scopes]]
<1> DEFINE a == [base |-> rsp, bound |-> bound, scopes |-> scopes]
<1>1. acts \in Seq(Frame) /\ Len(acts) \in 1 .. Len(acts) /\ Running \in Frame /\ Running.base = rsp /\ rsp \in Nat
  BY RunningProperties DEF FramesInv, Lexicons
<1>2. a \in Frame
  BY <1>1 DEF Frame
<1>3. [Running EXCEPT !.scopes = scopes, !.bound = bound] = a
  <2> DEFINE r == [Running EXCEPT !.scopes = scopes, !.bound = bound]
  <2>1. r \in Frame
    BY <1>1 DEF Frame
  <2>2. r.base = a.base /\ r.bound = a.bound /\ r.scopes = a.scopes
    BY <1>1 DEF Frame
  <2> HIDE DEF r, a
  <2> QED
    BY <1>2, <2>1, <2>2, FrameEqual DEF r
<1> QED
  BY <1>1, <1>3 DEF Rescope, Running

(* A step that gives the running activation other scopes.                  *)
LEMMA RescopeStep ==
  ASSUME FramesInv,
         NEW scopes \in Seq(Lexical), NEW bound \in Nat, Rescope(scopes, bound),
         Nested(scopes, bound), scopes[Len(scopes)].kind # "call",
         rsp' = rsp, gcframe' = rsp + bound, rsp + bound <= MaxWords,
         mem' \in [Addresses -> StackWords],
         \A x \in 1 .. rsp : mem'[x] = mem[x],
         \A i \in 1 .. bound : mem'[rsp + i] \in Values,
         status' = status
  PROVE  FramesInv'
<1> DEFINE a == [base |-> rsp, bound |-> bound, scopes |-> scopes]
<1>1. acts' = [acts EXCEPT ![Len(acts)] = a]
  BY RescopedFrame
<1>2. a \in Frame /\ a.base = rsp /\ a.bound = bound /\ a.scopes = scopes
  BY RunningProperties DEF Frame
<1>3. status' \in {"run", "mistyped", "undefined"}
  BY DEF FramesInv, TypeOK
<1> HIDE DEF a
<1> QED
  BY <1>1, <1>2, <1>3, RunningChanges

LEMMA ScopeProperties ==
  ASSUME NEW kind \in Kinds, NEW first \in Nat \ {0}, NEW size \in Nat, NEW done \in Nat
  PROVE  /\ Scope(kind, first, size, done) \in Lexical
         /\ Scope(kind, first, size, done).kind = kind
         /\ Scope(kind, first, size, done).first = first
         /\ Scope(kind, first, size, done).size = size
         /\ Scope(kind, first, size, done).done = done
  BY DEF Scope, Lexical

LEMMA KindsNamed ==
  "params" \in Kinds /\ "let" \in Kinds /\ "call" \in Kinds /\ "args" \in Kinds /\ "tail" \in Kinds
  BY DEF Kinds

LEMMA OpenLetStep ==
  ASSUME FramesInv, OpenLet
  PROVE  FramesInv'
<1> DEFINE let == Scope("let", Running.bound + 1, 1, 0)
           scopes == Append(Scopes, let)
<1>1. /\ Scopes \in Seq(Lexical) /\ Nested(Scopes, Running.bound) /\ Running.bound \in Nat
      /\ Scopes[Len(Scopes)].kind # "call"
  BY RunningProperties DEF Top
<1>2. /\ let \in Lexical /\ Sized(let)
      /\ let.kind = "let" /\ let.first = Running.bound + 1 /\ let.size = 1
  <2>1. Running.bound + 1 \in Nat \ {0} /\ "let" \in Kinds
    BY <1>1 DEF Kinds
  <2>2. /\ let \in Lexical /\ let.kind = "let" /\ let.first = Running.bound + 1
        /\ let.size = 1 /\ let.done = 0
    BY <2>1, ScopeProperties
  <2> QED
    BY <2>2 DEF Sized
<1>3. Rescope(scopes, Running.bound + 1) /\ Bound(1) /\ rsp' = rsp /\ status' = status
  BY DEF OpenLet, Offset
<1> HIDE DEF let
<1>4. Nested(scopes, Running.bound + 1)
  BY <1>1, <1>2, NestedAppend
<1>5. scopes \in Seq(Lexical) /\ scopes[Len(scopes)].kind # "call"
  BY <1>1, <1>2, AppendScope
<1> HIDE DEF scopes
<1>6. Running.bound + 1 \in Nat
  BY <1>1
<1> QED
  BY <1>3, <1>4, <1>5, <1>6, BoundStep, RescopeStep

LEMMA BindLetStep ==
  ASSUME FramesInv, BindLet
  PROVE  FramesInv'
<1> DEFINE let == [Top EXCEPT !.size = @ + 1]
           scopes == Append(Outer, let)
<1>1. /\ Scopes \in Seq(Lexical) /\ Nested(Scopes, Running.bound) /\ Running.bound \in Nat
      /\ Top \in Lexical /\ Sized(Top) /\ Top.first \in Nat /\ Top.size \in Nat /\ Top.done \in Nat
      /\ Top.first + Top.size = Running.bound + 1
  BY RunningProperties
<1>2. /\ Rescope(scopes, Running.bound + 1) /\ Bound(1) /\ rsp' = rsp /\ status' = status
      /\ Top.kind = "let"
  BY DEF BindLet, Offset
<1>3. /\ let \in Lexical /\ Sized(let)
      /\ let.kind = "let" /\ let.first = Top.first /\ let.size = Top.size + 1
  <2>1. /\ let \in Lexical /\ let.kind = Top.kind /\ let.first = Top.first
        /\ let.size = Top.size + 1 /\ let.done = Top.done
    BY <1>1 DEF Lexical
  <2>2. Top.done <= Top.size + 1
    BY <1>1 DEF Sized
  <2> QED
    BY <1>2, <2>1, <2>2 DEF Sized
<1>4. let.first + let.size - 1 = Running.bound + 1
  BY <1>1, <1>3
<1> HIDE DEF let
<1>5. /\ scopes \in Seq(Lexical) /\ Nested(scopes, Running.bound + 1)
      /\ scopes[Len(scopes)].kind # "call"
  BY <1>1, <1>2, <1>3, <1>4, NestedReplace DEF Top, Outer
<1> HIDE DEF scopes
<1>6. Running.bound + 1 \in Nat
  BY <1>1
<1> QED
  BY <1>2, <1>5, <1>6, BoundStep, RescopeStep

(* One more of the slots of the last scope has got its value.              *)
LEMMA DoneStep ==
  ASSUME FramesInv, NEW n \in 0 .. Top.size, Done(n), Top.kind # "params",
         NEW slot \in 1 .. Running.bound, NEW v \in Results, Store(slot, v),
         rsp' = rsp, gcframe' = gcframe, status' = status
  PROVE  FramesInv'
<1> DEFINE scope == [Top EXCEPT !.done = n]
           scopes == Append(Outer, scope)
<1>1. /\ Scopes \in Seq(Lexical) /\ Nested(Scopes, Running.bound) /\ Running.bound \in Nat
      /\ Top \in Lexical /\ Sized(Top) /\ Top.kind # "call"
      /\ Top.first \in Nat /\ Top.size \in Nat /\ Top.done \in Nat
      /\ Top.first + Top.size = Running.bound + 1
      /\ gcframe = rsp + Running.bound /\ gcframe <= MaxWords
  BY RunningProperties
<1>2. Rescope(scopes, Running.bound)
  BY DEF Done
<1>3. n \in Nat /\ n <= Top.size
  BY <1>1
<1>4. /\ scope \in Lexical /\ Sized(scope)
      /\ scope.kind = Top.kind /\ scope.first = Top.first /\ scope.size = Top.size
  BY <1>1, <1>3 DEF Lexical, Sized
<1>5. scope.first + scope.size - 1 = Running.bound
  BY <1>1, <1>4
<1> HIDE DEF scope
<1>6. /\ scopes \in Seq(Lexical) /\ Nested(scopes, Running.bound)
      /\ scopes[Len(scopes)].kind # "call"
  BY <1>1, <1>4, <1>5, NestedReplace DEF Top, Outer
<1> HIDE DEF scopes
<1> QED
  BY <1>1, <1>2, <1>6, StoreStep, RescopeStep

LEMMA StoreLetStep ==
  ASSUME FramesInv, StoreLet
  PROVE  FramesInv'
<1>1. /\ Top.kind = "let" /\ Top.done < Top.size /\ Done(Top.size)
      /\ rsp' = rsp /\ gcframe' = gcframe /\ status' = status
  BY DEF StoreLet
<1>2. PICK v \in Results : Store(Top.first + Top.size - 1, v)
  BY DEF StoreLet
<1>3. Top.size \in 0 .. Top.size /\ Top.first + Top.size - 1 \in 1 .. Running.bound
  <2>1. /\ Top.first \in Nat /\ Top.first > 0 /\ Top.size \in Nat /\ Top.done \in Nat
        /\ Top.first + Top.size = Running.bound + 1 /\ Running.bound \in Nat
    BY RunningProperties
  <2> QED
    BY <1>1, <2>1
<1> QED
  BY <1>1, <1>2, <1>3, DoneStep

LEMMA OperandStep ==
  ASSUME FramesInv, Operand
  PROVE  FramesInv'
<1>1. /\ Top.kind \in {"args", "tail"} /\ Top.done < Top.size /\ Done(Top.done + 1)
      /\ rsp' = rsp /\ gcframe' = gcframe /\ status' = status
  BY DEF Operand
<1>2. PICK v \in Results : Store(Top.first + OperandSlot(Top.done), v)
  BY DEF Operand
<1>3. Top.done + 1 \in 0 .. Top.size /\ Top.first + OperandSlot(Top.done) \in 1 .. Running.bound
  <2>1. /\ Top.first \in Nat /\ Top.first > 0 /\ Top.size \in Nat /\ Top.done \in Nat
        /\ Top.first + Top.size = Running.bound + 1 /\ Running.bound \in Nat
    BY RunningProperties
  <2> QED
    BY <1>1, <2>1 DEF OperandSlot
<1> QED
  BY <1>1, <1>2, <1>3, DoneStep

LEMMA CloseLetStep ==
  ASSUME FramesInv, CloseLet
  PROVE  FramesInv'
<1>1. /\ Top.kind = "let" /\ Rescope(Outer, Running.bound - Top.size) /\ gcframe' = gcframe - Top.size
      /\ mem' = mem /\ rsp' = rsp /\ status' = status
  BY DEF CloseLet
<1>2. /\ Scopes \in Seq(Lexical) /\ Nested(Scopes, Running.bound) /\ Running.bound \in Nat
      /\ Top.first \in Nat /\ Top.first > 0 /\ Top.size \in Nat /\ rsp \in Nat
      /\ Top.first + Top.size = Running.bound + 1
      /\ gcframe = rsp + Running.bound /\ gcframe <= MaxWords /\ MaxWords \in Nat
      /\ \A i \in 1 .. Running.bound : mem[rsp + i] \in Values
  BY RunningProperties, FrameAssumption
<1>3. /\ Outer \in Seq(Lexical) /\ Nested(Outer, Top.first - 1)
      /\ Outer[Len(Outer)].kind # "call"
  BY <1>1, <1>2, NestedOuter DEF Top, Outer
<1>4. /\ Running.bound - Top.size = Top.first - 1 /\ Top.first - 1 \in Nat
      /\ gcframe - Top.size = rsp + (Top.first - 1) /\ rsp + (Top.first - 1) <= MaxWords
      /\ 1 .. (Top.first - 1) \subseteq 1 .. Running.bound
  <2> DEFINE first == Top.first
             size == Top.size
             b == Running.bound
  <2>1. /\ first \in Nat /\ first > 0 /\ size \in Nat /\ b \in Nat /\ first + size = b + 1
        /\ rsp \in Nat /\ gcframe = rsp + b /\ rsp + b <= MaxWords /\ MaxWords \in Nat
    BY <1>2
  <2> HIDE DEF first, size, b
  <2>2. /\ b - size = first - 1 /\ first - 1 \in Nat
        /\ gcframe - size = rsp + (first - 1) /\ rsp + (first - 1) <= MaxWords
        /\ 1 .. (first - 1) \subseteq 1 .. b
    BY <2>1
  <2> QED
    BY <2>2 DEF first, size, b
<1>5. mem \in [Addresses -> StackWords]
  BY DEF FramesInv, TypeOK, StackWords
<1> QED
  BY <1>1, <1>2, <1>3, <1>4, <1>5, RescopeStep

(* A slot of an open scope is a bound slot.                                *)
LEMMA SlotsBound ==
  ASSUME FramesInv, NEW s \in 1 .. Len(Scopes), NEW i \in Slots(Scopes[s])
  PROVE  i \in 1 .. Running.bound
<1> DEFINE n == Len(Scopes)
<1>1. /\ Scopes \in Seq(Lexical) /\ Nested(Scopes, Running.bound) /\ Running.bound \in Nat
      /\ n \in Nat /\ n > 0 /\ s \in 1 .. n /\ n \in 1 .. n
      /\ Scopes[n].first \in Nat /\ Scopes[n].size \in Nat
      /\ Scopes[n].first + Scopes[n].size = Running.bound + 1
  BY RunningProperties DEF Top
<1>2. Scopes[s] \in Lexical
  BY <1>1, ElementOfSeq
<1>3. Scopes[s].first \in Nat /\ Scopes[s].first > 0 /\ Scopes[s].size \in Nat
  BY <1>2 DEF Lexical
<1> HIDE DEF n
<1>4. s < n => Scopes[s].first + Scopes[s].size <= Scopes[n].first
  BY <1>1 DEF Nested, n
<1>5. i \in Scopes[s].first .. (Scopes[s].first + Scopes[s].size - 1)
  BY DEF Slots
<1>6. CASE s = n
  BY <1>1, <1>3, <1>5, <1>6
<1>7. CASE s < n
  <2>1. Scopes[s].first + Scopes[s].size <= Running.bound + 1
    BY <1>1, <1>3, <1>4, <1>7
  <2> QED
    BY <1>1, <1>3, <1>5, <2>1
<1> QED
  BY <1>1, <1>6, <1>7

(* The scopes as they are.                                                 *)
LEMMA SameScopes ==
  ASSUME FramesInv, acts' = acts, rsp' = rsp, gcframe' = gcframe,
         mem' \in [Addresses -> StackWords],
         \A x \in 1 .. rsp : mem'[x] = mem[x],
         \A i \in 1 .. Running.bound : mem'[rsp + i] \in Values,
         status' \in {"run", "mistyped", "undefined"}
  PROVE  FramesInv'
<1>1. acts' = [acts EXCEPT ![Len(acts)] = Running]
  BY RunningProperties DEF FramesInv, Lexicons, Running
<1>2. /\ Running \in Frame /\ Running.base = rsp /\ gcframe = rsp + Running.bound /\ gcframe <= MaxWords
      /\ Nested(Running.scopes, Running.bound)
      /\ Running.scopes[Len(Running.scopes)].kind # "call"
  BY RunningProperties DEF Scopes, Top
<1> QED
  BY <1>1, <1>2, RunningChanges

LEMMA SetVariableStep ==
  ASSUME FramesInv, SetVariable
  PROVE  FramesInv'
<1>1. PICK s \in 1 .. Len(Scopes), v \in Results : \E i \in Slots(Scopes[s]) : Store(i, v)
  BY DEF SetVariable
<1>2. PICK i \in Slots(Scopes[s]) : Store(i, v)
  BY <1>1
<1>3. i \in 1 .. Running.bound
  BY SlotsBound
<1>4. acts' = acts /\ rsp' = rsp /\ gcframe' = gcframe /\ status' = status
  BY DEF SetVariable
<1>5. status \in {"run", "mistyped", "undefined"}
  BY DEF FramesInv, TypeOK
<1> QED
  BY <1>2, <1>3, <1>4, <1>5, StoreStep, SameScopes

LEMMA RuntimeCallStep ==
  ASSUME FramesInv, RuntimeCall
  PROVE  FramesInv'
<1>1. /\ acts' = acts /\ rsp' = rsp /\ gcframe' = gcframe /\ status' = status
      /\ mem' = [a \in Addresses |-> IF a > rsp + Running.bound THEN Junk ELSE mem[a]]
  BY DEF RuntimeCall, BelowSlots
<1>2. /\ mem \in [Addresses -> StackWords] /\ status \in {"run", "mistyped", "undefined"}
  BY DEF FramesInv, TypeOK, StackWords
<1>3. /\ rsp \in Nat /\ Running.bound \in Nat /\ MaxWords \in Nat
      /\ gcframe = rsp + Running.bound /\ gcframe <= MaxWords
      /\ \A i \in 1 .. Running.bound : mem[rsp + i] \in Values
  BY RunningProperties, FrameAssumption
<1>4. mem' \in [Addresses -> StackWords]
  BY <1>1, <1>2 DEF StackWords
<1>5. \A x \in 1 .. (rsp + Running.bound) : mem'[x] = mem[x]
  <2> TAKE x \in 1 .. (rsp + Running.bound)
  <2>1. x \in Addresses /\ ~(x > rsp + Running.bound)
    BY <1>3 DEF Addresses
  <2> QED
    BY <1>1, <2>1
<1>6. \A x \in 1 .. rsp : x \in 1 .. (rsp + Running.bound)
  BY <1>3
<1>7. \A i \in 1 .. Running.bound : rsp + i \in 1 .. (rsp + Running.bound)
  BY <1>3
<1> QED
  BY <1>1, <1>2, <1>3, <1>4, <1>5, <1>6, <1>7, SameScopes

LEMMA FailStep ==
  ASSUME FramesInv, Fail
  PROVE  FramesInv'
<1>1. /\ acts' = acts /\ rsp' = rsp /\ gcframe' = gcframe /\ mem' = mem
      /\ status' \in {"run", "mistyped", "undefined"}
  BY DEF Fail
<1>2. mem \in [Addresses -> StackWords]
  BY DEF FramesInv, TypeOK, StackWords
<1> QED
  BY <1>1, <1>2, RunningProperties, SameScopes


-----------------------------------------------------------------------------
(* Preparing a call.                                                       *)

LEMMA BeginTailCallStep ==
  ASSUME FramesInv, BeginTailCall
  PROVE  FramesInv'
<1>1. PICK n \in 0 .. MaxArgs :
        /\ Bound(n + 1)
        /\ Rescope(Append(Scopes, Scope("tail", Offset, n + 1, 0)), Running.bound + n + 1)
  BY DEF BeginTailCall
<1> DEFINE tail == Scope("tail", Running.bound + 1, n + 1, 0)
           scopes == Append(Scopes, tail)
<1>2. rsp' = rsp /\ status' = status
  BY DEF BeginTailCall
<1>3. /\ Scopes \in Seq(Lexical) /\ Nested(Scopes, Running.bound) /\ Running.bound \in Nat
      /\ Scopes[Len(Scopes)].kind # "call" /\ n \in Nat
  BY RunningProperties, FrameAssumption DEF Top
<1>4. /\ Running.bound + n + 1 = Running.bound + (n + 1) /\ Running.bound + (n + 1) \in Nat
      /\ n + 1 \in Nat /\ n + 1 > 0 /\ n + 1 <= MaxArgs + 1
      /\ Running.bound + 1 \in Nat \ {0}
  <2>1. n \in Nat /\ Running.bound \in Nat
    BY <1>3
  <2>2. n \in 0 .. MaxArgs /\ MaxArgs \in Nat
    BY FrameAssumption
  <2>3. \A b, k, m \in Nat :
          k \in 0 .. m =>
            /\ b + k + 1 = b + (k + 1) /\ b + (k + 1) \in Nat
            /\ k + 1 \in Nat /\ k + 1 > 0 /\ k + 1 <= m + 1
            /\ b + 1 \in Nat \ {0}
    OBVIOUS
  <2> QED
    BY <2>1, <2>2, <2>3
<1>5. Rescope(scopes, Running.bound + (n + 1))
  BY <1>1, <1>4 DEF Offset
<1>6. /\ tail \in Lexical /\ Sized(tail) /\ tail.kind = "tail"
      /\ tail.first = Running.bound + 1 /\ tail.size = n + 1
  <2>1. /\ tail \in Lexical /\ tail.kind = "tail" /\ tail.first = Running.bound + 1
        /\ tail.size = n + 1 /\ tail.done = 0
    BY <1>4 DEF Scope, Lexical, Kinds
  <2> QED
    BY <1>4, <2>1 DEF Sized
<1> HIDE DEF tail
<1>7. Nested(scopes, Running.bound + (n + 1))
  BY <1>3, <1>6, NestedAppend
<1>8. scopes \in Seq(Lexical) /\ scopes[Len(scopes)].kind # "call"
  BY <1>3, <1>6, AppendScope
<1> HIDE DEF scopes
<1> QED
  BY <1>1, <1>2, <1>4, <1>5, <1>7, <1>8, BoundStep, RescopeStep

LEMMA AppendTwo ==
  ASSUME NEW S, NEW s \in Seq(S), NEW e \in S, NEW f \in S
  PROVE  s \o <<e, f>> = Append(Append(s, e), f)
<1>1. /\ s \o <<e, f>> \in Seq(S) /\ Len(s \o <<e, f>>) = Len(s) + 2
      /\ \A i \in 1 .. Len(s) + 2 :
           (s \o <<e, f>>)[i] = IF i <= Len(s) THEN s[i] ELSE <<e, f>>[i - Len(s)]
  BY ConcatProperties
<1>2. /\ Append(Append(s, e), f) \in Seq(S) /\ Len(Append(Append(s, e), f)) = Len(s) + 2
      /\ \A i \in 1 .. Len(s) : Append(Append(s, e), f)[i] = s[i]
      /\ Append(Append(s, e), f)[Len(s) + 1] = e /\ Append(Append(s, e), f)[Len(s) + 2] = f
  OBVIOUS
<1>3. Len(s) \in Nat /\ <<e, f>>[1] = e /\ <<e, f>>[2] = f
  OBVIOUS
<1>4. \A i \in 1 .. Len(s) + 2 : (s \o <<e, f>>)[i] = Append(Append(s, e), f)[i]
  BY <1>1, <1>2, <1>3
<1> QED
  BY <1>1, <1>2, <1>4, SeqEqual

LEMMA BeginCallStep ==
  ASSUME FramesInv, BeginCall
  PROVE  FramesInv'
<1>1. PICK n \in 0 .. MaxArgs :
        /\ Bound(n + 3)
        /\ Rescope(Scopes \o <<Scope("call", Offset, 2, 2), Scope("args", Offset + 2, n + 1, 0)>>,
                   Running.bound + n + 3)
  BY DEF BeginCall
<1> DEFINE b == Running.bound
           call == Scope("call", b + 1, 2, 2)
           args == Scope("args", b + 1 + 2, n + 1, 0)
           linked == Append(Scopes, call)
           scopes == Append(linked, args)
<1>2. rsp' = rsp /\ status' = status
  BY DEF BeginCall
<1>3. /\ Scopes \in Seq(Lexical) /\ Nested(Scopes, b) /\ b \in Nat
      /\ Scopes[Len(Scopes)].kind # "call" /\ n \in Nat
  BY RunningProperties, FrameAssumption DEF Top
<1>4. /\ call \in Lexical /\ Sized(call) /\ call.kind = "call"
      /\ call.first = b + 1 /\ call.size = 2
  <2>1. b + 1 \in Nat \ {0}
    BY <1>3
  <2>2. /\ call \in Lexical /\ call.kind = "call" /\ call.first = b + 1
        /\ call.size = 2 /\ call.done = 2
    BY <2>1 DEF Scope, Lexical, Kinds
  <2> QED
    BY <2>2 DEF Sized
<1>5. /\ args \in Lexical /\ Sized(args) /\ args.kind = "args"
      /\ args.first = b + 2 + 1 /\ args.size = n + 1
  <2>1. /\ b + 1 + 2 \in Nat \ {0} /\ b + 1 + 2 = b + 2 + 1
        /\ n + 1 \in Nat /\ n + 1 > 0 /\ n + 1 <= MaxArgs + 1
    BY <1>3, FrameAssumption
  <2>2. /\ args \in Lexical /\ args.kind = "args" /\ args.first = b + 1 + 2
        /\ args.size = n + 1 /\ args.done = 0
    BY <2>1 DEF Scope, Lexical, Kinds
  <2> QED
    BY <2>1, <2>2 DEF Sized
<1>6. /\ b + n + 3 = b + (n + 3) /\ b + 2 + (n + 1) = b + (n + 3)
      /\ b + 2 \in Nat /\ b + (n + 3) \in Nat /\ n + 3 \in Nat
  BY <1>3
<1>7. Rescope(scopes, b + (n + 3))
  <2>1. Scopes \o <<call, args>> = scopes
    BY <1>3, <1>4, <1>5, AppendTwo
  <2>2. Rescope(Scopes \o <<call, args>>, b + n + 3)
    BY <1>1 DEF Offset
  <2> QED
    BY <1>6, <2>1, <2>2
<1>8. Bound(n + 3)
  BY <1>1
<1> HIDE DEF call, args, b
<1>9. Nested(linked, b + 2) /\ linked \in Seq(Lexical) /\ linked[Len(linked)] = call
  BY <1>3, <1>4, NestedAppend, AppendScope
<1> HIDE DEF linked
<1>10. Nested(scopes, b + (n + 3))
  <2>1. Nested(scopes, b + 2 + (n + 1))
    BY <1>4, <1>5, <1>6, <1>9, NestedAppend
  <2> QED
    BY <1>6, <2>1
<1>11. scopes \in Seq(Lexical) /\ scopes[Len(scopes)] = args
  BY <1>5, <1>9, AppendScope
<1>12. scopes[Len(scopes)].kind # "call"
  BY <1>5, <1>11
<1> HIDE DEF scopes
<1> QED
  BY <1>2, <1>6, <1>7, <1>8, <1>10, <1>11, <1>12, BoundStep, RescopeStep DEF b

-----------------------------------------------------------------------------
(* Entering a procedure.                                                   *)

LEMMA EnteredProperties ==
  ASSUME NEW p \in Procs, NEW base \in Nat
  PROVE  LET a == Entered(p, base)
         IN  /\ a \in Frame /\ a.base = base /\ a.bound = Params[p] + Len(Env[p])
             /\ Nested(a.scopes, a.bound) /\ a.scopes[Len(a.scopes)].kind = "params"
             /\ Params[p] \in Nat /\ Len(Env[p]) \in Nat
             /\ Len(a.scopes) = 1 /\ a.scopes[1].kind = "params"
<1> DEFINE size == Params[p] + Len(Env[p])
           scope == Scope("params", 1, size, size)
           a == Entered(p, base)
<1>1. Params[p] \in Nat /\ Len(Env[p]) \in Nat
  BY FrameAssumption, LenProperties
<1>2. size \in Nat
  BY <1>1
<1>3. a = [base |-> base, bound |-> size, scopes |-> <<scope>>]
  BY DEF Entered
<1> HIDE DEF size
<1>4. /\ scope \in Lexical /\ scope.kind = "params" /\ scope.first = 1
      /\ scope.size = size /\ scope.done = size
  BY <1>2, ScopeProperties, KindsNamed
<1> HIDE DEF scope
<1>5. /\ <<scope>> \in Seq(Lexical) /\ Len(<<scope>>) = 1 /\ <<scope>>[1] = scope
  BY <1>4
<1>6. Nested(<<scope>>, size)
  <2>1. Sized(scope)
    BY <1>2, <1>4 DEF Sized
  <2>2. scope.first + scope.size = size + 1
    BY <1>2, <1>4
  <2> QED
    BY <1>4, <1>5, <2>1, <2>2 DEF Nested
<1>7. /\ a \in Frame /\ a.base = base /\ a.bound = size /\ a.scopes = <<scope>>
  BY <1>2, <1>3, <1>5 DEF Frame
<1> HIDE DEF a
<1> QED
  BY <1>1, <1>4, <1>5, <1>6, <1>7 DEF size, a

(* The captured words are copied to where the callee has its slots for     *)
(* them, and nowhere else.                                                 *)
LEMMA EnvCopiedProperties ==
  ASSUME Callee \in Procs, NEW words \in [Addresses -> StackWords], NEW a \in Nat
  PROVE  LET copied == EnvCopied(words, a)
             n == Len(Env[Callee])
         IN  /\ copied \in [Addresses -> StackWords]
             /\ \A b \in Addresses : b < a => copied[b] = words[b]
             /\ \A b \in Addresses : b - a + 1 \in 1 .. n =>
                  copied[b] = Env[Callee][b - a + 1] /\ copied[b] \in Values
<1> DEFINE env == Env[Callee]
           n == Len(env)
           copied == EnvCopied(words, a)
<1>1. env \in Seq(Values)
  BY FrameAssumption
<1>2. n \in Nat /\ DOMAIN env = 1 .. n /\ \A i \in 1 .. n : env[i] \in Values
  BY <1>1, LenProperties, ElementOfSeq
<1>3. copied = [b \in Addresses |-> IF b - a + 1 \in 1 .. n THEN env[b - a + 1] ELSE words[b]]
  BY <1>2 DEF EnvCopied
<1> HIDE DEF env, n, copied
<1>4. copied \in [Addresses -> StackWords]
  BY <1>2, <1>3 DEF StackWords
<1>5. ASSUME NEW b \in Addresses, b < a PROVE copied[b] = words[b]
  <2>1. b - a + 1 \notin 1 .. n
    BY <1>2, <1>5 DEF Addresses
  <2> QED
    BY <1>3, <2>1
<1>6. ASSUME NEW b \in Addresses, b - a + 1 \in 1 .. n
      PROVE  copied[b] = env[b - a + 1] /\ copied[b] \in Values
  BY <1>2, <1>3, <1>6
<1> QED
  BY <1>4, <1>5, <1>6 DEF env, n, copied


(* A set of natural numbers has a least one.                               *)
LEMMA LeastOf ==
  ASSUME NEW S \in SUBSET Nat, S # {}
  PROVE  \E n \in S : \A m \in S : n <= m
<1> DEFINE R == OpToRel(<, Nat)
<1>1. IsWellFoundedOn(R, Nat)
  BY NatLessThanWellFounded
<1>2. \A m, n \in Nat : m < n => <<m, n>> \in R
  BY DEF OpToRel
<1> HIDE DEF R
<1>3. PICK n \in S : \A m \in S : ~(<<m, n>> \in R)
  BY <1>1, WFMin
<1>4. \A m \in S : ~(m < n)
  BY <1>2, <1>3
<1> QED
  BY <1>3, <1>4

(* The arguments are moved one after the other, each from a slot that none *)
(* of the earlier ones was moved to: all arrive.                           *)
LEMMA MovedProperties ==
  ASSUME FramesInv, Top.size > 0
  PROVE  Moved = [x \in Addresses |->
                    IF x - rsp \in 1 .. NArgs THEN mem[x + Top.first - 1] ELSE mem[x]]
<1> DEFINE n == NArgs
           first == Top.first
           D == 0 .. n
           Equation(f) ==
             f = [i \in D |-> IF i = 0 THEN mem
                              ELSE [f[i - 1] EXCEPT ![rsp + i] = f[i - 1][rsp + first + i - 1]]]
           after == CHOOSE f : Equation(f)
           arrived == [i \in D |-> [x \in Addresses |->
                         IF x - rsp \in 1 .. i THEN mem[x + first - 1] ELSE mem[x]]]
<1>1. Moved = after[n]
  BY DEF Moved
<1>2. /\ n \in Nat /\ rsp \in Nat /\ first \in Nat /\ first > 0
      /\ MaxWords \in Nat /\ rsp + first + n <= MaxWords
  <2>1. /\ Top.size \in Nat /\ Top.first \in Nat /\ Top.first > 0 /\ rsp \in Nat /\ Running.bound \in Nat
        /\ Top.first + Top.size = Running.bound + 1
        /\ gcframe = rsp + Running.bound /\ gcframe <= MaxWords /\ MaxWords \in Nat
    BY RunningProperties, FrameAssumption
  <2> QED
    BY <2>1 DEF NArgs
<1>3. mem = [x \in Addresses |-> mem[x]]
  BY DEF FramesInv, TypeOK
<1> HIDE DEF n, first, after
<1>4. arrived[0] = mem
  <2>1. \A x \in Addresses : x - rsp \notin 1 .. 0
    BY <1>2 DEF Addresses
  <2> QED
    BY <1>2, <1>3, <2>1
<1>5. ASSUME NEW i \in D, i # 0
      PROVE  arrived[i] = [arrived[i - 1] EXCEPT ![rsp + i] = arrived[i - 1][rsp + first + i - 1]]
  <2> DEFINE before == arrived[i - 1]
             from == rsp + first + i - 1
  <2>1. /\ i \in Nat /\ i - 1 \in D /\ i \in 1 .. n /\ i - 1 \in Nat
    BY <1>2, <1>5
  <2>2. before = [x \in Addresses |-> IF x - rsp \in 1 .. (i - 1) THEN mem[x + first - 1] ELSE mem[x]]
    BY <2>1
  <2>3. from \in Addresses /\ from - rsp \notin 1 .. (i - 1)
    BY <1>2, <2>1 DEF Addresses
  <2>4. before[from] = mem[from]
    BY <2>2, <2>3
  <2>5. rsp + i \in Addresses /\ rsp + i + first - 1 = from
    BY <1>2, <2>1 DEF Addresses
  <2>6. \A x \in Addresses : x # rsp + i => (x - rsp \in 1 .. i <=> x - rsp \in 1 .. (i - 1))
    BY <1>2, <2>1 DEF Addresses
  <2>7. ASSUME NEW x \in Addresses
        PROVE  (IF x - rsp \in 1 .. i THEN mem[x + first - 1] ELSE mem[x])
                 = IF x = rsp + i THEN mem[from] ELSE before[x]
    <3>1. CASE x = rsp + i
      <4>1. x - rsp \in 1 .. i /\ x + first - 1 = from
        BY <1>2, <2>1, <2>5, <3>1
      <4> QED
        BY <3>1, <4>1
    <3>2. CASE x # rsp + i
      BY <2>2, <2>6, <3>2
    <3> QED
      BY <3>1, <3>2
  <2> HIDE DEF from
  <2>8. arrived[i] = [x \in Addresses |-> IF x = rsp + i THEN mem[from] ELSE before[x]]
    BY <2>7
  <2>9. [before EXCEPT ![rsp + i] = mem[from]]
          = [x \in Addresses |-> IF x = rsp + i THEN mem[from] ELSE before[x]]
    BY <2>2
  <2> QED
    BY <2>4, <2>8, <2>9 DEF from
<1> HIDE DEF arrived
<1>6. Equation(arrived)
  <2>1. arrived = [i \in D |-> arrived[i]]
    BY DEF arrived
  <2>2. \A i \in D : arrived[i] = IF i = 0 THEN mem
          ELSE [arrived[i - 1] EXCEPT ![rsp + i] = arrived[i - 1][rsp + first + i - 1]]
    BY <1>4, <1>5
  <2> QED
    BY <2>1, <2>2
<1>7. Equation(after)
  BY <1>6 DEF after
<1>8. \A i \in D : after[i] = arrived[i]
  <2> DEFINE S == {i \in D : after[i] # arrived[i]}
  <2>1. CASE S = {}
    BY <2>1
  <2>2. CASE S # {}
    <3>1. S \in SUBSET Nat
      BY <1>2
    <3>2. \A i \in D : (i \in S <=> after[i] # arrived[i])
      OBVIOUS
    <3>3. S \subseteq D
      OBVIOUS
    <3> HIDE DEF S
    <3>4. PICK i \in S : \A j \in S : i <= j
      BY <2>2, <3>1, LeastOf
    <3>5. i \in D /\ after[i] # arrived[i]
      BY <3>2, <3>3
    <3>6. after[i] = IF i = 0 THEN mem
            ELSE [after[i - 1] EXCEPT ![rsp + i] = after[i - 1][rsp + first + i - 1]]
      BY <1>7, <3>5
    <3>7. i # 0
      BY <1>4, <3>5, <3>6
    <3>8. i - 1 \in D /\ ~(i <= i - 1)
      BY <1>2, <3>5, <3>7
    <3>9. after[i - 1] = arrived[i - 1]
      BY <3>2, <3>4, <3>8
    <3> QED
      BY <1>5, <3>5, <3>6, <3>7, <3>9
  <2> QED
    BY <2>1, <2>2
<1>9. after[n] = arrived[n] /\ n \in D
  BY <1>2, <1>8
<1> QED
  BY <1>1, <1>9 DEF arrived, n, first

(* Calling what is there to be called.                                     *)
LEMMA CalleeProperties ==
  ASSUME FramesInv, Ready("args") \/ Ready("tail"), Fits
  PROVE  /\ Callee \in Procs /\ Params[Callee] = NArgs /\ NArgs \in Nat
         /\ Top.size = NArgs + 1 /\ Top.first + NArgs = Running.bound
         /\ Top.kind \in {"args", "tail"} /\ NArgs <= MaxArgs
<1>1. /\ Top.size \in Nat /\ Top.first \in Nat /\ Running.bound \in Nat /\ Sized(Top)
      /\ Top.first + Top.size = Running.bound + 1
  BY RunningProperties
<1>2. Top.kind \in {"args", "tail"}
  BY DEF Ready
<1>3. Top.size > 0 /\ Top.size <= MaxArgs + 1
  BY <1>1, <1>2 DEF Sized
<1>4. /\ NArgs \in Nat /\ Top.size = NArgs + 1 /\ Top.first + NArgs = Running.bound
      /\ NArgs <= MaxArgs
  <2>1. /\ Top.size \in Nat /\ Top.size > 0 /\ Top.size <= MaxArgs + 1 /\ MaxArgs \in Nat
        /\ Top.first \in Nat /\ Running.bound \in Nat /\ Top.first + Top.size = Running.bound + 1
    BY <1>1, <1>3, FrameAssumption
  <2> QED
    BY <2>1 DEF NArgs
<1> QED
  BY <1>2, <1>4 DEF Fits

LEMMA TailCallStep ==
  ASSUME FramesInv, TailCall
  PROVE  FramesInv'
<1> DEFINE n == NArgs
           env == Env[Callee]
           a == Entered(Callee, rsp)
           first == Top.first
           b == Running.bound
<1>1. /\ Ready("tail") /\ Fits /\ RoomFor(a)
      /\ mem' = EnvCopied(Moved, rsp + 1 + n)
      /\ gcframe' = FramePopped + a.bound
      /\ acts' = [acts EXCEPT ![Len(acts)] = a]
      /\ rsp' = rsp /\ status' = status
  BY DEF TailCall
<1>2. /\ Callee \in Procs /\ Params[Callee] = n /\ n \in Nat
      /\ Top.size = n + 1 /\ first + n = b
  BY <1>1, CalleeProperties
<1>3. /\ rsp \in Nat /\ first \in Nat /\ first > 0 /\ b \in Nat
      /\ gcframe = rsp + b /\ gcframe <= MaxWords /\ MaxWords \in Nat
      /\ \A i \in 1 .. b : mem[rsp + i] \in Values
  BY RunningProperties, FrameAssumption
<1>4. /\ a \in Frame /\ a.base = rsp /\ a.bound = n + Len(env) /\ Len(env) \in Nat
      /\ Nested(a.scopes, a.bound) /\ a.scopes[Len(a.scopes)].kind # "call"
  BY <1>2, <1>3, EnteredProperties
<1>5. Top.size > 0
  BY <1>2
<1>6. Moved = [x \in Addresses |-> IF x - rsp \in 1 .. n THEN mem[x + first - 1] ELSE mem[x]]
  BY <1>5, MovedProperties
<1>7. rsp + a.bound <= MaxWords
  BY <1>1, <1>4 DEF RoomFor
<1>8. gcframe' = rsp + a.bound
  <2>1. FramePopped = gcframe - (n + 1) - (first - 1)
    BY <1>2 DEF FramePopped
  <2>2. gcframe - (n + 1) - (first - 1) = rsp
    BY <1>2, <1>3
  <2> QED
    BY <1>1, <2>1, <2>2
<1>9. status' \in {"run", "mistyped", "undefined"} /\ mem \in [Addresses -> StackWords]
  BY <1>1 DEF FramesInv, TypeOK, StackWords
<1> HIDE DEF n, env, a, first, b
<1>10. \A i \in 1 .. n : /\ rsp + i + first - 1 \in Addresses
                         /\ mem[rsp + i + first - 1] \in Values
  <2> TAKE i \in 1 .. n
  <2>1. i + first - 1 \in 1 .. b
    BY <1>2, <1>3
  <2>2. rsp + i + first - 1 = rsp + (i + first - 1) /\ rsp + (i + first - 1) \in Addresses
    BY <1>2, <1>3, <2>1 DEF Addresses
  <2> QED
    BY <1>3, <2>1, <2>2
<1>11. Moved \in [Addresses -> StackWords]
  <2>1. ASSUME NEW x \in Addresses, x - rsp \in 1 .. n PROVE mem[x + first - 1] \in StackWords
    <3>1. rsp + (x - rsp) + first - 1 = x + first - 1
      BY <1>2, <1>3 DEF Addresses
    <3>2. mem[rsp + (x - rsp) + first - 1] \in Values
      BY <1>10, <2>1
    <3> QED
      BY <3>1, <3>2 DEF StackWords
  <2> QED
    BY <1>6, <1>9, <2>1
<1>12. /\ mem' \in [Addresses -> StackWords]
       /\ \A x \in Addresses : x < rsp + 1 + n => mem'[x] = Moved[x]
       /\ \A x \in Addresses : x - (rsp + 1 + n) + 1 \in 1 .. Len(env) =>
            mem'[x] = env[x - (rsp + 1 + n) + 1] /\ mem'[x] \in Values
  <2>1. rsp + 1 + n \in Nat
    BY <1>2, <1>3
  <2> QED
    BY <1>1, <1>2, <1>11, <2>1, EnvCopiedProperties DEF env
<1>13. ASSUME NEW x \in 1 .. rsp PROVE mem'[x] = mem[x]
  <2>1. x \in Addresses /\ x < rsp + 1 + n /\ x - rsp \notin 1 .. n
    BY <1>2, <1>3 DEF Addresses
  <2> QED
    BY <1>6, <1>12, <2>1
<1>14. ASSUME NEW i \in 1 .. a.bound, NEW x, x = rsp + i PROVE mem'[x] \in Values
  <2>1. x \in Addresses /\ x - rsp = i
    <3>1. a.bound \in Nat
      BY <1>2, <1>4
    <3> QED
      BY <1>3, <1>7, <1>14, <3>1 DEF Addresses
  <2>2. CASE i <= n
    <3>1. x < rsp + 1 + n /\ x - rsp \in 1 .. n /\ x + first - 1 = rsp + i + first - 1
      BY <1>2, <1>3, <1>14, <2>1, <2>2
    <3>2. mem'[x] = mem[x + first - 1]
      BY <1>6, <1>12, <2>1, <3>1
    <3> QED
      BY <1>10, <2>1, <3>1, <3>2
  <2>3. CASE i > n
    <3>1. x - (rsp + 1 + n) + 1 \in 1 .. Len(env)
      BY <1>2, <1>3, <1>4, <1>14, <2>3
    <3> QED
      BY <1>12, <2>1, <3>1
  <2> QED
    BY <1>2, <2>2, <2>3
<1>15. \A i \in 1 .. a.bound : mem'[rsp + i] \in Values
  BY <1>14
<1> QED
  BY <1>1, <1>4, <1>7, <1>8, <1>9, <1>12, <1>13, <1>15, RunningChanges


(* What a call leaves in memory, from the marker on.                       *)
LEMMA CallMemory ==
  ASSUME FramesInv, Call
  PROVE  LET n   == NArgs
             env == Env[Callee]
             at  == rsp + Top.first - 1
         IN  /\ mem' \in [Addresses -> StackWords]
             /\ at \in Addresses /\ rsp < at - 1
             /\ \A x \in Addresses : x < at - 1 => mem'[x] = mem[x]
             /\ mem'[at - 1] = Marker /\ mem'[at] = ReturnTo(Len(acts))
             /\ \A i \in 1 .. n : mem'[at + i] = mem[at + i] /\ mem[at + i] \in Values
             /\ \A i \in 1 .. Len(env) : mem'[at + n + i] = env[i] /\ env[i] \in Values
<1> DEFINE n == NArgs
           env == Env[Callee]
           at == rsp + Top.first - 1
           marker == rsp + Top.first - 2
           marked == [mem EXCEPT ![marker] = Marker]
           copied == EnvCopied(marked, marker + 2 + n)
           b == Running.bound
<1>1. /\ Ready("args") /\ Fits /\ Len(acts) < MaxActs
      /\ RoomFor(Entered(Callee, marker + 1))
      /\ mem' = [copied EXCEPT ![marker + 1] = ReturnTo(Len(acts))]
  BY DEF Call, Marked
<1>2. /\ Callee \in Procs /\ Params[Callee] = n /\ n \in Nat
      /\ Top.size = n + 1 /\ Top.first + n = b
  BY <1>1, CalleeProperties
<1>3. /\ rsp \in Nat /\ Top.first \in Nat /\ Top.first > 0 /\ b \in Nat
      /\ gcframe = rsp + b /\ gcframe <= MaxWords /\ MaxWords \in Nat
      /\ \A i \in 1 .. b : mem[rsp + i] \in Values
      /\ Len(acts) \in Nat /\ Len(acts) > 0 /\ MaxActs \in Nat
  BY RunningProperties, FrameAssumption
<1>4. Top.first > 2
  <2>1. /\ Scopes \in Seq(Lexical) /\ Nested(Scopes, b) /\ Top.kind = "args"
        /\ Len(Scopes) \in Nat
    BY <1>1, RunningProperties DEF Ready
  <2>2. /\ Outer \in Seq(Lexical) /\ Nested(Outer, Top.first - 1)
        /\ Outer[Len(Outer)].kind = "call"
    BY <1>3, <2>1, NestedOuter DEF Top, Outer
  <2>3. /\ Len(Outer) \in 1 .. Len(Outer)
    BY <2>2, LenProperties DEF Nested
  <2>4. /\ Outer[Len(Outer)] \in Lexical /\ Outer[Len(Outer)].size = 2
        /\ Outer[Len(Outer)].first + Outer[Len(Outer)].size = Top.first - 1 + 1
    BY <2>2, <2>3, ElementOfSeq DEF Nested, Sized
  <2>5. Outer[Len(Outer)].first \in Nat /\ Outer[Len(Outer)].first > 0
    BY <2>4 DEF Lexical
  <2> QED
    BY <1>3, <2>4, <2>5
<1>5. /\ mem \in [Addresses -> StackWords] /\ Marker \in StackWords /\ ReturnTo(Len(acts)) \in StackWords
  BY <1>1, <1>3 DEF FramesInv, TypeOK, StackWords, Returns, ReturnTo
<1>6. /\ Len(env) \in Nat /\ at + n + Len(env) <= MaxWords
  <2>1. marker + 1 \in Nat /\ marker + 1 = at
    BY <1>3, <1>4
  <2>2. /\ Entered(Callee, marker + 1).base = marker + 1
        /\ Entered(Callee, marker + 1).bound = n + Len(env)
        /\ Len(env) \in Nat
    BY <1>2, <2>1, EnteredProperties
  <2>3. marker + 1 + (n + Len(env)) <= MaxWords
    BY <1>1, <2>2 DEF RoomFor
  <2> HIDE DEF env, n, marker, at
  <2>4. at \in Nat /\ at + (n + Len(env)) <= MaxWords /\ Len(env) \in Nat /\ n \in Nat
    BY <1>2, <2>1, <2>2, <2>3
  <2>5. at + (n + Len(env)) = at + n + Len(env)
    BY <2>4
  <2> QED
    BY <2>4, <2>5
<1>7. /\ marker + 1 = at /\ marker = at - 1 /\ at \in Nat /\ marker \in Addresses /\ at \in Addresses
      /\ marker + 2 + n \in Nat /\ marker + 2 + n = at + n + 1 /\ rsp < at - 1
  <2> HIDE DEF n, env, marked, copied, b
  <2> DEFINE first == Top.first
             e == Len(env)
  <2>1. /\ rsp \in Nat /\ first \in Nat /\ first > 2 /\ n \in Nat /\ e \in Nat /\ MaxWords \in Nat
        /\ at = rsp + first - 1 /\ marker = rsp + first - 2 /\ at + n + e <= MaxWords
    BY <1>2, <1>3, <1>4, <1>6
  <2> HIDE DEF at, marker, first, e
  <2> QED
    BY <2>1 DEF Addresses
<1>8. marked \in [Addresses -> StackWords]
  BY <1>5, <1>7
<1>9. /\ copied \in [Addresses -> StackWords]
      /\ \A x \in Addresses : x < marker + 2 + n => copied[x] = marked[x]
      /\ \A x \in Addresses : x - (marker + 2 + n) + 1 \in 1 .. Len(env) =>
           copied[x] = env[x - (marker + 2 + n) + 1] /\ copied[x] \in Values
  BY <1>2, <1>7, <1>8, EnvCopiedProperties
<1>10. /\ marked[marker] = Marker
       /\ \A x \in Addresses : x # marker => marked[x] = mem[x]
  BY <1>5, <1>7
<1> HIDE DEF marked, copied, env, n, at, marker, b
<1>11. /\ mem' \in [Addresses -> StackWords]
       /\ mem'[at] = ReturnTo(Len(acts))
       /\ \A x \in Addresses : x # at => mem'[x] = copied[x]
  BY <1>1, <1>5, <1>7, <1>9
<1>12. ASSUME NEW x \in Addresses, x < at - 1 PROVE mem'[x] = mem[x]
  <2>1. x # at /\ x # marker /\ x < marker + 2 + n
    BY <1>2, <1>7, <1>12 DEF Addresses
  <2> QED
    BY <1>9, <1>10, <1>11, <2>1
<1>13. mem'[at - 1] = Marker
  <2>1. marker # at /\ marker < marker + 2 + n
    BY <1>2, <1>7 DEF Addresses
  <2> QED
    BY <1>7, <1>9, <1>10, <1>11, <2>1
<1>14. ASSUME NEW i \in 1 .. n, NEW x, x = at + i
       PROVE  mem'[x] = mem[x] /\ mem[x] \in Values
  <2>1. x \in Addresses /\ x # at /\ x # marker /\ x < marker + 2 + n
    <3>1. /\ i \in 1 .. n /\ n \in Nat /\ at \in Nat /\ at > 0 /\ marker = at - 1
          /\ at + n <= MaxWords /\ MaxWords \in Nat
      BY <1>2, <1>3, <1>6, <1>7 DEF Addresses
    <3> QED
      BY <1>14, <3>1 DEF Addresses
  <2>2. mem'[x] = mem[x]
    BY <1>9, <1>10, <1>11, <2>1
  <2>3. PICK j \in 1 .. b : x = rsp + j
    <3>1. Top.first - 1 + i \in 1 .. b /\ x = rsp + (Top.first - 1 + i)
      BY <1>2, <1>3, <1>4, <1>14, SMTT(30) DEF at
    <3> QED
      BY <3>1
  <2> QED
    BY <1>3, <2>2, <2>3
<1>15. ASSUME NEW i \in 1 .. Len(env), NEW x, x = at + n + i
       PROVE  mem'[x] = env[i] /\ env[i] \in Values
  <2>1. x \in Addresses /\ x # at /\ x - (marker + 2 + n) + 1 = i
    <3> DEFINE e == Len(env)
    <3>1. /\ i \in 1 .. e /\ e \in Nat /\ n \in Nat /\ at \in Nat /\ at > 0 /\ marker = at - 1
          /\ at + n + e <= MaxWords /\ MaxWords \in Nat
      BY <1>2, <1>3, <1>6, <1>7 DEF Addresses
    <3> HIDE DEF e
    <3> QED
      BY <1>15, <3>1 DEF Addresses
  <2>2. mem'[x] = copied[x]
    BY <1>11, <2>1
  <2> QED
    BY <1>9, <2>1, <2>2
<1> QED
  BY <1>7, <1>11, <1>12, <1>13, <1>14, <1>15 DEF n, env, at

(* The caller keeps its slots up to the link, and the callee comes behind. *)
LEMMA CallEffect ==
  ASSUME FramesInv, Call
  PROVE  LET n      == Len(acts)
             at     == rsp + Top.first - 1
             callee == Entered(Callee, at)
             caller == [base |-> rsp, bound |-> Top.first - 1, scopes |-> Outer]
         IN  /\ caller \in Frame /\ callee \in Frame
             /\ acts' \in Seq(Frame) /\ Len(acts') = n + 1
             /\ acts'[n + 1] = callee /\ acts'[n] = caller
             /\ \A k \in 1 .. n : k # n => acts'[k] = acts[k]
<1> DEFINE n == Len(acts)
           at == rsp + Top.first - 1
           callee == Entered(Callee, at)
           caller == [base |-> rsp, bound |-> Top.first - 1, scopes |-> Outer]
<1>1. /\ Ready("args") /\ Fits /\ n < MaxActs /\ status' = status
      /\ LET c == Entered(Callee, rsp + Top.first - 2 + 1)
         IN  /\ RoomFor(c)
             /\ rsp' = rsp + Top.first - 2 + 1
             /\ gcframe' = ArgumentsPopped + c.bound
             /\ acts' = Append([acts EXCEPT ![n] = [@ EXCEPT !.scopes = Outer, !.bound = Top.first - 1]], c)
  BY DEF Call
<1>2. /\ n \in Nat /\ n > 0 /\ n \in 1 .. n /\ acts \in Seq(Frame)
      /\ Running \in Frame /\ Running.base = rsp /\ Running = acts[n]
      /\ rsp \in Nat /\ Running.bound \in Nat /\ MaxWords \in Nat /\ MaxActs \in Nat
      /\ gcframe = rsp + Running.bound /\ gcframe \in Nat
      /\ Top.first \in Nat /\ Top.first > 0
      /\ \A i \in 1 .. Running.bound : mem[rsp + i] \in Values
  BY RunningProperties, FrameAssumption DEF FramesInv, Lexicons, Running
<1>3. /\ Callee \in Procs /\ Params[Callee] = NArgs /\ NArgs \in Nat
      /\ Top.size = NArgs + 1 /\ Top.first + NArgs = Running.bound
  BY <1>1, CalleeProperties
<1>4. /\ Outer \in Seq(Lexical) /\ Nested(Outer, Top.first - 1)
      /\ Outer[Len(Outer)].kind = "call"
  BY <1>1, RunningProperties, NestedOuter DEF Top, Outer, Ready
<1>5. rsp + Top.first - 2 + 1 = at /\ at \in Nat /\ at > rsp /\ Top.first - 1 \in Nat /\ at = rsp + (Top.first - 1)
  <2>1. at \in Addresses /\ rsp < at - 1
    BY CallMemory
  <2> QED
    BY <1>2, <2>1, SMTT(30) DEF Addresses
<1>6. /\ callee \in Frame /\ callee.base = at
      /\ Nested(callee.scopes, callee.bound) /\ callee.scopes[Len(callee.scopes)].kind # "call"
      /\ Len(Env[Callee]) \in Nat
  BY <1>3, <1>5, EnteredProperties
<1>7. /\ caller \in Frame /\ caller.base = rsp /\ caller.bound = Top.first - 1 /\ caller.scopes = Outer
  BY <1>2, <1>4, <1>5 DEF Frame
<1>8. [acts[n] EXCEPT !.scopes = Outer, !.bound = Top.first - 1] = caller
  <2> DEFINE r == [acts[n] EXCEPT !.scopes = Outer, !.bound = Top.first - 1]
  <2>1. /\ r \in Frame /\ r.base = acts[n].base /\ r.bound = Top.first - 1 /\ r.scopes = Outer
    BY <1>2, <1>4, <1>5 DEF Frame
  <2> HIDE DEF r, caller
  <2>2. r = caller
    BY <1>2, <1>7, <2>1, FrameEqual
  <2> QED
    BY <2>2 DEF r
<1>9. acts' = Append([acts EXCEPT ![n] = caller], callee)
  BY <1>1, <1>5, <1>8
<1> HIDE DEF n, caller, callee, at
<1>10. /\ acts' \in Seq(Frame) /\ Len(acts') = n + 1
       /\ acts'[n + 1] = callee /\ acts'[n] = caller
       /\ \A k \in 1 .. n : k # n => acts'[k] = acts[k]
  <2>1. /\ [acts EXCEPT ![n] = caller] \in Seq(Frame) /\ Len([acts EXCEPT ![n] = caller]) = n
        /\ \A k \in 1 .. n : [acts EXCEPT ![n] = caller][k] = IF k = n THEN caller ELSE acts[k]
    BY <1>2, <1>7, ExceptSeq DEF n
  <2> QED
    BY <1>2, <1>6, <1>9, <2>1, AppendProperties
<1> QED
  BY <1>6, <1>7, <1>10 DEF n, at, callee, caller

LEMMA CallStep ==
  ASSUME FramesInv, Call
  PROVE  FramesInv'
<1> DEFINE n == Len(acts)
           at == rsp + Top.first - 1
           callee == Entered(Callee, at)
           caller == [base |-> rsp, bound |-> Top.first - 1, scopes |-> Outer]
           size == NArgs + Len(Env[Callee])
<1>1. /\ Ready("args") /\ Fits /\ n < MaxActs /\ status' = status
      /\ LET c == Entered(Callee, rsp + Top.first - 2 + 1)
         IN  /\ RoomFor(c)
             /\ rsp' = rsp + Top.first - 2 + 1
             /\ gcframe' = ArgumentsPopped + c.bound
             /\ acts' = Append([acts EXCEPT ![n] = [@ EXCEPT !.scopes = Outer, !.bound = Top.first - 1]], c)
  BY DEF Call
<1>2. /\ n \in Nat /\ n > 0 /\ n \in 1 .. n /\ acts \in Seq(Frame)
      /\ Running \in Frame /\ Running.base = rsp /\ Running = acts[n]
      /\ rsp \in Nat /\ Running.bound \in Nat /\ MaxWords \in Nat /\ MaxActs \in Nat
      /\ gcframe = rsp + Running.bound /\ gcframe \in Nat
      /\ Top.first \in Nat /\ Top.first > 0
      /\ \A i \in 1 .. Running.bound : mem[rsp + i] \in Values
  BY RunningProperties, FrameAssumption DEF FramesInv, Lexicons, Running
<1>3. /\ Callee \in Procs /\ Params[Callee] = NArgs /\ NArgs \in Nat
      /\ Top.size = NArgs + 1 /\ Top.first + NArgs = Running.bound
  BY <1>1, CalleeProperties
<1>4. /\ Outer \in Seq(Lexical) /\ Nested(Outer, Top.first - 1)
      /\ Outer[Len(Outer)].kind = "call"
  BY <1>1, RunningProperties, NestedOuter DEF Top, Outer, Ready
<1>5. rsp + Top.first - 2 + 1 = at /\ at \in Nat /\ at > rsp /\ Top.first - 1 \in Nat /\ at = rsp + (Top.first - 1)
  <2>1. at \in Addresses /\ rsp < at - 1
    BY CallMemory
  <2> QED
    BY <1>2, <2>1, SMTT(30) DEF Addresses
<1>6. /\ callee \in Frame /\ callee.base = at /\ callee.bound = size
      /\ Nested(callee.scopes, callee.bound) /\ callee.scopes[Len(callee.scopes)].kind # "call"
      /\ Len(Env[Callee]) \in Nat
  BY <1>3, <1>5, EnteredProperties
<1>7. size \in Nat
  BY <1>3, <1>6
<1>8. /\ rsp' = at /\ gcframe' = at + size /\ at + size <= MaxWords
  <2>1. rsp' = at /\ at + size <= MaxWords /\ gcframe' = ArgumentsPopped + size
    BY <1>1, <1>5, <1>6 DEF RoomFor
  <2>2. ArgumentsPopped = at
    <3>1. /\ ArgumentsPopped = gcframe - (NArgs + 1) /\ gcframe = rsp + (Top.first + NArgs)
          /\ rsp \in Nat /\ Top.first \in Nat /\ NArgs \in Nat /\ at = rsp + (Top.first - 1)
      BY <1>2, <1>3, <1>5 DEF ArgumentsPopped
    <3> HIDE DEF at
    <3> QED
      BY <3>1
  <2> QED
    BY <2>1, <2>2
<1>9. /\ caller \in Frame /\ caller.base = rsp /\ caller.bound = Top.first - 1 /\ caller.scopes = Outer
  BY <1>2, <1>4, <1>5 DEF Frame
<1>12. /\ acts' \in Seq(Frame) /\ Len(acts') = n + 1
       /\ acts'[n + 1] = callee /\ acts'[n] = caller
       /\ \A k \in 1 .. n : k # n => acts'[k] = acts[k]
  BY CallEffect
<1> HIDE DEF n, caller, callee, at, size
<1>13. /\ \A k \in 1 .. n : acts'[k].base = acts[k].base
       /\ \A k \in 1 .. n : /\ acts[k].base \in Nat /\ acts[k].bound \in Nat
                            /\ k < n => acts[k].base + acts[k].bound <= rsp
  <2>1. \A k \in 1 .. n : acts'[k].base = acts[k].base
    BY <1>2, <1>9, <1>12
  <2> QED
    BY <2>1, FrameProperties DEF n
<1>14. TypeOK'
  <2>1. /\ mem' \in [Addresses -> StackWords]
        /\ status' \in {"run", "mistyped", "undefined"}
    BY <1>1, CallMemory DEF FramesInv, TypeOK
  <2>2. rsp' \in 0 .. MaxWords /\ gcframe' \in 0 .. MaxWords /\ Len(acts') \in 1 .. MaxActs
    <3>1. n \in Nat /\ n > 0 /\ n < MaxActs /\ MaxActs \in Nat /\ Len(acts') = n + 1
      BY <1>1, <1>2, <1>12 DEF n
    <3>2. /\ at \in Nat /\ size \in Nat /\ MaxWords \in Nat /\ at + size <= MaxWords
          /\ rsp' = at /\ gcframe' = at + size
      BY <1>2, <1>5, <1>7, <1>8
    <3> QED
      BY <3>1, <3>2
  <2> QED
    BY <2>1, <2>2 DEF TypeOK, StackWords
<1>15. Lexicons'
  <2>1. ASSUME NEW k \in 1 .. n + 1
        PROVE  LET scopes == acts'[k].scopes
               IN  /\ Nested(scopes, acts'[k].bound)
                   /\ scopes[Len(scopes)].kind = "call" <=> k < n + 1
    <3>1. CASE k = n + 1
      BY <1>2, <1>6, <1>12, <3>1
    <3>2. CASE k = n
      BY <1>2, <1>4, <1>9, <1>12, <3>2
    <3>3. CASE k < n
      <4>1. k \in 1 .. n /\ k < n + 1 /\ acts'[k] = acts[k]
        BY <1>2, <1>12, <3>3
      <4> QED
        BY <3>3, <4>1 DEF FramesInv, Lexicons, n
    <3> QED
      BY <1>2, <3>1, <3>2, <3>3
  <2> QED
    BY <1>12, <2>1 DEF Lexicons
<1>16. Stacked'
  <2>1. acts'[1].base = 0
    BY <1>2, <1>13 DEF FramesInv, Stacked
  <2>2. ASSUME NEW k \in 2 .. n + 1 PROVE acts'[k].base = acts'[k - 1].base + acts'[k - 1].bound
    <3>1. CASE k = n + 1
      <4>1. k - 1 = n
        BY <1>2, <3>1
      <4> QED
        BY <1>5, <1>6, <1>9, <1>12, <3>1, <4>1
    <3>2. CASE k # n + 1
      <4>1. k \in 2 .. n /\ k \in 1 .. n /\ k - 1 \in 1 .. n /\ k - 1 # n
        BY <1>2, <3>2
      <4> QED
        BY <1>12, <1>13, <4>1 DEF FramesInv, Stacked, n
    <3> QED
      BY <3>1, <3>2
  <2>3. ASSUME NEW j \in 1 .. n + 1, NEW k \in 1 .. n + 1, j < k
        PROVE  acts'[j].base + acts'[j].bound <= acts'[k].base
    <3>1. CASE k = n + 1 /\ j = n
      BY <1>5, <1>6, <1>9, <1>12, <3>1
    <3>2. CASE k = n + 1 /\ j # n
      <4>1. j \in 1 .. n /\ j < n
        BY <1>2, <2>3, <3>2
      <4>2. /\ acts[j].base + acts[j].bound <= rsp /\ acts'[j] = acts[j]
            /\ acts[j].base \in Nat /\ acts[j].bound \in Nat
        BY <1>12, <1>13, <4>1
      <4>3. acts'[k].base = at
        BY <1>6, <1>12, <3>2
      <4>4. acts[j].base + acts[j].bound \in Nat /\ rsp \in Nat /\ at \in Nat /\ rsp < at
        <5>1. acts[j].base + acts[j].bound \in Nat
          BY <4>2
        <5>2. rsp \in Nat /\ at \in Nat /\ at > rsp
          BY <1>2, <1>5
        <5> QED
          BY <5>1, <5>2
      <4> QED
        BY <4>2, <4>3, <4>4
    <3>3. CASE k # n + 1
      <4>1. k \in 1 .. n /\ j \in 1 .. n /\ j # n
        BY <1>2, <2>3, <3>3
      <4> QED
        BY <1>12, <1>13, <2>3, <4>1 DEF FramesInv, Stacked, n
    <3> QED
      BY <3>1, <3>2, <3>3
  <2>4. ASSUME NEW x \in 1 .. gcframe'
        PROVE  \E k \in 1 .. n + 1 : x - acts'[k].base \in 1 .. acts'[k].bound
    <3>1. CASE x > at
      <4>1. x - at \in 1 .. size /\ n + 1 \in 1 .. n + 1
        <5>1. x \in 1 .. (at + size) /\ at \in Nat /\ size \in Nat /\ x > at
          BY <1>5, <1>7, <1>8, <3>1
        <5> QED
          BY <1>2, <5>1
      <4> QED
        BY <1>6, <1>12, <4>1
    <3>2. CASE x > rsp /\ x <= at
      <4>1. x - rsp \in 1 .. (Top.first - 1) /\ n \in 1 .. n + 1
        BY <1>2, <1>5, <3>2
      <4> QED
        BY <1>9, <1>12, <4>1
    <3>3. CASE x <= rsp
      <4>1. x \in 1 .. gcframe
        BY <1>2, <3>3
      <4>2. PICK k \in 1 .. n : x - acts[k].base \in 1 .. acts[k].bound
        BY <4>1 DEF FramesInv, Stacked, n
      <4>3. k # n /\ k \in 1 .. n + 1
        BY <1>2, <3>3, <4>2
      <4> QED
        BY <1>12, <4>2, <4>3
    <3> QED
      BY <1>2, <1>5, <3>1, <3>2, <3>3
  <2> QED
    BY <1>12, <2>1, <2>2, <2>3, <2>4 DEF Stacked
<1>17. Held'
  <2>1. /\ at \in Addresses /\ rsp < at - 1
        /\ \A x \in Addresses : x < at - 1 => mem'[x] = mem[x]
        /\ mem'[at - 1] = Marker /\ mem'[at] = ReturnTo(n)
        /\ \A i \in 1 .. NArgs : mem'[at + i] = mem[at + i] /\ mem[at + i] \in Values
        /\ \A i \in 1 .. Len(Env[Callee]) :
             mem'[at + NArgs + i] = Env[Callee][i] /\ Env[Callee][i] \in Values
    BY CallMemory DEF at, n
  <2>2. ASSUME NEW k \in 1 .. n + 1, NEW i \in 1 .. acts'[k].bound
        PROVE  LET word == mem'[acts'[k].base + i]
               IN  IF k = n + 1 \/ i < acts'[k].bound - 1 THEN word \in Values
                   ELSE word = IF i = acts'[k].bound THEN ReturnTo(k) ELSE Marker
    <3>1. CASE k = n + 1
      <4>1. i \in 1 .. size /\ acts'[k].base = at
        BY <1>6, <1>12, <3>1
      <4>2. CASE i <= NArgs
        <5>1. i \in 1 .. NArgs
          BY <1>3, <4>1, <4>2
        <5> QED
          BY <2>1, <3>1, <4>1, <5>1
      <4>3. CASE i > NArgs
        <5>1. i - NArgs \in 1 .. Len(Env[Callee]) /\ at + NArgs + (i - NArgs) = at + i
          BY <1>3, <1>5, <1>6, <4>1, <4>3, SMTT(30) DEF size
        <5> QED
          BY <2>1, <3>1, <4>1, <5>1
      <4> QED
        BY <1>3, <4>1, <4>2, <4>3
    <3>2. CASE k = n
      <4>1. /\ acts'[k].base = rsp /\ acts'[k].bound = Top.first - 1 /\ k # n + 1
            /\ i \in 1 .. (Top.first - 1)
        BY <1>2, <1>9, <1>12, <3>2
      <4>2. CASE i = Top.first - 1
        <5>1. rsp + i = at /\ ~(i < Top.first - 1 - 1)
          BY <1>2, <1>5, <4>2
        <5> QED
          BY <2>1, <3>2, <4>1, <4>2, <5>1
      <4>3. CASE i = Top.first - 2
        <5>1. rsp + i = at - 1 /\ i # Top.first - 1 /\ ~(i < Top.first - 1 - 1)
          BY <1>2, <1>5, <4>3, SMTT(30)
        <5> QED
          BY <2>1, <3>2, <4>1, <4>3, <5>1
      <4>4. CASE i < Top.first - 2
        <5>1. /\ rsp + i \in Addresses /\ rsp + i < at - 1 /\ i < Top.first - 1 - 1
              /\ i \in 1 .. Running.bound
          <6> DEFINE first == Top.first
                     b == Running.bound
          <6>1. /\ rsp \in Nat /\ first \in Nat /\ b \in Nat /\ NArgs \in Nat /\ first + NArgs = b
                /\ i \in 1 .. (first - 1) /\ i < first - 2 /\ at = rsp + (first - 1)
                /\ at <= MaxWords /\ MaxWords \in Nat
            BY <1>2, <1>3, <1>5, <2>1, <4>1, <4>4 DEF Addresses
          <6> HIDE DEF first, b
          <6>2. /\ rsp + i \in Addresses /\ rsp + i < at - 1 /\ i < first - 1 - 1 /\ i \in 1 .. b
            BY <6>1 DEF Addresses
          <6> QED
            BY <6>2 DEF first, b
        <5>2. mem'[rsp + i] \in Values
          BY <1>2, <2>1, <5>1
        <5> QED
          BY <4>1, <5>1, <5>2
      <4>5. i = Top.first - 1 \/ i = Top.first - 2 \/ i < Top.first - 2
        <5>1. Top.first \in Nat /\ i \in 1 .. (Top.first - 1)
          BY <1>2, <4>1
        <5> QED
          BY <5>1
      <4> QED
        BY <4>2, <4>3, <4>4, <4>5
    <3>3. CASE k < n
      <4>1. k \in 1 .. n /\ k # n + 1 /\ acts'[k] = acts[k] /\ i \in 1 .. acts[k].bound
        BY <1>2, <1>12, <3>3
      <4>2. acts[k].base + i \in Addresses /\ acts[k].base + i < at - 1
        <5>1. /\ acts[k].base \in Nat /\ acts[k].bound \in Nat
              /\ acts[k].base + acts[k].bound <= rsp /\ i \in 1 .. acts[k].bound
          BY <1>13, <3>3, <4>1
        <5>2. rsp \in Nat /\ rsp < at - 1 /\ at <= MaxWords /\ MaxWords \in Nat /\ at \in Nat
          BY <1>2, <1>5, <2>1 DEF Addresses
        <5> QED
          BY <5>1, <5>2 DEF Addresses
      <4>3. mem'[acts'[k].base + i] = mem[acts[k].base + i]
        BY <2>1, <4>1, <4>2
      <4> QED
        BY <3>3, <4>1, <4>3 DEF FramesInv, Held, n
    <3> QED
      BY <1>2, <3>1, <3>2, <3>3
  <2> QED
    BY <1>12, <2>2 DEF Held
<1>18. rsp' = Running'.base /\ FrameExact'
  <2>1. Running' = callee
    BY <1>12 DEF Running
  <2> QED
    BY <1>6, <1>8, <2>1 DEF FrameExact
<1> QED
  BY <1>14, <1>15, <1>16, <1>17, <1>18 DEF FramesInv


-----------------------------------------------------------------------------
(* Returning.                                                              *)

(* The last scope of an activation that waits is the link of its call, and *)
(* its two slots are the last ones.                                        *)
LEMMA WaitingProperties ==
  ASSUME FramesInv, NEW k \in 1 .. (Len(acts) - 1)
  PROVE  LET scopes == acts[k].scopes
             link   == scopes[Len(scopes)]
         IN  /\ link \in Lexical /\ link.kind = "call" /\ link.size = 2
             /\ link.first = acts[k].bound - 1 /\ link.first > 0
             /\ acts[k].bound > 1 /\ acts[k].base + acts[k].bound = acts[k + 1].base
             /\ mem[acts[k + 1].base] = ReturnTo(k)
             /\ mem[acts[k + 1].base - 1] = Marker
             /\ k \in 1 .. Len(acts) /\ k + 1 \in 2 .. Len(acts)
<1> DEFINE n == Len(acts)
           scopes == acts[k].scopes
           link == scopes[Len(scopes)]
           base == acts[k].base
           bound == acts[k].bound
<1>1. n \in Nat /\ n > 0
  BY RunningProperties
<1> HIDE DEF n
<1>2. /\ k \in 1 .. n /\ k < n /\ k + 1 \in 2 .. n /\ k + 1 - 1 = k /\ k # n
  BY <1>1 DEF n
<1>3. /\ scopes \in Seq(Lexical) /\ Nested(scopes, bound) /\ base \in Nat /\ bound \in Nat
  BY <1>2, FrameProperties DEF n
<1>4. link.kind = "call"
  BY <1>2 DEF FramesInv, Lexicons, n
<1>5. Len(scopes) \in 1 .. Len(scopes)
  BY <1>3, LenProperties DEF Nested
<1>6. link \in Lexical /\ link.size = 2 /\ link.first + link.size = bound + 1
  BY <1>3, <1>4, <1>5, ElementOfSeq DEF Nested, Sized
<1>7. link.first \in Nat /\ link.first > 0
  BY <1>6 DEF Lexical
<1>8. link.first = bound - 1 /\ bound > 1
  <2> DEFINE first == link.first
  <2>1. first \in Nat /\ first > 0 /\ bound \in Nat /\ first + 2 = bound + 1
    BY <1>3, <1>6, <1>7
  <2> HIDE DEF first, bound
  <2>2. first = bound - 1 /\ bound > 1
    BY <2>1
  <2> QED
    BY <2>2 DEF first
<1>9. base + bound = acts[k + 1].base
  BY <1>2 DEF FramesInv, Stacked, n
<1>10. /\ bound \in 1 .. bound /\ bound - 1 \in 1 .. bound
       /\ ~(bound < bound - 1) /\ ~(bound - 1 < bound - 1) /\ bound - 1 # bound
       /\ base + (bound - 1) = base + bound - 1
  BY <1>3, <1>8
<1>11. \A i \in 1 .. bound :
         IF k = n \/ i < bound - 1 THEN mem[base + i] \in Values
         ELSE mem[base + i] = IF i = bound THEN ReturnTo(k) ELSE Marker
  BY <1>2 DEF FramesInv, Held, n
<1> HIDE DEF link, scopes, bound, base
<1>12. mem[base + bound] = ReturnTo(k) /\ mem[base + bound - 1] = Marker
  <2>1. mem[base + bound] = ReturnTo(k)
    BY <1>2, <1>10, <1>11
  <2>2. mem[base + (bound - 1)] = Marker
    BY <1>2, <1>10, <1>11
  <2> QED
    BY <1>10, <2>1, <2>2
<1>13. /\ link \in Lexical /\ link.kind = "call" /\ link.size = 2
       /\ link.first = bound - 1 /\ link.first > 0
       /\ bound > 1 /\ base + bound = acts[k + 1].base
  BY <1>4, <1>6, <1>7, <1>8, <1>9
<1>14. /\ mem[acts[k + 1].base] = ReturnTo(k) /\ mem[acts[k + 1].base - 1] = Marker
  BY <1>3, <1>9, <1>12
<1>15. k \in 1 .. Len(acts) /\ k + 1 \in 2 .. Len(acts)
  BY <1>2 DEF n
<1> QED
  BY <1>13, <1>14, <1>15 DEF base, bound, link, scopes

(* A return goes to the activation that waits innermost.                   *)
LEMMA ReturnEffect ==
  ASSUME FramesInv, Return
  PROVE  LET n      == Len(acts)
             caller == acts[n - 1]
             outer  == SubSeq(caller.scopes, 1, Len(caller.scopes) - 1)
         IN  /\ n \in Nat /\ n > 1 /\ n - 1 \in 1 .. (n - 1) /\ n - 1 \in Nat
             /\ rsp' = caller.base
             /\ gcframe' = caller.base + (caller.bound - 2)
             /\ acts' \in Seq(Frame) /\ Len(acts') = n - 1
             /\ \A k \in 1 .. n - 1 : k # n - 1 => acts'[k] = acts[k]
             /\ acts'[n - 1] = [base |-> caller.base, bound |-> caller.bound - 2, scopes |-> outer]
             /\ acts'[n - 1] \in Frame
             /\ mem' = mem /\ status' = status
<1> DEFINE n == Len(acts)
           upto == SubSeq(acts, 1, n - 1)
<1>1. n \in Nat /\ n > 1 /\ mem' = mem /\ status' = status
  BY RunningProperties DEF Return
<1>2. PICK k \in 1 .. (n - 1) :
        LET caller == acts[k]
            link   == caller.scopes[Len(caller.scopes)]
        IN  /\ mem[rsp] = ReturnTo(k)
            /\ rsp' = rsp - 1 - link.first
            /\ gcframe' = gcframe - Running.bound - link.size
            /\ acts' = [SubSeq(acts, 1, k) EXCEPT ![k] =
                          [caller EXCEPT !.scopes = SubSeq(@, 1, Len(@) - 1), !.bound = @ - link.size]]
  BY DEF Return
<1>3. /\ rsp = acts[n].base /\ rsp \in Nat /\ gcframe = rsp + Running.bound /\ Running.bound \in Nat
  BY RunningProperties DEF Running
<1> HIDE DEF n
<1>4. n - 1 \in 1 .. (n - 1) /\ n - 1 + 1 = n /\ n - 1 \in Nat
  BY <1>1
<1>5. k = n - 1
  <2>1. mem[rsp] = ReturnTo(n - 1)
    BY <1>3, <1>4, WaitingProperties DEF n
  <2>2. ReturnTo(k) = ReturnTo(n - 1)
    BY <1>2, <2>1
  <2> QED
    BY <2>2 DEF ReturnTo
<1> DEFINE caller == acts[n - 1]
           link == caller.scopes[Len(caller.scopes)]
           outer == SubSeq(caller.scopes, 1, Len(caller.scopes) - 1)
           a == [base |-> caller.base, bound |-> caller.bound - 2, scopes |-> outer]
           b == [caller EXCEPT !.scopes = SubSeq(@, 1, Len(@) - 1), !.bound = @ - 2]
<1>6. /\ link.size = 2 /\ link.first = caller.bound - 1 /\ caller.bound > 1
      /\ caller.base + caller.bound = rsp
  BY <1>3, <1>4, WaitingProperties DEF n
<1>7. /\ rsp' = rsp - 1 - link.first
      /\ gcframe' = gcframe - Running.bound - 2
      /\ acts' = [upto EXCEPT ![n - 1] = b]
  <2>1. /\ rsp' = rsp - 1 - link.first
        /\ gcframe' = gcframe - Running.bound - 2
        /\ acts' = [SubSeq(acts, 1, n - 1) EXCEPT ![n - 1] =
                      b]
    BY <1>2, <1>5, <1>6
  <2>2. acts' = [upto EXCEPT ![n - 1] = b]
    BY <2>1
  <2> QED
    BY <2>1, <2>2
<1>8. /\ caller \in Frame /\ caller.base \in Nat /\ caller.bound \in Nat /\ caller.bound - 2 \in Nat
      /\ caller.scopes \in Seq(Lexical) /\ Nested(caller.scopes, caller.bound)
  <2>1. n - 1 \in 1 .. n
    BY <1>1
  <2>2. /\ caller \in Frame /\ caller.base \in Nat /\ caller.bound \in Nat
        /\ caller.scopes \in Seq(Lexical) /\ Nested(caller.scopes, caller.bound)
    BY <2>1, FrameProperties DEF n
  <2> QED
    BY <1>6, <2>2
<1>9. rsp' = caller.base
  <2>1. rsp - 1 - (caller.bound - 1) = caller.base
    BY <1>6, <1>8
  <2> QED
    BY <1>6, <1>7, <2>1
<1>10. gcframe' = caller.base + (caller.bound - 2)
  <2> DEFINE base == caller.base
             bound == caller.bound
             size == Running.bound
  <2>1. /\ base \in Nat /\ bound \in Nat /\ size \in Nat /\ rsp \in Nat /\ base + bound = rsp
        /\ gcframe = rsp + size /\ gcframe' = gcframe - size - 2
    BY <1>3, <1>6, <1>7, <1>8
  <2> HIDE DEF base, bound, size
  <2>2. gcframe' = base + (bound - 2)
    BY <2>1
  <2> QED
    BY <2>2 DEF base, bound
<1>11. /\ upto \in Seq(Frame) /\ Len(upto) = n - 1
       /\ \A j \in 1 .. (n - 1) : upto[j] = acts[j]
  <2>1. acts \in Seq(Frame) /\ 1 <= n - 1 /\ n - 1 - 1 + 1 = n - 1
    BY <1>1 DEF FramesInv, Lexicons
  <2>2. \A j \in 1 .. (n - 1) : acts[j] \in Frame
    BY <1>1, <2>1, ElementOfSeq DEF n
  <2>3. /\ upto \in Seq(Frame) /\ Len(upto) = n - 1 - 1 + 1
        /\ \A j \in 1 .. (n - 1 - 1 + 1) : upto[j] = acts[1 + j - 1]
    BY <1>4, <2>1, <2>2, SubSeqProperties
  <2>4. \A j \in 1 .. (n - 1) : 1 + j - 1 = j
    OBVIOUS
  <2> QED
    BY <2>1, <2>3, <2>4
<1> HIDE DEF upto
<1>12. outer \in Seq(Lexical)
  BY <1>8, OuterProperties DEF Nested
<1>13. a \in Frame /\ a.base = caller.base /\ a.bound = caller.bound - 2 /\ a.scopes = outer
  BY <1>8, <1>12 DEF Frame
<1>14. b = a
  <2>1. b.base = a.base /\ b.bound = a.bound /\ b.scopes = a.scopes
    BY <1>8 DEF Frame
  <2>2. b \in Frame
    <3> HIDE DEF caller
    <3> QED
      BY <1>8, <1>12 DEF Frame
  <2> HIDE DEF a, b
  <2> QED
    BY <1>13, <2>1, <2>2, FrameEqual
<1> HIDE DEF a, b
<1>15. /\ acts' \in Seq(Frame) /\ Len(acts') = n - 1
       /\ \A j \in 1 .. n - 1 : acts'[j] = IF j = n - 1 THEN a ELSE upto[j]
  <2>1. n - 1 \in 1 .. Len(upto)
    BY <1>4, <1>11
  <2>2. acts' = [upto EXCEPT ![n - 1] = a]
    BY <1>7, <1>14
  <2> QED
    BY <1>11, <1>13, <2>1, <2>2, ExceptSeq
<1>16. /\ acts'[n - 1] = a /\ acts'[n - 1] \in Frame
       /\ \A j \in 1 .. n - 1 : j # n - 1 => acts'[j] = acts[j]
  BY <1>4, <1>11, <1>13, <1>15
<1> QED
  BY <1>1, <1>4, <1>9, <1>10, <1>15, <1>16 DEF n, a

LEMMA ReturnStep ==
  ASSUME FramesInv, Return
  PROVE  FramesInv'
<1> DEFINE n == Len(acts)
           m == n - 1
           caller == acts[m]
           base == caller.base
           bound == caller.bound
           outer == SubSeq(caller.scopes, 1, Len(caller.scopes) - 1)
           a == [base |-> base, bound |-> bound - 2, scopes |-> outer]
<1>1. /\ n \in Nat /\ n > 1 /\ m \in 1 .. m /\ m \in Nat /\ m \in 1 .. n
      /\ rsp' = base /\ gcframe' = base + (bound - 2)
      /\ acts' \in Seq(Frame) /\ Len(acts') = m
      /\ \A k \in 1 .. m : k # m => acts'[k] = acts[k]
      /\ acts'[m] = a
      /\ mem' = mem /\ status' = status
  BY ReturnEffect
<1>2. /\ caller.scopes[Len(caller.scopes)].kind = "call" /\ caller.scopes[Len(caller.scopes)].size = 2
      /\ caller.scopes[Len(caller.scopes)].first = bound - 1 /\ bound > 1
      /\ base + bound = acts[m + 1].base
  BY <1>1, WaitingProperties
<1>3. /\ base \in Nat /\ bound \in Nat /\ caller.scopes \in Seq(Lexical) /\ Nested(caller.scopes, bound)
      /\ base + bound <= gcframe
  BY <1>1, FrameProperties
<1>4. /\ Nested(outer, bound - 2) /\ outer[Len(outer)].kind # "call"
  <2>1. /\ Nested(outer, bound - 1 - 1) /\ outer[Len(outer)] = caller.scopes[Len(caller.scopes) - 1]
        /\ Len(caller.scopes) > 1 /\ Len(caller.scopes) \in Nat
    BY <1>2, <1>3, NestedOuter, LenProperties
  <2>2. Len(caller.scopes) \in 2 .. Len(caller.scopes)
    BY <2>1
  <2>3. caller.scopes[Len(caller.scopes) - 1].kind # "call"
    BY <1>2, <1>3, <2>2 DEF Nested
  <2>4. bound - 1 - 1 = bound - 2
    BY <1>3
  <2> QED
    BY <2>1, <2>3, <2>4
<1>5. gcframe \in Nat /\ gcframe <= MaxWords /\ n <= MaxActs /\ MaxWords \in Nat /\ MaxActs \in Nat
  BY RunningProperties, FrameAssumption
<1>6. a.base = base /\ a.bound = bound - 2 /\ a.scopes = outer
  OBVIOUS
<1>7. /\ \A k \in 1 .. m : k \in 1 .. n /\ acts'[k].base = acts[k].base
      /\ \A k \in 1 .. m : k < m => acts'[k] = acts[k]
      /\ bound - 2 \in Nat
  <2>1. \A k \in 1 .. m : k < m => acts'[k] = acts[k]
    BY <1>1
  <2>2. \A k \in 1 .. m : acts'[k].base = acts[k].base
    BY <1>1, <1>6
  <2>3. \A k \in 1 .. m : k \in 1 .. n
    BY <1>1
  <2>4. bound - 2 \in Nat
    BY <1>2, <1>3
  <2> QED
    BY <2>1, <2>2, <2>3, <2>4
<1> HIDE DEF a, outer
<1>8. TypeOK'
  <2>1. rsp' \in 0 .. MaxWords /\ gcframe' \in 0 .. MaxWords
    <3> HIDE DEF caller, base, bound
    <3> QED
      BY <1>1, <1>3, <1>5, <1>7
  <2>2. Len(acts') \in 1 .. MaxActs
    BY <1>1, <1>5
  <2> QED
    BY <1>1, <2>1, <2>2 DEF FramesInv, TypeOK
<1> HIDE DEF m, caller, base, bound
<1>9. m = n - 1 /\ caller = acts[m] /\ base = caller.base /\ bound = caller.bound
  BY DEF m, caller, base, bound
<1> HIDE DEF n
<1>10. Lexicons'
  <2>1. ASSUME NEW k \in 1 .. m
        PROVE  LET scopes == acts'[k].scopes
               IN  /\ Nested(scopes, acts'[k].bound)
                   /\ scopes[Len(scopes)].kind = "call" <=> k < m
    <3>1. CASE k = m
      BY <1>1, <1>4, <1>6, <3>1
    <3>2. CASE k < m
      <4>1. k \in 1 .. n /\ k < n /\ acts'[k] = acts[k]
        BY <1>1, <1>7, <1>9, <3>2
      <4> QED
        BY <3>2, <4>1 DEF FramesInv, Lexicons, n
    <3> QED
      BY <1>1, <3>1, <3>2
  <2> QED
    BY <1>1, <2>1 DEF Lexicons
<1>11. Stacked'
  <2>1. acts'[1].base = 0
    <3>1. 1 \in 1 .. m
      BY <1>1
    <3> QED
      BY <1>7, <3>1 DEF FramesInv, Stacked
  <2>2. ASSUME NEW k \in 2 .. m PROVE acts'[k].base = acts'[k - 1].base + acts'[k - 1].bound
    <3>1. k \in 2 .. n /\ k \in 1 .. m /\ k - 1 \in 1 .. m /\ k - 1 < m
      BY <1>1, <1>9
    <3> QED
      BY <1>7, <3>1 DEF FramesInv, Stacked, n
  <2>3. ASSUME NEW j \in 1 .. m, NEW k \in 1 .. m, j < k
        PROVE  acts'[j].base + acts'[j].bound <= acts'[k].base
    <3>1. j < m /\ j \in 1 .. n /\ k \in 1 .. n
      BY <1>1, <1>9, <2>3
    <3> QED
      BY <1>7, <2>3, <3>1 DEF FramesInv, Stacked, n
  <2>4. ASSUME NEW x \in 1 .. gcframe'
        PROVE  \E k \in 1 .. m : x - acts'[k].base \in 1 .. acts'[k].bound
    <3>1. x \in 1 .. gcframe /\ x <= base + (bound - 2) /\ x \in Nat
      BY <1>1, <1>3, <1>5, <1>7
    <3>2. PICK k \in 1 .. n : x - acts[k].base \in 1 .. acts[k].bound
      BY <3>1 DEF FramesInv, Stacked, n
    <3>3. k # n
      <4>1. acts[n].base = base + bound
        BY <1>1, <1>2, <1>9
      <4> QED
        BY <1>3, <3>1, <3>2, <4>1
    <3>4. k \in 1 .. m
      BY <1>1, <1>9, <3>3
    <3>5. CASE k = m
      <4>1. x - base \in 1 .. (bound - 2)
        <5>1. x - base \in 1 .. bound
          BY <1>9, <3>2, <3>5
        <5> QED
          BY <1>3, <1>7, <3>1, <5>1
      <4> QED
        BY <1>1, <1>6, <4>1
    <3>6. CASE k # m
      BY <1>1, <3>2, <3>4, <3>6
    <3> QED
      BY <3>5, <3>6
  <2> QED
    BY <1>1, <2>1, <2>2, <2>3, <2>4 DEF Stacked
<1>12. Held'
  <2>1. \A k \in 1 .. n : \A i \in 1 .. acts[k].bound :
          IF k = n \/ i < acts[k].bound - 1 THEN mem[acts[k].base + i] \in Values
          ELSE mem[acts[k].base + i] = IF i = acts[k].bound THEN ReturnTo(k) ELSE Marker
    BY DEF FramesInv, Held, n
  <2>2. ASSUME NEW k \in 1 .. m, NEW i \in 1 .. acts'[k].bound
        PROVE  LET word == mem'[acts'[k].base + i]
               IN  IF k = m \/ i < acts'[k].bound - 1 THEN word \in Values
                   ELSE word = IF i = acts'[k].bound THEN ReturnTo(k) ELSE Marker
    <3>1. CASE k = m
      <4>1. i \in 1 .. bound /\ i < bound - 1
        BY <1>1, <1>3, <1>6, <1>7, <3>1
      <4>2. acts'[k].base = base /\ k \in 1 .. n
        BY <1>1, <1>6, <3>1
      <4>3. mem[base + i] \in Values
        BY <1>9, <2>1, <3>1, <4>1, <4>2
      <4> QED
        BY <1>1, <3>1, <4>2, <4>3
    <3>2. CASE k < m
      <4>1. k \in 1 .. n /\ k # n /\ acts'[k] = acts[k] /\ k # m
        BY <1>1, <1>7, <1>9, <3>2
      <4> QED
        BY <1>1, <2>1, <2>2, <4>1
    <3> QED
      BY <1>1, <3>1, <3>2
  <2> QED
    BY <1>1, <2>2 DEF Held
<1>13. rsp' = Running'.base /\ FrameExact'
  <2>1. Running' = a
    BY <1>1 DEF Running
  <2> QED
    BY <1>1, <1>6, <2>1 DEF FrameExact
<1> QED
  BY <1>8, <1>10, <1>11, <1>12, <1>13 DEF FramesInv

-----------------------------------------------------------------------------
(* The invariant.                                                          *)

LEMMA FramesInit ==
  ASSUME Init
  PROVE  FramesInv
<1> DEFINE scope == Scope("params", 1, 0, 0)
           a == [base |-> 0, bound |-> 0, scopes |-> <<scope>>]
<1>1. /\ mem = [x \in Addresses |-> Junk] /\ rsp = 0 /\ gcframe = 0 /\ status = "run"
      /\ acts = <<a>>
  BY DEF Init
<1>2. /\ scope \in Lexical /\ scope.kind = "params" /\ scope.first = 1
      /\ scope.size = 0 /\ scope.done = 0
  BY DEF Scope, Lexical, Kinds
<1> HIDE DEF scope
<1>3. /\ <<scope>> \in Seq(Lexical) /\ Len(<<scope>>) = 1 /\ <<scope>>[1] = scope
  BY <1>2
<1>4. Nested(<<scope>>, 0)
  <2>1. Sized(scope)
    BY <1>2 DEF Sized
  <2> QED
    BY <1>2, <1>3, <2>1 DEF Nested
<1>5. a \in Frame /\ a.base = 0 /\ a.bound = 0 /\ a.scopes = <<scope>>
  BY <1>3 DEF Frame
<1> HIDE DEF a
<1>6. acts \in Seq(Frame) /\ Len(acts) = 1 /\ acts[1] = a
  BY <1>1, <1>5
<1>7. TypeOK
  BY <1>1, <1>6, FrameAssumption DEF TypeOK
<1>8. Lexicons
  <2>1. ASSUME NEW k \in 1 .. 1
        PROVE  /\ Nested(acts[k].scopes, acts[k].bound)
               /\ acts[k].scopes[Len(acts[k].scopes)].kind # "call" /\ ~(k < 1)
    <3>1. k = 1
      OBVIOUS
    <3> QED
      BY <1>2, <1>3, <1>4, <1>5, <1>6, <3>1
  <2> QED
    BY <1>6, <2>1 DEF Lexicons
<1>9. Stacked
  BY <1>1, <1>5, <1>6 DEF Stacked
<1>10. Held
  BY <1>5, <1>6 DEF Held
<1>11. FrameExact /\ rsp = Running.base
  BY <1>1, <1>5, <1>6 DEF FrameExact, Running
<1> QED
  BY <1>7, <1>8, <1>9, <1>10, <1>11 DEF FramesInv

LEMMA FramesNext ==
  ASSUME FramesInv, [Next]_vars
  PROVE  FramesInv'
<1>1. CASE UNCHANGED vars
  BY <1>1 DEF vars, FramesInv, TypeOK, Lexicons, Stacked, Held, FrameExact, Running
<1>2. CASE Next
  BY <1>2, OpenLetStep, BindLetStep, StoreLetStep, CloseLetStep, SetVariableStep, RuntimeCallStep,
     BeginCallStep, BeginTailCallStep, OperandStep, FailStep, CallStep, TailCallStep, ReturnStep
     DEF Next
<1> QED
  BY <1>1, <1>2

(* The scopes of every activation lie one behind the other in its slots,   *)
(* the activations one behind the other in the frame, every slot holds a   *)
(* value but for the two that link a waiting activation to the one it      *)
(* called, and RSP and __gcframe__ say so.                                 *)
THEOREM FramesInvariant == Spec => []FramesInv
<1>1. Init => FramesInv
  BY FramesInit
<1>2. FramesInv /\ [Next]_vars => FramesInv'
  BY FramesNext
<1> QED
  BY <1>1, <1>2, PTL DEF Spec

(* A word is a value, a return address, a marker or a leftover, and RSP    *)
(* and __gcframe__ stay within the stack.                                  *)
THEOREM TypesHold == Spec => []TypeOK
<1>1. FramesInv => TypeOK
  BY DEF FramesInv
<1> QED
  BY <1>1, FramesInvariant, PTL

(* __gcframe__ is the distance to the last bound slot of the running       *)
(* activation: bind__, pop_scope_ and both kinds of call keep it so.       *)
THEOREM FrameIsExact == Spec => []FrameExact
<1>1. FramesInv => FrameExact
  BY DEF FramesInv
<1> QED
  BY <1>1, FramesInvariant, PTL

(* Every return address is still where the RET of its activation looks for *)
(* it, and leads to the caller, whatever was called in between.            *)
THEOREM ReturnsLeadHome == Spec => []ReturnsHome
<1>1. FramesInv => ReturnsHome
  <2> SUFFICES ASSUME FramesInv, NEW k \in 2 .. Len(acts)
               PROVE  mem[acts[k].base] = ReturnTo(k - 1)
    BY DEF FramesInv, ReturnsHome
  <2>1. k - 1 \in 1 .. (Len(acts) - 1) /\ k - 1 + 1 = k
    BY RunningProperties
  <2> QED
    BY <2>1, WaitingProperties
<1> QED
  BY <1>1, FramesInvariant, PTL


-----------------------------------------------------------------------------
(* The walk of the collector down the stack.                               *)

(* The addresses where activations begin: return addresses lie there.      *)
Bases == {acts[k].base : k \in 2 .. Len(acts)}

(* What the walk can tell of a bound word.                                 *)
LEMMA BaseProperties ==
  ASSUME FramesInv
  PROVE  /\ \A b \in Bases : /\ b \in Nat /\ b > 1 /\ b <= rsp
                             /\ mem[b] # Marker /\ mem[b - 1] = Marker
         /\ \A x \in 1 .. gcframe :
              /\ mem[x] = Marker => x + 1 \in Bases
              /\ x \notin Bases => mem[x] \in Values \cup {Marker}
         /\ \A k \in 1 .. Len(acts) : \A i \in 1 .. acts[k].bound :
              acts[k].base + i \in Bases => IsLink(acts[k], i)
<1> DEFINE n == Len(acts)
<1>1. /\ n \in Nat /\ n > 0 /\ n <= MaxActs /\ MaxActs \in Nat
      /\ rsp \in Nat /\ gcframe \in Nat
  BY RunningProperties, FrameAssumption
<1> HIDE DEF n
<1>2. \A k \in 1 .. n : acts[k].base \in Nat /\ acts[k].bound \in Nat
  BY FrameProperties DEF n
<1>3. \A k \in 1 .. n : Marker # ReturnTo(k)
  BY <1>1, FrameAssumption DEF Returns, ReturnTo
<1>4. ASSUME NEW b \in Bases
      PROVE  /\ b \in Nat /\ b > 1 /\ b <= rsp
             /\ mem[b] # Marker /\ mem[b - 1] = Marker
  <2>1. PICK k \in 2 .. n : b = acts[k].base
    BY DEF Bases, n
  <2> DEFINE j == k - 1
  <2>2. j \in 1 .. (n - 1) /\ j \in 1 .. n /\ j + 1 = k /\ j < n
    BY <1>1
  <2> HIDE DEF j
  <2>3. /\ acts[j].bound > 1 /\ acts[j].base + acts[j].bound = b
        /\ mem[b] = ReturnTo(j) /\ mem[b - 1] = Marker
    BY <2>1, <2>2, WaitingProperties DEF n
  <2>4. acts[j].base + acts[j].bound <= rsp
    BY <2>2, FrameProperties DEF n
  <2>5. b \in Nat /\ b > 1
    BY <1>2, <2>2, <2>3
  <2> QED
    BY <1>3, <2>2, <2>3, <2>4, <2>5
<1>5. ASSUME NEW x \in 1 .. gcframe
      PROVE  /\ mem[x] = Marker => x + 1 \in Bases
             /\ x \notin Bases => mem[x] \in Values \cup {Marker}
  <2>1. PICK k \in 1 .. n : x - acts[k].base \in 1 .. acts[k].bound
    BY DEF FramesInv, Stacked, n
  <2> DEFINE i == x - acts[k].base
             bound == acts[k].bound
  <2>2. /\ i \in 1 .. bound /\ acts[k].base + i = x /\ bound \in Nat
    BY <1>2, <2>1
  <2>3. IF k = n \/ i < bound - 1 THEN mem[x] \in Values
        ELSE mem[x] = IF i = bound THEN ReturnTo(k) ELSE Marker
    <3>1. IF k = n \/ i < bound - 1 THEN mem[acts[k].base + i] \in Values
          ELSE mem[acts[k].base + i] = IF i = bound THEN ReturnTo(k) ELSE Marker
      BY <2>2 DEF FramesInv, Held, n
    <3> HIDE DEF i
    <3> QED
      BY <2>2, <3>1
  <2>4. CASE k = n \/ i < bound - 1
    BY <2>3, <2>4, FrameAssumption
  <2>5. CASE k # n /\ ~(i < bound - 1)
    <3>1. k \in 1 .. (n - 1) /\ k + 1 \in 2 .. n
      BY <1>1, <2>5
    <3>2. acts[k].base + bound = acts[k + 1].base /\ acts[k + 1].base \in Bases
      BY <3>1, WaitingProperties DEF Bases, n
    <3>3. CASE i = bound
      <4>1. x \in Bases /\ mem[x] = ReturnTo(k)
        BY <2>2, <2>3, <2>5, <3>2, <3>3
      <4> QED
        BY <1>3, <4>1
    <3>4. CASE i # bound
      <4>1. mem[x] = Marker /\ x + 1 = acts[k].base + bound
        <5>1. acts[k].base \in Nat
          BY <1>2
        <5>2. mem[x] = Marker
          BY <2>3, <2>5, <3>4
        <5>3. i = bound - 1
          BY <2>2, <2>5, <3>4
        <5> HIDE DEF i, bound
        <5>4. x + 1 = acts[k].base + bound
          BY <2>2, <5>1, <5>3
        <5> QED
          BY <5>2, <5>4
      <4> QED
        BY <3>2, <4>1
    <3> QED
      BY <3>3, <3>4
  <2> QED
    BY <2>4, <2>5
<1>6. ASSUME NEW k \in 1 .. n, NEW i \in 1 .. acts[k].bound, acts[k].base + i \in Bases
      PROVE  IsLink(acts[k], i)
  <2>1. PICK j \in 2 .. n : acts[k].base + i = acts[j].base
    BY <1>6 DEF Bases, n
  <2>2. j \in 1 .. n /\ acts[k].base \in Nat /\ acts[k].bound \in Nat /\ acts[j].base \in Nat /\ acts[j].bound \in Nat
    BY <1>1, <1>2
  <2>3. j > k
    <3>1. j # k
      BY <2>1, <2>2
    <3>2. ~(j < k)
      <4>1. j < k => acts[j].base + acts[j].bound <= acts[k].base
        BY <2>2 DEF FramesInv, Stacked, n
      <4> QED
        BY <2>1, <2>2, <4>1
    <3> QED
      BY <2>2, <3>1, <3>2
  <2>4. k \in 1 .. (n - 1)
    BY <1>1, <2>3
  <2>5. i = acts[k].bound
    <3>1. acts[k].base + acts[k].bound <= acts[j].base
      BY <2>2, <2>3 DEF FramesInv, Stacked, n
    <3> QED
      BY <2>1, <2>2, <3>1
  <2> DEFINE scopes == acts[k].scopes
             s == Len(scopes)
  <2>6. scopes[s].kind = "call" /\ scopes[s].first = acts[k].bound - 1
    BY <2>4, WaitingProperties DEF n
  <2>7. s \in DOMAIN scopes
    BY FrameProperties, LenProperties DEF n, Nested
  <2>8. i - scopes[s].first = 1
    BY <2>2, <2>5, <2>6
  <2> QED
    BY <2>6, <2>7, <2>8 DEF IsLink
<1> QED
  BY <1>4, <1>5, <1>6 DEF n

(* The walk meets every bound word but the return addresses.               *)
LEMMA WalkedProperties ==
  ASSUME FramesInv
  PROVE  Walked = {a \in 1 .. (gcframe + 1) : a \notin Bases}
<1> DEFINE D == 1 .. (gcframe + 1)
           Equation(f) ==
             f = [a \in D |-> \/ a = 1
                              \/ f[a - 1] /\ mem[a - 1] # Marker
                              \/ a > 2 /\ f[a - 2] /\ mem[a - 2] = Marker]
           visits == CHOOSE f : Equation(f)
           met == [a \in D |-> a \notin Bases]
<1>1. Walked = {a \in D : visits[a]}
  BY DEF Walked
<1>2. gcframe \in Nat /\ rsp <= gcframe /\ rsp \in Nat
  <2>1. gcframe \in Nat /\ rsp \in Nat /\ Running.bound \in Nat /\ gcframe = rsp + Running.bound
    BY RunningProperties
  <2> QED
    BY <2>1
<1>3. \A b \in Bases : b \in Nat /\ b > 1 /\ b <= rsp /\ mem[b] # Marker /\ mem[b - 1] = Marker
  BY BaseProperties
<1>4. \A x \in 1 .. gcframe : mem[x] = Marker => x + 1 \in Bases
  BY BaseProperties
<1> HIDE DEF visits
<1>5. ASSUME NEW a \in D
      PROVE  met[a] <=> \/ a = 1
                        \/ met[a - 1] /\ mem[a - 1] # Marker
                        \/ a > 2 /\ met[a - 2] /\ mem[a - 2] = Marker
  <2>1. CASE a = 1
    <3>1. a \notin Bases
      BY <1>3, <2>1
    <3> QED
      BY <2>1, <3>1
  <2>2. CASE a # 1
    <3>1. a - 1 \in D /\ a - 1 \in 1 .. gcframe /\ a - 1 + 1 = a
      BY <1>2, <2>2
    <3>2. met[a] <=> a \notin Bases
      OBVIOUS
    <3>3. met[a - 1] <=> a - 1 \notin Bases
      BY <3>1
    <3>4. a > 2 => (met[a - 2] <=> a - 2 \notin Bases)
      <4>1. a > 2 => a - 2 \in D
        BY <1>2
      <4> QED
        BY <4>1
    <3> HIDE DEF met
    <3>5. CASE a \in Bases
      <4>1. mem[a - 1] = Marker
        BY <1>3, <3>5
      <4>2. a > 2 => mem[a - 2] # Marker
        <5>1. ASSUME a > 2, mem[a - 2] = Marker PROVE FALSE
          <6>1. a - 2 \in 1 .. gcframe /\ a - 2 + 1 = a - 1
            BY <1>2, <5>1
          <6>2. a - 1 \in Bases
            BY <1>4, <5>1, <6>1
          <6> QED
            BY <1>3, <4>1, <6>2
        <5> QED
          BY <5>1
      <4> QED
        BY <2>2, <3>2, <3>5, <4>1, <4>2
    <3>6. CASE a \notin Bases
      <4>1. mem[a - 1] # Marker
        BY <1>4, <3>1, <3>6
      <4>2. CASE a - 1 \notin Bases
        BY <3>2, <3>3, <3>6, <4>1, <4>2
      <4>3. CASE a - 1 \in Bases
        <5>1. a > 2 /\ a - 1 - 1 = a - 2
          BY <1>2, <1>3, <4>3
        <5>2. mem[a - 2] = Marker
          BY <1>3, <4>3, <5>1
        <5>3. a - 2 \notin Bases
          BY <1>3, <5>2
        <5> QED
          BY <3>2, <3>4, <3>6, <5>1, <5>2, <5>3
      <4> QED
        BY <4>2, <4>3
    <3> QED
      BY <3>5, <3>6
  <2> QED
    BY <2>1, <2>2
<1>6. Equation(met)
  <2>1. \A a \in D : met[a] = (\/ a = 1
                               \/ met[a - 1] /\ mem[a - 1] # Marker
                               \/ a > 2 /\ met[a - 2] /\ mem[a - 2] = Marker)
    <3>1. \A a \in D : met[a] \in BOOLEAN
      OBVIOUS
    <3> HIDE DEF met
    <3> QED
      BY <1>5, <3>1
  <2>2. met = [a \in D |-> met[a]]
    OBVIOUS
  <2> HIDE DEF met
  <2> QED
    BY <2>1, <2>2
<1>7. Equation(visits)
  BY <1>6 DEF visits
<1>8. \A a \in D : visits[a] <=> met[a]
  <2> DEFINE S == {a \in D : ~(visits[a] <=> met[a])}
  <2>1. CASE S = {}
    BY <2>1
  <2>2. CASE S # {}
    <3>1. /\ S \in SUBSET Nat /\ S \subseteq D
          /\ \A a \in D : (a \in S <=> ~(visits[a] <=> met[a]))
      BY <1>2
    <3> HIDE DEF S, met
    <3>2. PICK a \in S : \A c \in S : a <= c
      BY <2>2, <3>1, LeastOf
    <3>3. a \in D /\ ~(visits[a] <=> met[a])
      BY <3>1
    <3>4. visits[a] <=> \/ a = 1
                        \/ visits[a - 1] /\ mem[a - 1] # Marker
                        \/ a > 2 /\ visits[a - 2] /\ mem[a - 2] = Marker
      BY <1>7, <3>3
    <3>5. a # 1 => (visits[a - 1] <=> met[a - 1])
      <4>1. a # 1 => a - 1 \in D /\ ~(a <= a - 1)
        BY <1>2, <3>3
      <4> QED
        BY <3>1, <3>2, <4>1
    <3>6. a > 2 => (visits[a - 2] <=> met[a - 2])
      <4>1. a > 2 => a - 2 \in D /\ ~(a <= a - 2)
        BY <1>2, <3>3
      <4> QED
        BY <3>1, <3>2, <4>1
    <3> QED
      BY <1>5, <3>3, <3>4, <3>5, <3>6
  <2> QED
    BY <2>1, <2>2
<1>9. \A a \in D : visits[a] <=> a \notin Bases
  BY <1>8
<1> QED
  BY <1>1, <1>9

(* Should a collection start now, the walk of __gc__ ends where the frame  *)
(* ends, meets every word of every activation and takes nothing for a word *)
(* of the program that is none: the marker below each return address is    *)
(* what makes it step over it.                                             *)
THEOREM RootsAreExact == Spec => []RootsExact
<1>1. FramesInv => RootsExact
  <2> SUFFICES ASSUME FramesInv PROVE RootsExact
    OBVIOUS
  <2>1. gcframe \in Nat /\ rsp <= gcframe /\ rsp \in Nat
    <3>1. gcframe \in Nat /\ rsp \in Nat /\ Running.bound \in Nat /\ gcframe = rsp + Running.bound
      BY RunningProperties
    <3> QED
      BY <3>1
  <2>2. gcframe + 1 \in Walked
    <3>1. gcframe + 1 \in 1 .. (gcframe + 1) /\ ~(gcframe + 1 <= rsp)
      BY <2>1
    <3> QED
      BY <3>1, BaseProperties, WalkedProperties
  <2>3. ASSUME NEW a \in Walked \ {gcframe + 1} PROVE mem[a] \in Values \cup {Marker}
    <3>1. a \in 1 .. gcframe /\ a \notin Bases
      BY <2>1, WalkedProperties
    <3> QED
      BY <3>1, BaseProperties
  <2>4. ASSUME NEW k \in DOMAIN acts, NEW i \in 1 .. acts[k].bound
        PROVE  IsLink(acts[k], i) \/ acts[k].base + i \in Walked
    <3>1. k \in 1 .. Len(acts)
      BY LenProperties DEF FramesInv, Lexicons
    <3>2. acts[k].base \in Nat /\ acts[k].bound \in Nat /\ acts[k].base + acts[k].bound <= gcframe
      BY <3>1, FrameProperties
    <3>3. acts[k].base + i \in 1 .. (gcframe + 1)
      BY <2>1, <3>2
    <3> QED
      BY <3>1, <3>3, BaseProperties, WalkedProperties
  <2> QED
    BY <2>2, <2>3, <2>4 DEF RootsExact
<1> QED
  BY <1>1, FramesInvariant, PTL

-----------------------------------------------------------------------------
(* The words of an activation.                                             *)

Word  == Values \cup {Link}
Now   == Words(Running)
Waits == [k \in 1 .. (Len(acts) - 1) |-> Words(acts[k])]

(* The words of the activation a in the memory m.                          *)
Image(a, m) == [i \in 1 .. a.bound |-> IF IsLink(a, i) THEN Link ELSE m[a.base + i]]

(* The link of a call lies in slot i.                                      *)
OnLink(scopes, i) ==
  \E s \in 1 .. Len(scopes) : scopes[s].kind = "call" /\ i - scopes[s].first \in {0, 1}

LEMMA ImageProperties ==
  ASSUME NEW a \in Frame, NEW m,
         \A i \in 1 .. a.bound : OnLink(a.scopes, i) \/ m[a.base + i] \in Values
  PROVE  /\ Image(a, m) \in Seq(Word) /\ Len(Image(a, m)) = a.bound /\ a.bound \in Nat
         /\ \A i \in 1 .. a.bound :
              /\ Image(a, m)[i] = IF OnLink(a.scopes, i) THEN Link ELSE m[a.base + i]
              /\ Image(a, m)[i] \in Word
<1> DEFINE n == a.bound
           e(i) == IF OnLink(a.scopes, i) THEN Link ELSE m[a.base + i]
           s == [i \in 1 .. n |-> e(i)]
<1>1. n \in Nat /\ a.scopes \in Seq(Lexical)
  BY DEF Frame
<1>2. \A i \in 1 .. n : IsLink(a, i) <=> OnLink(a.scopes, i)
  BY <1>1, LenProperties DEF IsLink, OnLink
<1>3. \A i \in 1 .. n : e(i) \in Word
  BY DEF Word
<1>4. Image(a, m) = s
  BY <1>2 DEF Image
<1> HIDE DEF n, e
<1>5. s \in [1 .. n -> Word]
  BY <1>3
<1>6. s \in Seq(Word) /\ Len(s) = n
  BY <1>1, <1>5
<1>7. \A i \in 1 .. n : s[i] = e(i) /\ s[i] \in Word
  BY <1>3
<1> HIDE DEF s
<1> QED
  BY <1>1, <1>4, <1>6, <1>7 DEF n, e

(* The words of the activations before a step.                             *)
LEMMA NowProperties ==
  ASSUME FramesInv
  PROVE  /\ Now \in Seq(Word) /\ Len(Now) = Running.bound
         /\ \A i \in 1 .. Running.bound :
              Now[i] = IF OnLink(Scopes, i) THEN Link ELSE mem[rsp + i]
<1>1. /\ Running \in Frame /\ Running.base = rsp
      /\ \A i \in 1 .. Running.bound : mem[rsp + i] \in Values
  BY RunningProperties
<1>2. Now = Image(Running, mem)
  BY DEF Now, Words, Image
<1> QED
  BY <1>1, <1>2, ImageProperties DEF Scopes

LEMMA WaitsProperties ==
  ASSUME FramesInv
  PROVE  /\ Waits \in Seq(Seq(Word)) /\ Len(Waits) = Len(acts) - 1
         /\ \A k \in 1 .. (Len(acts) - 1) :
              /\ Waits[k] = Image(acts[k], mem) /\ Waits[k] \in Seq(Word)
              /\ Len(Waits[k]) = acts[k].bound
<1> DEFINE n == Len(acts)
<1>1. n \in Nat /\ n > 0
  BY RunningProperties
<1>2. ASSUME NEW k \in 1 .. (n - 1)
      PROVE  /\ Image(acts[k], mem) \in Seq(Word) /\ Len(Image(acts[k], mem)) = acts[k].bound
             /\ Words(acts[k]) = Image(acts[k], mem)
  <2> DEFINE a == acts[k]
  <2>1. k \in 1 .. n /\ k # n
    BY <1>1
  <2>2. /\ a \in Frame /\ a.bound \in Nat /\ a.scopes \in Seq(Lexical)
        /\ Nested(a.scopes, a.bound)
    BY <2>1, FrameProperties
  <2>3. ASSUME NEW i \in 1 .. a.bound PROVE OnLink(a.scopes, i) \/ mem[a.base + i] \in Values
    <3>1. CASE i < a.bound - 1
      BY <2>1, <3>1 DEF FramesInv, Held
    <3>2. CASE ~(i < a.bound - 1)
      <4> DEFINE s == Len(a.scopes)
      <4>1. s \in 1 .. s
        BY <2>2, LenProperties DEF Nested
      <4>2. a.scopes[s].kind = "call" /\ a.scopes[s].first = a.bound - 1
        BY WaitingProperties
      <4>3. i - (a.bound - 1) \in {0, 1}
        BY <2>2, <3>2
      <4> QED
        BY <4>1, <4>2, <4>3 DEF OnLink
    <3> QED
      BY <3>1, <3>2
  <2>4. Words(acts[k]) = Image(acts[k], mem)
    BY DEF Words, Image
  <2> QED
    BY <2>2, <2>3, <2>4, ImageProperties
<1> DEFINE m == n - 1
<1>3. m \in Nat
  BY <1>1
<1>4. Waits = [k \in 1 .. m |-> Words(acts[k])]
  BY DEF Waits
<1>5. \A k \in 1 .. m : Words(acts[k]) \in Seq(Word)
  BY <1>2
<1> HIDE DEF m
<1>6. Waits \in [1 .. m -> Seq(Word)]
  BY <1>4, <1>5
<1>7. Waits \in Seq(Seq(Word)) /\ Len(Waits) = m
  BY <1>3, <1>6
<1>8. \A k \in 1 .. m : Waits[k] = Words(acts[k])
  BY <1>4
<1> QED
  BY <1>2, <1>7, <1>8 DEF m

-----------------------------------------------------------------------------
(* Which slots are links.                                                  *)

LEMMA LinkAppend ==
  ASSUME NEW scopes \in Seq(Lexical), NEW bound \in Nat, Nested(scopes, bound),
         NEW scope \in Lexical, scope.first = bound + 1, Sized(scope)
  PROVE  LET longer == Append(scopes, scope)
         IN  /\ \A i \in 1 .. bound : OnLink(longer, i) <=> OnLink(scopes, i)
             /\ \A i \in (bound + 1) .. (bound + scope.size) :
                  OnLink(longer, i) <=> scope.kind = "call"
<1> DEFINE n == Len(scopes)
           longer == Append(scopes, scope)
<1>1. /\ n \in Nat /\ n > 0 /\ n \in 1 .. n
      /\ Len(longer) = n + 1
      /\ \A s \in 1 .. n : longer[s] = scopes[s] /\ scopes[s] \in Lexical
      /\ longer[n + 1] = scope
  BY AppendScope, ElementOfSeq DEF Nested
<1> HIDE DEF n, longer
<1>2. \A s \in 1 .. n : scopes[s].first \in Nat /\ scopes[s].size \in Nat
  BY <1>1 DEF Lexical
<1>3. ASSUME NEW s \in 1 .. n, scopes[s].kind = "call"
      PROVE  scopes[s].first + 1 <= bound
  <2>1. scopes[s].size = 2
    BY <1>3 DEF Nested, Sized, n
  <2>2. scopes[s].first + scopes[s].size <= bound + 1
    <3>1. scopes[n].first + scopes[n].size = bound + 1
      BY DEF Nested, n
    <3>2. CASE s = n
      BY <1>2, <3>1, <3>2
    <3>3. CASE s < n
      <4>1. scopes[s].first + scopes[s].size <= scopes[n].first
        BY <1>1, <3>3 DEF Nested, n
      <4>2. /\ scopes[s].first \in Nat /\ scopes[n].first \in Nat /\ scopes[n].size \in Nat
            /\ scopes[s].size \in Nat
        BY <1>1, <1>2
      <4> QED
        BY <3>1, <4>1, <4>2, SMTT(30)
    <3> QED
      BY <1>1, <3>2, <3>3
  <2>3. scopes[s].first \in Nat
    BY <1>2
  <2> QED
    BY <2>1, <2>2, <2>3
<1>4. scope.kind = "call" => scope.size = 2
  BY DEF Sized
<1>5. ASSUME NEW i \in 1 .. bound PROVE OnLink(longer, i) <=> OnLink(scopes, i)
  <2>1. ~(i - scope.first \in {0, 1})
    OBVIOUS
  <2>2. ASSUME NEW s \in 1 .. n + 1, longer[s].kind = "call", i - longer[s].first \in {0, 1}
        PROVE  OnLink(scopes, i)
    <3>1. s \in 1 .. n
      BY <1>1, <2>1, <2>2
    <3> QED
      BY <1>1, <2>2, <3>1 DEF OnLink, n
  <2>3. ASSUME NEW s \in 1 .. n, scopes[s].kind = "call", i - scopes[s].first \in {0, 1}
        PROVE  OnLink(longer, i)
    BY <1>1, <2>3 DEF OnLink
  <2> QED
    BY <1>1, <2>2, <2>3 DEF OnLink, n
<1>6. ASSUME NEW i \in (bound + 1) .. (bound + scope.size)
      PROVE  OnLink(longer, i) <=> scope.kind = "call"
  <2>1. ASSUME scope.kind = "call" PROVE OnLink(longer, i)
    <3>1. i - scope.first \in {0, 1}
      BY <1>4, <2>1
    <3> QED
      BY <1>1, <2>1, <3>1 DEF OnLink
  <2>2. ASSUME NEW s \in 1 .. n + 1, longer[s].kind = "call", i - longer[s].first \in {0, 1}
        PROVE  scope.kind = "call"
    <3>1. CASE s = n + 1
      BY <1>1, <2>2, <3>1
    <3>2. CASE s # n + 1
      <4>1. s \in 1 .. n /\ longer[s] = scopes[s]
        BY <1>1, <3>2
      <4>2. scopes[s].first + 1 <= bound /\ scopes[s].first \in Nat
        BY <1>2, <1>3, <2>2, <4>1
      <4> QED
        BY <2>2, <4>1, <4>2
    <3> QED
      BY <3>1, <3>2
  <2> QED
    BY <1>1, <2>1, <2>2 DEF OnLink
<1> QED
  BY <1>5, <1>6 DEF longer

(* The same of the last scope and the ones before it.                      *)
LEMMA LinkOuter ==
  ASSUME NEW scopes \in Seq(Lexical), NEW bound \in Nat, Nested(scopes, bound),
         scopes[Len(scopes)].kind # "params"
  PROVE  LET top   == scopes[Len(scopes)]
             outer == SubSeq(scopes, 1, Len(scopes) - 1)
         IN  /\ \A i \in 1 .. (top.first - 1) : OnLink(scopes, i) <=> OnLink(outer, i)
             /\ \A i \in top.first .. bound : OnLink(scopes, i) <=> top.kind = "call"
<1> DEFINE n == Len(scopes)
           top == scopes[n]
           outer == SubSeq(scopes, 1, n - 1)
<1>1. /\ n \in Nat /\ n > 1 /\ outer \in Seq(Lexical) /\ Nested(outer, top.first - 1)
      /\ bound - top.size = top.first - 1
  BY NestedOuter, LenProperties
<1>2. /\ Len(outer) = n - 1 /\ \A s \in 1 .. n - 1 : outer[s] = scopes[s]
      /\ top \in Lexical /\ Sized(top)
  BY <1>1, OuterProperties, ElementOfSeq DEF Nested
<1>3. top.first \in Nat /\ top.first > 0 /\ top.size \in Nat
  BY <1>2 DEF Lexical
<1>4. scopes = Append(outer, top)
  <2> HIDE DEF n, outer
  <2>1. /\ Append(outer, top) \in Seq(Lexical) /\ Len(Append(outer, top)) = n
        /\ \A s \in 1 .. n - 1 : Append(outer, top)[s] = scopes[s]
        /\ Append(outer, top)[n] = top
    BY <1>1, <1>2, AppendScope
  <2>2. \A s \in 1 .. n : Append(outer, top)[s] = scopes[s]
    BY <1>1, <2>1
  <2> QED
    BY <2>1, <2>2, SeqEqual DEF n
<1>5. top.first - 1 \in Nat /\ top.first = top.first - 1 + 1 /\ bound = top.first - 1 + top.size
  BY <1>1, <1>3
<1> HIDE DEF top, outer
<1>6. LET longer == Append(outer, top)
      IN  /\ \A i \in 1 .. (top.first - 1) : OnLink(longer, i) <=> OnLink(outer, i)
          /\ \A i \in (top.first - 1 + 1) .. (top.first - 1 + top.size) :
               OnLink(longer, i) <=> top.kind = "call"
  BY <1>1, <1>2, <1>5, LinkAppend
<1> QED
  BY <1>4, <1>5, <1>6 DEF top, outer, n

-----------------------------------------------------------------------------
(* Steps within an activation.                                             *)

(* The words of the others stay, and those of the running activation are   *)
(* the ones its scopes and the memory say.                                 *)
LEMMA RunningImage ==
  ASSUME FramesInv,
         NEW a \in Frame, a.base = rsp,
         acts' = [acts EXCEPT ![Len(acts)] = a],
         \A x \in 1 .. rsp : mem'[x] = mem[x],
         \A i \in 1 .. a.bound : OnLink(a.scopes, i) \/ mem'[rsp + i] \in Values
  PROVE  /\ Waits' = Waits
         /\ Now' \in Seq(Word) /\ Len(Now') = a.bound
         /\ \A i \in 1 .. a.bound :
              Now'[i] = IF OnLink(a.scopes, i) THEN Link ELSE mem'[rsp + i]
<1> DEFINE n == Len(acts)
<1>1. /\ n \in Nat /\ n > 0 /\ n \in 1 .. n /\ acts \in Seq(Frame)
  BY RunningProperties DEF FramesInv, Lexicons
<1>2. /\ acts' \in Seq(Frame) /\ Len(acts') = n
      /\ \A k \in 1 .. n : acts'[k] = IF k = n THEN a ELSE acts[k]
  BY <1>1, ExceptSeq
<1>3. Running' = a
  BY <1>1, <1>2 DEF Running
<1>4. Now' = Image(a, mem')
  BY <1>3 DEF Now, Words, Image
<1>5. /\ Now' \in Seq(Word) /\ Len(Now') = a.bound
      /\ \A i \in 1 .. a.bound :
           Now'[i] = IF OnLink(a.scopes, i) THEN Link ELSE mem'[rsp + i]
  BY <1>4, ImageProperties
<1>6. ASSUME NEW k \in 1 .. (n - 1) PROVE Words(acts[k])' = Words(acts[k])
  <2>1. k \in 1 .. n /\ k < n /\ acts'[k] = acts[k]
    <3> HIDE DEF n
    <3> QED
      BY <1>1, <1>2
  <2>2. acts[k].base \in Nat /\ acts[k].bound \in Nat /\ acts[k].base + acts[k].bound <= rsp
    BY <2>1, FrameProperties
  <2>3. rsp \in Nat
    BY RunningProperties
  <2>4. \A i \in 1 .. acts[k].bound : mem'[acts[k].base + i] = mem[acts[k].base + i]
    BY <2>2, <2>3
  <2>5. Words(acts[k])' = [i \in 1 .. acts[k].bound |-> IF IsLink(acts[k], i) THEN Link ELSE mem'[acts[k].base + i]]
    BY <2>1 DEF Words
  <2> QED
    BY <2>4, <2>5 DEF Words
<1>7. Waits' = Waits
  BY <1>2, <1>6 DEF Waits
<1> QED
  BY <1>5, <1>7

(* The running activation gets other scopes.                               *)
LEMMA RescopeImage ==
  ASSUME FramesInv,
         NEW scopes \in Seq(Lexical), NEW bound \in Nat, Rescope(scopes, bound),
         \A x \in 1 .. rsp : mem'[x] = mem[x],
         \A i \in 1 .. bound : mem'[rsp + i] \in Values
  PROVE  /\ Waits' = Waits
         /\ Now' \in Seq(Word) /\ Len(Now') = bound
         /\ \A i \in 1 .. bound :
              Now'[i] = IF OnLink(scopes, i) THEN Link ELSE mem'[rsp + i]
<1> DEFINE a == [base |-> rsp, bound |-> bound, scopes |-> scopes]
<1>1. acts' = [acts EXCEPT ![Len(acts)] = a]
  BY RescopedFrame
<1>2. a \in Frame /\ a.base = rsp /\ a.bound = bound /\ a.scopes = scopes
  BY RunningProperties DEF Frame
<1> HIDE DEF a
<1> QED
  BY <1>1, <1>2, RunningImage

(* The scopes stay.                                                        *)
LEMMA SameImage ==
  ASSUME FramesInv, acts' = acts,
         \A x \in 1 .. rsp : mem'[x] = mem[x],
         \A i \in 1 .. Running.bound : mem'[rsp + i] \in Values
  PROVE  /\ Waits' = Waits
         /\ Now' \in Seq(Word) /\ Len(Now') = Running.bound
         /\ \A i \in 1 .. Running.bound :
              Now'[i] = IF OnLink(Scopes, i) THEN Link ELSE mem'[rsp + i]
<1>1. acts' = [acts EXCEPT ![Len(acts)] = Running]
  BY RunningProperties DEF FramesInv, Lexicons, Running
<1> QED
  BY <1>1, RunningProperties, RunningImage DEF Scopes

LEMMA BindsImage ==
  ASSUME FramesInv, NEW scopes \in Seq(Lexical),
         Rescope(scopes, Running.bound + 1), Bound(1), status' = status,
         \A i \in 1 .. Running.bound : OnLink(scopes, i) <=> OnLink(Scopes, i),
         \A i \in (Running.bound + 1) .. (Running.bound + 1) : ~OnLink(scopes, i)
  PROVE  Meaning!Bind
<1> DEFINE b == Running.bound
<1>1. b \in Nat /\ b + 1 \in Nat /\ 1 \in Nat
  BY RunningProperties
<1>2. /\ \A x \in 1 .. rsp : mem'[x] = mem[x]
      /\ \A i \in 1 .. (b + 1) : mem'[rsp + i] \in Values
      /\ \A i \in 1 .. b : mem'[rsp + i] = mem[rsp + i]
      /\ \A i \in (b + 1) .. (b + 1) : mem'[rsp + i] = Zero
  BY BoundStep
<1>3. /\ Waits' = Waits /\ Now' \in Seq(Word) /\ Len(Now') = b + 1
      /\ \A i \in 1 .. (b + 1) : Now'[i] = IF OnLink(scopes, i) THEN Link ELSE mem'[rsp + i]
  BY <1>1, <1>2, RescopeImage
<1>4. /\ Now \in Seq(Word) /\ Len(Now) = b
      /\ \A i \in 1 .. b : Now[i] = IF OnLink(Scopes, i) THEN Link ELSE mem[rsp + i]
  BY NowProperties
<1>5. Zero \in Word
  BY FrameAssumption DEF Word, Values
<1> HIDE DEF b
<1>6. Now' = Append(Now, Zero)
  <2>1. /\ Append(Now, Zero) \in Seq(Word) /\ Len(Append(Now, Zero)) = b + 1
        /\ \A i \in 1 .. b : Append(Now, Zero)[i] = Now[i]
        /\ Append(Now, Zero)[b + 1] = Zero
    BY <1>4, <1>5, AppendProperties
  <2>2. ASSUME NEW i \in 1 .. (b + 1) PROVE Now'[i] = Append(Now, Zero)[i]
    <3>1. CASE i = b + 1
      <4>1. ~OnLink(scopes, i) /\ mem'[rsp + i] = Zero
        BY <1>1, <1>2, <3>1 DEF b
      <4> QED
        BY <1>3, <2>1, <3>1, <4>1
    <3>2. CASE i # b + 1
      <4>1. i \in 1 .. b
        BY <1>1, <3>2
      <4> QED
        BY <1>2, <1>3, <1>4, <2>1, <4>1 DEF b
    <3> QED
      BY <3>1, <3>2
  <2> QED
    BY <1>3, <2>1, <2>2, SeqEqual
<1>7. Len(Now') > Len(Now)
  BY <1>1, <1>3, <1>4
<1> QED
  BY <1>3, <1>6, <1>7 DEF Meaning!Bind, Meaning!Longer, Now, Waits

(* A slot is bound, its word is 0.                                         *)
LEMMA OpenLetBinds ==
  ASSUME FramesInv, OpenLet
  PROVE  Meaning!Bind
<1> DEFINE b == Running.bound
           let == Scope("let", b + 1, 1, 0)
           scopes == Append(Scopes, let)
<1>1. /\ Scopes \in Seq(Lexical) /\ Nested(Scopes, b) /\ b \in Nat
  BY RunningProperties
<1>2. /\ let \in Lexical /\ Sized(let) /\ let.kind = "let" /\ let.first = b + 1 /\ let.size = 1
  BY <1>1 DEF Scope, Lexical, Kinds, Sized
<1>3. Rescope(scopes, b + 1) /\ Bound(1) /\ status' = status
  BY DEF OpenLet, Offset
<1> HIDE DEF let
<1>4. scopes \in Seq(Lexical)
  BY <1>1, <1>2, AppendScope
<1>5. /\ \A i \in 1 .. b : OnLink(scopes, i) <=> OnLink(Scopes, i)
      /\ \A i \in (b + 1) .. (b + 1) : ~OnLink(scopes, i)
  BY <1>1, <1>2, LinkAppend
<1> HIDE DEF scopes
<1> QED
  BY <1>1, <1>3, <1>4, <1>5, BindsImage

LEMMA BindLetBinds ==
  ASSUME FramesInv, BindLet
  PROVE  Meaning!Bind
<1> DEFINE b == Running.bound
           let == [Top EXCEPT !.size = @ + 1]
           scopes == Append(Outer, let)
<1>1. /\ Scopes \in Seq(Lexical) /\ Nested(Scopes, b) /\ b \in Nat
      /\ Top \in Lexical /\ Sized(Top) /\ Top.first \in Nat /\ Top.first > 0 /\ Top.size \in Nat /\ Top.done \in Nat
      /\ Top.first + Top.size = b + 1
  BY RunningProperties
<1>2. Rescope(scopes, b + 1) /\ Bound(1) /\ status' = status /\ Top.kind = "let"
  BY DEF BindLet, Offset
<1>3. /\ let \in Lexical /\ let.kind = "let" /\ let.first = Top.first /\ let.size = Top.size + 1
      /\ let.done = Top.done
  BY <1>1, <1>2 DEF Lexical
<1>4. Sized(let)
  BY <1>1, <1>2, <1>3 DEF Sized
<1> HIDE DEF let
<1>5. /\ Outer \in Seq(Lexical) /\ Nested(Outer, Top.first - 1)
      /\ \A i \in 1 .. (Top.first - 1) : OnLink(Scopes, i) <=> OnLink(Outer, i)
      /\ \A i \in Top.first .. b : ~OnLink(Scopes, i)
  BY <1>1, <1>2, NestedOuter, LinkOuter DEF Top, Outer
<1>6. Top.first - 1 \in Nat /\ let.first = Top.first - 1 + 1 /\ Top.first - 1 + let.size = b + 1
  BY <1>1, <1>3
<1>7. /\ \A i \in 1 .. (Top.first - 1) : OnLink(scopes, i) <=> OnLink(Outer, i)
      /\ \A i \in (Top.first - 1 + 1) .. (Top.first - 1 + let.size) : ~OnLink(scopes, i)
  BY <1>3, <1>4, <1>5, <1>6, LinkAppend
<1>8. \A i \in 1 .. b : i \in 1 .. (Top.first - 1) \/ i \in Top.first .. b
  BY <1>1
<1>9. \A i \in Top.first .. (b + 1) : ~OnLink(scopes, i)
  BY <1>3, <1>6, <1>7
<1>10. \A i \in 1 .. b : OnLink(scopes, i) <=> OnLink(Scopes, i)
  BY <1>1, <1>5, <1>7, <1>8, <1>9
<1>11. scopes \in Seq(Lexical)
  BY <1>3, <1>5, AppendScope
<1>12. \A i \in (b + 1) .. (b + 1) : ~OnLink(scopes, i)
  BY <1>1, <1>9
<1> HIDE DEF scopes
<1> QED
  BY <1>1, <1>2, <1>10, <1>11, <1>12, BindsImage


(* No slot of another scope than a link is one.                            *)
LEMMA LinkSlots ==
  ASSUME NEW scopes \in Seq(Lexical), NEW bound \in Nat, Nested(scopes, bound),
         NEW s \in 1 .. Len(scopes), scopes[s].kind # "call", NEW i \in Slots(scopes[s])
  PROVE  ~OnLink(scopes, i)
<1> SUFFICES ASSUME NEW t \in 1 .. Len(scopes), scopes[t].kind = "call", i - scopes[t].first \in {0, 1}
             PROVE  FALSE
  BY DEF OnLink
<1>1. scopes[s] \in Lexical /\ scopes[t] \in Lexical
  BY ElementOfSeq
<1>2. /\ scopes[s].first \in Nat /\ scopes[s].size \in Nat
      /\ scopes[t].first \in Nat /\ scopes[t].size \in Nat
  BY <1>1 DEF Lexical
<1>3. scopes[t].size = 2
  BY DEF Nested, Sized
<1>4. /\ s < t => scopes[s].first + scopes[s].size <= scopes[t].first
      /\ t < s => scopes[t].first + scopes[t].size <= scopes[s].first
  BY DEF Nested
<1>5. i \in scopes[s].first .. (scopes[s].first + scopes[s].size - 1)
  BY DEF Slots
<1>6. s < t \/ t < s
  <2>1. s # t
    OBVIOUS
  <2> QED
    BY <2>1, LenProperties
<1>7. CASE s < t
  BY <1>2, <1>4, <1>5, <1>7, SMTT(30)
<1>8. CASE t < s
  BY <1>2, <1>3, <1>4, <1>5, <1>8
<1> QED
  BY <1>6, <1>7, <1>8

(* One word of the running activation changes.                             *)
LEMMA WritesImage ==
  ASSUME FramesInv, NEW slot \in 1 .. Running.bound, ~OnLink(Scopes, slot),
         NEW v \in Results, Store(slot, v), status' = status,
         Waits' = Waits, Now' \in Seq(Word), Len(Now') = Running.bound,
         \A i \in 1 .. Running.bound :
           Now'[i] = IF OnLink(Scopes, i) THEN Link ELSE mem'[rsp + i]
  PROVE  Meaning!Write
<1> DEFINE b == Running.bound
<1>1. \A i \in 1 .. b : mem'[rsp + i] = IF i = slot THEN v ELSE mem[rsp + i]
  BY StoreStep
<1>2. /\ Now \in Seq(Word) /\ Len(Now) = b
      /\ \A i \in 1 .. b : Now[i] = IF OnLink(Scopes, i) THEN Link ELSE mem[rsp + i]
      /\ \A i \in 1 .. b : mem[rsp + i] \in Values
  BY NowProperties, RunningProperties
<1>3. v \in Values /\ Link \notin Values /\ v \in Word
  BY FrameAssumption DEF Word
<1> HIDE DEF b
<1>4. slot \in 1 .. b
  BY DEF b
<1>5. Now'[slot] = v /\ Now[slot] # Link
  BY <1>1, <1>2, <1>3, <1>4 DEF b
<1>6. Now' = [Now EXCEPT ![slot] = v]
  <2>1. /\ [Now EXCEPT ![slot] = v] \in Seq(Word) /\ Len([Now EXCEPT ![slot] = v]) = b
        /\ \A i \in 1 .. b : [Now EXCEPT ![slot] = v][i] = IF i = slot THEN v ELSE Now[i]
    BY <1>2, <1>3, <1>4, ExceptSeq
  <2>2. \A i \in 1 .. b : Now'[i] = [Now EXCEPT ![slot] = v][i]
    BY <1>1, <1>2, <1>5, <2>1 DEF b
  <2>3. Len(Now') = b
    BY DEF b
  <2> QED
    BY <2>1, <2>2, <2>3, SeqEqual
<1>7. Len(Now') = Len(Now)
  BY <1>2 DEF b
<1>8. /\ slot \in 1 .. Len(Now) /\ Now[slot] # Link /\ Now'[slot] \in Values
      /\ Now' = [Now EXCEPT ![slot] = Now'[slot]]
  BY <1>2, <1>3, <1>4, <1>5, <1>6
<1> QED
  BY <1>7, <1>8 DEF Meaning!Write, Meaning!Alike, Now, Waits, Meaning!Values, Values

LEMMA DoneWrites ==
  ASSUME FramesInv, NEW n \in 0 .. Top.size, Done(n), Top.kind # "params",
         NEW slot \in Slots(Top), NEW v \in Results, Store(slot, v), status' = status
  PROVE  Meaning!Write
<1> DEFINE b == Running.bound
           scope == [Top EXCEPT !.done = n]
           scopes == Append(Outer, scope)
<1>1. /\ Scopes \in Seq(Lexical) /\ Nested(Scopes, b) /\ b \in Nat
      /\ Len(Scopes) \in 1 .. Len(Scopes)
      /\ Top \in Lexical /\ Sized(Top) /\ Top.kind # "call"
      /\ Top.first \in Nat /\ Top.first > 0 /\ Top.size \in Nat /\ Top.done \in Nat
      /\ Top.first + Top.size = b + 1
  BY RunningProperties
<1>2. Rescope(scopes, b)
  BY DEF Done
<1>3. n \in Nat /\ n <= Top.size
  BY <1>1
<1>4. /\ scope \in Lexical /\ Sized(scope)
      /\ scope.kind = Top.kind /\ scope.first = Top.first /\ scope.size = Top.size
  BY <1>1, <1>3 DEF Lexical, Sized
<1> HIDE DEF scope
<1>5. /\ Outer \in Seq(Lexical) /\ Nested(Outer, Top.first - 1)
      /\ \A i \in 1 .. (Top.first - 1) : OnLink(Scopes, i) <=> OnLink(Outer, i)
      /\ \A i \in Top.first .. b : ~OnLink(Scopes, i)
  BY <1>1, NestedOuter, LinkOuter DEF Top, Outer
<1>6. Top.first - 1 \in Nat /\ scope.first = Top.first - 1 + 1 /\ Top.first - 1 + scope.size = b
  BY <1>1, <1>4, SMTT(30)
<1>7. /\ \A i \in 1 .. (Top.first - 1) : OnLink(scopes, i) <=> OnLink(Outer, i)
      /\ \A i \in (Top.first - 1 + 1) .. (Top.first - 1 + scope.size) : ~OnLink(scopes, i)
  BY <1>1, <1>4, <1>5, <1>6, LinkAppend
<1>8. \A i \in 1 .. b : i \in 1 .. (Top.first - 1) \/ i \in Top.first .. b
  BY <1>1
<1>9. \A i \in Top.first .. b : ~OnLink(scopes, i)
  BY <1>4, <1>6, <1>7
<1>10. \A i \in 1 .. b : OnLink(scopes, i) <=> OnLink(Scopes, i)
  BY <1>1, <1>5, <1>7, <1>8, <1>9
<1>11. scopes \in Seq(Lexical)
  BY <1>4, <1>5, AppendScope
<1> HIDE DEF scopes
<1>12. slot \in 1 .. b /\ ~OnLink(Scopes, slot)
  BY <1>1, SlotsBound, LinkSlots DEF Top
<1>13. /\ \A x \in 1 .. rsp : mem'[x] = mem[x]
       /\ \A i \in 1 .. b : mem'[rsp + i] \in Values
  BY <1>12, StoreStep
<1>14. /\ Waits' = Waits /\ Now' \in Seq(Word) /\ Len(Now') = b
       /\ \A i \in 1 .. b : Now'[i] = IF OnLink(scopes, i) THEN Link ELSE mem'[rsp + i]
  BY <1>1, <1>2, <1>11, <1>13, RescopeImage
<1>15. \A i \in 1 .. b : Now'[i] = IF OnLink(Scopes, i) THEN Link ELSE mem'[rsp + i]
  BY <1>10, <1>14
<1> QED
  BY <1>12, <1>14, <1>15, WritesImage

LEMMA StoreLetWrites ==
  ASSUME FramesInv, StoreLet
  PROVE  Meaning!Write
<1>1. Top.kind = "let" /\ Top.done < Top.size /\ Done(Top.size) /\ status' = status
  BY DEF StoreLet
<1>2. PICK v \in Results : Store(Top.first + Top.size - 1, v)
  BY DEF StoreLet
<1>3. /\ Top.first \in Nat /\ Top.first > 0 /\ Top.size \in Nat /\ Top.done \in Nat
  BY RunningProperties
<1>4. Top.size \in 0 .. Top.size /\ Top.first + Top.size - 1 \in Slots(Top)
  BY <1>1, <1>3 DEF Slots
<1> QED
  BY <1>1, <1>2, <1>4, DoneWrites

LEMMA OperandWrites ==
  ASSUME FramesInv, Operand
  PROVE  Meaning!Write
<1>1. Top.kind \in {"args", "tail"} /\ Top.done < Top.size /\ Done(Top.done + 1) /\ status' = status
  BY DEF Operand
<1>2. PICK v \in Results : Store(Top.first + OperandSlot(Top.done), v)
  BY DEF Operand
<1>3. /\ Top.first \in Nat /\ Top.first > 0 /\ Top.size \in Nat /\ Top.done \in Nat
  BY RunningProperties
<1>4. Top.done + 1 \in 0 .. Top.size /\ Top.first + OperandSlot(Top.done) \in Slots(Top)
  BY <1>1, <1>3 DEF Slots, OperandSlot
<1> QED
  BY <1>1, <1>2, <1>4, DoneWrites

LEMMA SetVariableWrites ==
  ASSUME FramesInv, SetVariable
  PROVE  Meaning!Write
<1>1. PICK s \in 1 .. Len(Scopes), v \in Results :
        Scopes[s].kind \in {"params", "let"} /\ \E i \in Slots(Scopes[s]) : Store(i, v)
  BY DEF SetVariable
<1>2. PICK i \in Slots(Scopes[s]) : Store(i, v)
  BY <1>1
<1>3. i \in 1 .. Running.bound
  BY SlotsBound
<1>4. ~OnLink(Scopes, i)
  BY <1>1, RunningProperties, LinkSlots
<1>5. acts' = acts /\ status' = status
  BY DEF SetVariable
<1>6. /\ \A x \in 1 .. rsp : mem'[x] = mem[x]
      /\ \A j \in 1 .. Running.bound : mem'[rsp + j] \in Values
  BY <1>2, <1>3, StoreStep
<1>7. /\ Waits' = Waits /\ Now' \in Seq(Word) /\ Len(Now') = Running.bound
      /\ \A j \in 1 .. Running.bound : Now'[j] = IF OnLink(Scopes, j) THEN Link ELSE mem'[rsp + j]
  BY <1>5, <1>6, SameImage
<1> QED
  BY <1>2, <1>3, <1>4, <1>5, <1>7, WritesImage

(* What a runtime function leaves below the bound words is none of them.   *)
LEMMA RuntimeCallStutters ==
  ASSUME FramesInv, RuntimeCall
  PROVE  UNCHANGED Meaning!vars
<1>1. /\ acts' = acts /\ status' = status
      /\ mem' = [a \in Addresses |-> IF a > rsp + Running.bound THEN Junk ELSE mem[a]]
  BY DEF RuntimeCall, BelowSlots
<1>2. /\ rsp \in Nat /\ Running.bound \in Nat /\ MaxWords \in Nat
      /\ gcframe = rsp + Running.bound /\ gcframe <= MaxWords
      /\ \A i \in 1 .. Running.bound : mem[rsp + i] \in Values
  BY RunningProperties, FrameAssumption
<1>3. \A x \in 1 .. (rsp + Running.bound) : mem'[x] = mem[x]
  <2> TAKE x \in 1 .. (rsp + Running.bound)
  <2>1. x \in Addresses /\ ~(x > rsp + Running.bound)
    BY <1>2 DEF Addresses
  <2> QED
    BY <1>1, <2>1
<1>4. /\ \A x \in 1 .. rsp : x \in 1 .. (rsp + Running.bound)
      /\ \A i \in 1 .. Running.bound : rsp + i \in 1 .. (rsp + Running.bound)
  BY <1>2
<1>5. \A i \in 1 .. Running.bound : mem'[rsp + i] = mem[rsp + i]
  BY <1>3, <1>4
<1>6. /\ Waits' = Waits /\ Now' \in Seq(Word) /\ Len(Now') = Running.bound
      /\ \A i \in 1 .. Running.bound : Now'[i] = IF OnLink(Scopes, i) THEN Link ELSE mem'[rsp + i]
  BY <1>1, <1>2, <1>3, <1>4, <1>5, SameImage
<1>7. Now' = Now
  <2>1. /\ Now \in Seq(Word) /\ Len(Now) = Running.bound
        /\ \A i \in 1 .. Running.bound : Now[i] = IF OnLink(Scopes, i) THEN Link ELSE mem[rsp + i]
    BY NowProperties
  <2>2. \A i \in 1 .. Running.bound : Now'[i] = Now[i]
    BY <1>5, <1>6, <2>1
  <2> QED
    BY <1>6, <2>1, <2>2, SeqEqual
<1> QED
  BY <1>1, <1>6, <1>7 DEF Meaning!vars, Now, Waits


(* The first words of a sequence.                                          *)
LEMMA FirstWords ==
  ASSUME NEW S, NEW s \in Seq(S), NEW k \in 0 .. Len(s)
  PROVE  /\ SubSeq(s, 1, k) \in Seq(S) /\ Len(SubSeq(s, 1, k)) = k
         /\ \A i \in 1 .. k : SubSeq(s, 1, k)[i] = s[i]
<1>1. k \in Nat /\ k <= Len(s) /\ Len(s) \in Nat
  BY LenProperties
<1>2. \A i \in 1 .. k : s[i] \in S
  BY <1>1, ElementOfSeq
<1>3. /\ SubSeq(s, 1, k) \in Seq(S)
      /\ Len(SubSeq(s, 1, k)) = IF 1 <= k THEN k - 1 + 1 ELSE 0
      /\ \A i \in 1 .. k - 1 + 1 : SubSeq(s, 1, k)[i] = s[1 + i - 1]
  BY <1>1, <1>2, SubSeqProperties
<1>4. k - 1 + 1 = k /\ (IF 1 <= k THEN k ELSE 0) = k /\ \A i \in 1 .. k : 1 + i - 1 = i
  BY <1>1
<1> QED
  BY <1>3, <1>4

(* The words of a let are dropped; one without slots has none.             *)
LEMMA CloseLetUnbinds ==
  ASSUME FramesInv, CloseLet
  PROVE  Meaning!Unbind \/ UNCHANGED Meaning!vars
<1> DEFINE b == Running.bound
           c == Top.first - 1
<1>1. /\ Top.kind = "let" /\ Rescope(Outer, b - Top.size) /\ mem' = mem /\ status' = status
  BY DEF CloseLet
<1>2. /\ Scopes \in Seq(Lexical) /\ Nested(Scopes, b) /\ b \in Nat
      /\ Top.first \in Nat /\ Top.first > 0 /\ Top.size \in Nat
      /\ Top.first + Top.size = b + 1
      /\ \A i \in 1 .. b : mem[rsp + i] \in Values
  BY RunningProperties
<1>3. /\ Outer \in Seq(Lexical) /\ b - Top.size = c
      /\ \A i \in 1 .. c : OnLink(Scopes, i) <=> OnLink(Outer, i)
  BY <1>1, <1>2, NestedOuter, LinkOuter DEF Top, Outer
<1>4. c \in Nat /\ c <= b /\ 1 .. c \subseteq 1 .. b
  BY <1>2
<1> HIDE DEF b, c
<1>5. /\ Waits' = Waits /\ Now' \in Seq(Word) /\ Len(Now') = c
      /\ \A i \in 1 .. c : Now'[i] = IF OnLink(Outer, i) THEN Link ELSE mem'[rsp + i]
  BY <1>1, <1>2, <1>3, <1>4, RescopeImage
<1>6. /\ Now \in Seq(Word) /\ Len(Now) = b
      /\ \A i \in 1 .. b : Now[i] = IF OnLink(Scopes, i) THEN Link ELSE mem[rsp + i]
  BY NowProperties DEF b
<1>7. /\ SubSeq(Now, 1, c) \in Seq(Word) /\ Len(SubSeq(Now, 1, c)) = c
      /\ \A i \in 1 .. c : SubSeq(Now, 1, c)[i] = Now[i]
  BY <1>2, <1>4, <1>6, FirstWords
<1>8. \A i \in 1 .. c : Now'[i] = SubSeq(Now, 1, c)[i]
  BY <1>1, <1>3, <1>4, <1>5, <1>6, <1>7
<1>9. Now' = SubSeq(Now, 1, Len(Now'))
  BY <1>5, <1>7, <1>8, SeqEqual
<1>10. CASE c = b
  <2>1. Now' = Now
    BY <1>5, <1>6, <1>9, <1>10, SubSeqFull
  <2> QED
    BY <1>1, <1>5, <2>1 DEF Meaning!vars, Now, Waits
<1>11. CASE c # b
  <2>1. Len(Now') < Len(Now)
    BY <1>2, <1>4, <1>5, <1>6, <1>11
  <2> QED
    BY <1>1, <1>5, <1>9, <2>1 DEF Meaning!Unbind, Meaning!Shorter, Now, Waits
<1> QED
  BY <1>10, <1>11


(* One sequence behind another.                                            *)
LEMMA Joined ==
  ASSUME NEW S, NEW s \in Seq(S), NEW t \in Seq(S),
         NEW m, m = Len(s), NEW n, n = Len(t)
  PROVE  /\ s \o t \in Seq(S) /\ Len(s \o t) = m + n
         /\ \A i \in 1 .. m + n : (s \o t)[i] = IF i <= m THEN s[i] ELSE t[i - m]
  BY ConcatProperties

(* Room for a procedure and n arguments, behind links or none.             *)
LEMMA PreparesImage ==
  ASSUME FramesInv, NEW n \in 0 .. MaxArgs,
         NEW links \in {<<>>, <<Link, Link>>}, NEW l \in Nat, l = Len(links),
         NEW scopes \in Seq(Lexical),
         Rescope(scopes, Running.bound + (l + (n + 1))), Bound(l + (n + 1)), status' = status,
         \A i \in 1 .. Running.bound : OnLink(scopes, i) <=> OnLink(Scopes, i),
         \A i \in (Running.bound + 1) .. (Running.bound + l) : OnLink(scopes, i),
         \A i \in (Running.bound + l + 1) .. (Running.bound + l + (n + 1)) : ~OnLink(scopes, i)
  PROVE  Meaning!Prepare
<1> DEFINE b == Running.bound
           zeros == Meaning!Zeros(n + 1)
           goal == Now \o links \o zeros
<1>1. /\ b \in Nat /\ n \in Nat /\ n + 1 \in Nat /\ l + (n + 1) \in Nat
      /\ b + (l + (n + 1)) \in Nat /\ l + (n + 1) > 0
  BY RunningProperties, FrameAssumption, SMTT(30)
<1>2. /\ \A x \in 1 .. rsp : mem'[x] = mem[x]
      /\ \A i \in 1 .. (b + (l + (n + 1))) : mem'[rsp + i] \in Values
      /\ \A i \in 1 .. b : mem'[rsp + i] = mem[rsp + i]
      /\ \A i \in (b + 1) .. (b + (l + (n + 1))) : mem'[rsp + i] = Zero
  BY <1>1, BoundStep
<1>3. /\ Waits' = Waits /\ Now' \in Seq(Word) /\ Len(Now') = b + (l + (n + 1))
      /\ \A i \in 1 .. (b + (l + (n + 1))) :
           Now'[i] = IF OnLink(scopes, i) THEN Link ELSE mem'[rsp + i]
  BY <1>1, <1>2, RescopeImage
<1>4. /\ Now \in Seq(Word) /\ Len(Now) = b
      /\ \A i \in 1 .. b : Now[i] = IF OnLink(Scopes, i) THEN Link ELSE mem[rsp + i]
  BY NowProperties
<1>5. /\ links \in Seq(Word) /\ \A i \in 1 .. l : links[i] = Link
  <2>1. Link \in Word
    BY DEF Word
  <2>2. CASE links = <<>>
    BY <2>2
  <2>3. CASE links = <<Link, Link>>
    <3>1. links \in Seq(Word) /\ l = 2 /\ links[1] = Link /\ links[2] = Link
      BY <2>1, <2>3
    <3>2. \A i \in 1 .. 2 : i = 1 \/ i = 2
      OBVIOUS
    <3> QED
      BY <3>1, <3>2
  <2> QED
    BY <2>2, <2>3
<1>6. zeros \in Seq(Word) /\ Len(zeros) = n + 1 /\ \A i \in 1 .. n + 1 : zeros[i] = Zero
  <2>1. Zero \in Word
    BY FrameAssumption DEF Word, Values
  <2>2. zeros = [i \in 1 .. n + 1 |-> Zero]
    BY DEF Meaning!Zeros
  <2> HIDE DEF zeros
  <2>3. zeros \in [1 .. n + 1 -> Word]
    BY <2>1, <2>2
  <2> QED
    BY <1>1, <2>2, <2>3
<1> HIDE DEF b, zeros
<1>7. /\ goal \in Seq(Word) /\ Len(goal) = b + (l + (n + 1))
      /\ \A i \in 1 .. b : goal[i] = Now[i]
      /\ \A i \in (b + 1) .. (b + l) : goal[i] = Link
      /\ \A i \in (b + l + 1) .. (b + l + (n + 1)) : goal[i] = Zero
  <2> DEFINE front == Now \o links
  <2>1. /\ front \in Seq(Word) /\ Len(front) = b + l
        /\ \A i \in 1 .. b + l : front[i] = IF i <= b THEN Now[i] ELSE links[i - b]
    BY <1>4, <1>5, Joined, SMTT(30)
  <2> HIDE DEF front
  <2>2. /\ front \o zeros \in Seq(Word) /\ Len(front \o zeros) = b + l + (n + 1)
        /\ \A i \in 1 .. b + l + (n + 1) :
             (front \o zeros)[i] = IF i <= b + l THEN front[i] ELSE zeros[i - (b + l)]
    BY <1>6, <2>1, Joined, SMTT(30)
  <2>3. goal = front \o zeros
    BY DEF front
  <2>4. \A i \in 1 .. b : i \in 1 .. b + l /\ i \in 1 .. b + l + (n + 1) /\ i <= b /\ i <= b + l
    BY <1>1
  <2>5. \A i \in (b + 1) .. (b + l) : /\ i \in 1 .. b + l /\ i \in 1 .. b + l + (n + 1)
                                      /\ ~(i <= b) /\ i <= b + l /\ i - b \in 1 .. l
    BY <1>1
  <2>6. \A i \in (b + l + 1) .. (b + l + (n + 1)) :
          i \in 1 .. b + l + (n + 1) /\ ~(i <= b + l) /\ i - (b + l) \in 1 .. n + 1
    BY <1>1
  <2>7. b + l + (n + 1) = b + (l + (n + 1))
    BY <1>1
  <2> HIDE DEF goal
  <2>8. \A i \in 1 .. b : goal[i] = Now[i]
    BY <2>1, <2>2, <2>3, <2>4
  <2>9. \A i \in (b + 1) .. (b + l) : goal[i] = Link
    BY <1>5, <2>1, <2>2, <2>3, <2>5
  <2>10. \A i \in (b + l + 1) .. (b + l + (n + 1)) : goal[i] = Zero
    BY <1>6, <2>2, <2>3, <2>6
  <2> QED
    BY <2>2, <2>3, <2>7, <2>8, <2>9, <2>10
<1> HIDE DEF goal
<1>8. Now' = goal
  <2>1. ASSUME NEW i \in 1 .. (b + (l + (n + 1))) PROVE Now'[i] = goal[i]
    <3>1. CASE i \in 1 .. b
      BY <1>2, <1>3, <1>4, <1>7, <3>1 DEF b
    <3>2. CASE i \in (b + 1) .. (b + l)
      BY <1>3, <1>7, <3>2 DEF b
    <3>3. CASE i \in (b + l + 1) .. (b + l + (n + 1))
      <4>1. i \in (b + 1) .. (b + (l + (n + 1)))
        BY <1>1, <3>3
      <4> QED
        BY <1>2, <1>3, <1>7, <3>3, <4>1 DEF b
    <3>4. i \in 1 .. b \/ i \in (b + 1) .. (b + l) \/ i \in (b + l + 1) .. (b + l + (n + 1))
      BY <1>1
    <3> QED
      BY <3>1, <3>2, <3>3, <3>4
  <2> QED
    BY <1>3, <1>7, <2>1, SeqEqual
<1>9. Len(Now') > Len(Now)
  <2>1. b + (l + (n + 1)) > b
    BY <1>1
  <2> QED
    BY <1>3, <1>4, <2>1
<1>10. Now' = Now \o links \o Meaning!Zeros(n + 1)
  BY <1>8 DEF goal, zeros
<1> QED
  BY <1>3, <1>9, <1>10 DEF Meaning!Prepare, Meaning!Longer, Now, Waits

(* A tail call needs no links.                                             *)
LEMMA BeginTailCallPrepares ==
  ASSUME FramesInv, BeginTailCall
  PROVE  Meaning!Prepare
<1>1. PICK n \in 0 .. MaxArgs :
        /\ Bound(n + 1)
        /\ Rescope(Append(Scopes, Scope("tail", Offset, n + 1, 0)), Running.bound + n + 1)
  BY DEF BeginTailCall
<1> DEFINE b == Running.bound
           tail == Scope("tail", b + 1, n + 1, 0)
           scopes == Append(Scopes, tail)
<1>2. status' = status
  BY DEF BeginTailCall
<1>3. /\ Scopes \in Seq(Lexical) /\ Nested(Scopes, b) /\ b \in Nat /\ n \in Nat
  BY RunningProperties, FrameAssumption
<1>4. /\ b + n + 1 = b + (0 + (n + 1)) /\ 0 + (n + 1) = n + 1 /\ b + 0 = b
      /\ n + 1 \in Nat /\ n + 1 > 0 /\ n + 1 <= MaxArgs + 1 /\ b + 1 \in Nat \ {0}
  BY <1>3, FrameAssumption
<1>5. Rescope(scopes, b + (0 + (n + 1))) /\ Bound(0 + (n + 1))
  BY <1>1, <1>4 DEF Offset
<1>6. /\ tail \in Lexical /\ Sized(tail) /\ tail.kind = "tail"
      /\ tail.first = b + 1 /\ tail.size = n + 1
  <2>1. /\ tail \in Lexical /\ tail.kind = "tail" /\ tail.first = b + 1
        /\ tail.size = n + 1 /\ tail.done = 0
    BY <1>4 DEF Scope, Lexical, Kinds
  <2> QED
    BY <1>4, <2>1 DEF Sized
<1> HIDE DEF tail
<1>7. /\ \A i \in 1 .. b : OnLink(scopes, i) <=> OnLink(Scopes, i)
      /\ \A i \in (b + 1) .. (b + (n + 1)) : ~OnLink(scopes, i)
  BY <1>3, <1>6, LinkAppend
<1>8. scopes \in Seq(Lexical)
  BY <1>3, <1>6, AppendScope
<1> HIDE DEF scopes
<1>9. /\ \A i \in (b + 1) .. (b + 0) : OnLink(scopes, i)
      /\ \A i \in (b + 0 + 1) .. (b + 0 + (n + 1)) : ~OnLink(scopes, i)
  BY <1>3, <1>4, <1>7
<1>10. Len(<<>>) = 0
  BY EmptySeq
<1> QED
  BY <1>2, <1>5, <1>7, <1>8, <1>9, <1>10, PreparesImage

(* The slots of the call are links.                                        *)
LEMMA BeginCallPrepares ==
  ASSUME FramesInv, BeginCall
  PROVE  Meaning!Prepare
<1>1. PICK n \in 0 .. MaxArgs :
        /\ Bound(n + 3)
        /\ Rescope(Scopes \o <<Scope("call", Offset, 2, 2), Scope("args", Offset + 2, n + 1, 0)>>,
                   Running.bound + n + 3)
  BY DEF BeginCall
<1> DEFINE b == Running.bound
           call == Scope("call", b + 1, 2, 2)
           args == Scope("args", b + 1 + 2, n + 1, 0)
           linked == Append(Scopes, call)
           scopes == Append(linked, args)
<1>2. status' = status
  BY DEF BeginCall
<1>3. /\ Scopes \in Seq(Lexical) /\ Nested(Scopes, b) /\ b \in Nat
      /\ Scopes[Len(Scopes)].kind # "call" /\ n \in Nat
  BY RunningProperties, FrameAssumption DEF Top
<1>4. /\ call \in Lexical /\ Sized(call) /\ call.kind = "call"
      /\ call.first = b + 1 /\ call.size = 2
  <2>1. b + 1 \in Nat \ {0}
    BY <1>3
  <2>2. /\ call \in Lexical /\ call.kind = "call" /\ call.first = b + 1
        /\ call.size = 2 /\ call.done = 2
    BY <2>1 DEF Scope, Lexical, Kinds
  <2> QED
    BY <2>2 DEF Sized
<1>5. /\ args \in Lexical /\ Sized(args) /\ args.kind = "args"
      /\ args.first = b + 2 + 1 /\ args.size = n + 1
  <2>1. /\ b + 1 + 2 \in Nat \ {0} /\ b + 1 + 2 = b + 2 + 1
        /\ n + 1 \in Nat /\ n + 1 > 0 /\ n + 1 <= MaxArgs + 1
    BY <1>3, FrameAssumption
  <2>2. /\ args \in Lexical /\ args.kind = "args" /\ args.first = b + 1 + 2
        /\ args.size = n + 1 /\ args.done = 0
    BY <2>1 DEF Scope, Lexical, Kinds
  <2> QED
    BY <2>1, <2>2 DEF Sized
<1>6. /\ b + n + 3 = b + (2 + (n + 1)) /\ n + 3 = 2 + (n + 1) /\ b + 2 \in Nat
  BY <1>3
<1>7. Rescope(scopes, b + (2 + (n + 1))) /\ Bound(2 + (n + 1))
  <2>1. Scopes \o <<call, args>> = scopes
    BY <1>3, <1>4, <1>5, AppendTwo
  <2>2. Rescope(Scopes \o <<call, args>>, b + n + 3)
    BY <1>1 DEF Offset
  <2>3. Bound(n + 3)
    BY <1>1
  <2> QED
    BY <1>6, <2>1, <2>2, <2>3
<1> HIDE DEF call, args, b
<1>8. /\ Nested(linked, b + 2) /\ linked \in Seq(Lexical)
      /\ \A i \in 1 .. b : OnLink(linked, i) <=> OnLink(Scopes, i)
      /\ \A i \in (b + 1) .. (b + 2) : OnLink(linked, i)
  BY <1>3, <1>4, NestedAppend, AppendScope, LinkAppend
<1> HIDE DEF linked
<1>9. /\ scopes \in Seq(Lexical)
      /\ \A i \in 1 .. (b + 2) : OnLink(scopes, i) <=> OnLink(linked, i)
      /\ \A i \in (b + 2 + 1) .. (b + 2 + (n + 1)) : ~OnLink(scopes, i)
  BY <1>5, <1>6, <1>8, AppendScope, LinkAppend
<1> HIDE DEF scopes
<1>10. \A i \in 1 .. b : i \in 1 .. (b + 2)
  BY <1>3
<1>11. \A i \in (b + 1) .. (b + 2) : i \in 1 .. (b + 2)
  BY <1>3
<1>12. /\ \A i \in 1 .. b : OnLink(scopes, i) <=> OnLink(Scopes, i)
       /\ \A i \in (b + 1) .. (b + 2) : OnLink(scopes, i)
  BY <1>8, <1>9, <1>10, <1>11
<1>13. Len(<<Link, Link>>) = 2
  OBVIOUS
<1> QED
  BY <1>2, <1>7, <1>9, <1>12, <1>13, PreparesImage DEF b


-----------------------------------------------------------------------------
(* Calls.                                                                  *)

(* The procedure and the arguments are the last words.                     *)
LEMMA ReadyWords ==
  ASSUME FramesInv, Ready("args") \/ Ready("tail")
  PROVE  /\ Now # <<>> /\ Meaning!Callee = Callee
         /\ NArgs \in Nat /\ NArgs <= MaxArgs /\ NArgs < Len(Now)
         /\ Len(Now) - (NArgs + 1) = Top.first - 1
         /\ Meaning!Arguments(NArgs) \in Seq(Word) /\ Len(Meaning!Arguments(NArgs)) = NArgs
         /\ \A i \in 1 .. NArgs :
              /\ Meaning!Arguments(NArgs)[i] = mem[rsp + (Top.first - 1 + i)]
              /\ Meaning!Arguments(NArgs)[i] \in Values
<1> DEFINE b == Running.bound
           first == Top.first
           n == NArgs
           args == SubSeq(Now, b - n, b - 1)
<1>1. /\ Scopes \in Seq(Lexical) /\ Nested(Scopes, b) /\ b \in Nat /\ rsp \in Nat
      /\ Len(Scopes) \in Nat /\ Len(Scopes) > 0 /\ Sized(Top)
      /\ first \in Nat /\ first > 0 /\ Top.size \in Nat /\ first + Top.size = b + 1
      /\ \A i \in 1 .. b : mem[rsp + i] \in Values
  BY RunningProperties
<1>2. Top.kind \in {"args", "tail"}
  BY DEF Ready
<1>3. Top.size > 0 /\ Top.size <= MaxArgs + 1
  BY <1>1, <1>2 DEF Sized
<1>4. /\ n \in Nat /\ Top.size = n + 1 /\ n <= MaxArgs
      /\ first + n = b /\ b > 0 /\ n < b
  <2> DEFINE size == Top.size
  <2>1. /\ first \in Nat /\ first > 0 /\ size \in Nat /\ size > 0 /\ size <= MaxArgs + 1
        /\ b \in Nat /\ first + size = b + 1 /\ n = size - 1 /\ MaxArgs \in Nat
    BY <1>1, <1>3, FrameAssumption DEF NArgs
  <2> HIDE DEF size, first, b, n
  <2>2. /\ n \in Nat /\ size = n + 1 /\ n <= MaxArgs
        /\ first + n = b /\ b > 0 /\ n < b
    BY <2>1
  <2> QED
    BY <2>2 DEF size
<1>5. \A i \in first .. b : i \in Slots(Top) /\ ~OnLink(Scopes, i)
  <2>1. \A i \in first .. b : i \in Slots(Top)
    BY <1>1, <1>4 DEF Slots
  <2>2. Len(Scopes) \in 1 .. Len(Scopes) /\ Scopes[Len(Scopes)] = Top /\ Top.kind # "call"
    BY <1>1, <1>2 DEF Top
  <2> QED
    BY <1>1, <2>1, <2>2, LinkSlots
<1>6. /\ Now \in Seq(Word) /\ Len(Now) = b
      /\ \A i \in 1 .. b : Now[i] = IF OnLink(Scopes, i) THEN Link ELSE mem[rsp + i]
  BY NowProperties
<1>7. Callee = mem[rsp + b]
  <2> DEFINE size == Top.size
  <2>1. rsp \in Nat /\ first \in Nat /\ size \in Nat /\ b \in Nat /\ first + size = b + 1
    BY <1>1
  <2> HIDE DEF size, first, b
  <2>2. rsp + first + size - 1 = rsp + b
    BY <2>1
  <2> QED
    BY <2>2 DEF Callee, size, first
<1> HIDE DEF b, first, n
<1>8. \A i \in first .. b : Now[i] = mem[rsp + i] /\ Now[i] \in Values
  <2>1. \A i \in first .. b : i \in 1 .. b
    BY <1>1, <1>4
  <2> QED
    BY <1>1, <1>5, <1>6, <2>1
<1>9. Now[b] = Callee /\ Now # <<>>
  <2>1. b \in first .. b /\ Len(<<>>) = 0
    BY <1>1, <1>4
  <2> QED
    BY <1>4, <1>6, <1>7, <1>8, <2>1
<1>10. /\ args \in Seq(Word) /\ Len(args) = n
       /\ \A i \in 1 .. n : args[i] = Now[first - 1 + i]
  <2>1. /\ b - n \in Int /\ b - 1 \in Int /\ b - n = first
        /\ (b - n <= b - 1 <=> n > 0)
        /\ b - 1 - (b - n) + 1 = n /\ (n = 0 \/ n > 0)
    BY <1>1, <1>4
  <2>2. \A i \in (b - n) .. (b - 1) : Now[i] \in Word
    <3>1. \A i \in (b - n) .. (b - 1) : i \in 1 .. b
      BY <1>1, <1>4
    <3> QED
      BY <1>6, <3>1, ElementOfSeq
  <2>3. /\ args \in Seq(Word)
        /\ Len(args) = IF b - n <= b - 1 THEN b - 1 - (b - n) + 1 ELSE 0
        /\ \A i \in 1 .. b - 1 - (b - n) + 1 : args[i] = Now[b - n + i - 1]
    BY <2>1, <2>2, SubSeqProperties
  <2>4. \A i \in 1 .. n : b - n + i - 1 = first - 1 + i
    BY <1>1, <2>1
  <2> HIDE DEF args
  <2> QED
    BY <2>1, <2>3, <2>4
<1>11. \A i \in 1 .. n : args[i] = mem[rsp + (first - 1 + i)] /\ args[i] \in Values
  <2>1. \A i \in 1 .. n : first - 1 + i \in first .. b
    BY <1>1, <1>4
  <2> HIDE DEF args
  <2> QED
    BY <1>8, <1>10, <2>1
<1>12. Meaning!Arguments(n) = args /\ Meaning!Callee = Now[b]
  <2>1. Meaning!Arguments(n) = SubSeq(Now, Len(Now) - n, Len(Now) - 1) /\ Meaning!Callee = Now[Len(Now)]
    BY DEF Meaning!Arguments, Meaning!Callee, Now
  <2> QED
    BY <1>6, <2>1
<1>13. b - (n + 1) = first - 1 /\ n < b
  BY <1>1, <1>4
<1> HIDE DEF args
<1> QED
  BY <1>4, <1>6, <1>9, <1>10, <1>11, <1>12, <1>13 DEF first, n

LEMMA FailFails ==
  ASSUME FramesInv, Fail
  PROVE  Meaning!Fail
<1>1. /\ Ready("args") \/ Ready("tail")
      /\ acts' = acts /\ mem' = mem
      /\ status' = IF Callee \in Procs THEN "undefined" ELSE "mistyped"
  BY DEF Fail
<1>2. Now # <<>> /\ Meaning!Callee = Callee
  BY <1>1, ReadyWords
<1>3. Now' = Now /\ Waits' = Waits
  BY <1>1 DEF Now, Waits, Words, Running
<1> QED
  BY <1>1, <1>2, <1>3 DEF Meaning!Fail, Now, Waits

(* What there is to call fits there, too.                                  *)
LEMMA FitsThere ==
  ASSUME FramesInv, Ready("args") \/ Ready("tail"), Fits
  PROVE  Meaning!Fits(NArgs) /\ NArgs \in 0 .. MaxArgs
<1>1. Callee \in Procs /\ NArgs = Params[Callee]
  BY DEF Fits
<1>2. /\ Meaning!Callee = Callee
      /\ NArgs \in Nat /\ NArgs <= MaxArgs /\ NArgs < Len(Now)
      /\ \A i \in 1 .. NArgs : Meaning!Arguments(NArgs)[i] \in Values
  BY ReadyWords
<1>3. NArgs \in 0 .. MaxArgs
  BY <1>2, FrameAssumption
<1>4. \A i \in 1 .. NArgs : Meaning!Arguments(NArgs)[i] # Link
  BY <1>2, FrameAssumption
<1> QED
  BY <1>1, <1>2, <1>3, <1>4 DEF Meaning!Fits, Now


(* The words of a callee: its arguments, and behind them what it captured. *)
LEMMA CalleeWords ==
  ASSUME FramesInv, Ready("args") \/ Ready("tail"), Fits,
         NEW at \in Nat, NEW m,
         \A i \in 1 .. NArgs : m[at + i] = mem[rsp + (Top.first - 1 + i)],
         \A i \in 1 .. Len(Env[Callee]) : m[at + NArgs + i] = Env[Callee][i]
  PROVE  /\ Image(Entered(Callee, at), m) = Meaning!Arguments(NArgs) \o Env[Callee]
         /\ \A i \in 1 .. (NArgs + Len(Env[Callee])) : m[at + i] \in Values
<1> DEFINE n == NArgs
           env == Env[Callee]
           a == Entered(Callee, at)
           args == Meaning!Arguments(n)
<1>1. Callee \in Procs /\ Params[Callee] = n /\ n \in Nat
  BY CalleeProperties
<1>2. /\ a \in Frame /\ a.base = at /\ a.bound = n + Len(env) /\ Len(env) \in Nat
      /\ Len(a.scopes) = 1 /\ a.scopes[1].kind = "params"
  BY <1>1, EnteredProperties
<1>3. \A i : ~OnLink(a.scopes, i)
  <2> SUFFICES ASSUME NEW i, NEW s \in 1 .. 1, a.scopes[s].kind = "call" PROVE FALSE
    BY <1>2 DEF OnLink
  <2>1. s = 1
    OBVIOUS
  <2> QED
    BY <1>2, <2>1
<1>4. /\ args \in Seq(Word) /\ Len(args) = n
      /\ \A i \in 1 .. n : args[i] = mem[rsp + (Top.first - 1 + i)] /\ args[i] \in Values
  BY ReadyWords
<1>5. env \in Seq(Values) /\ env \in Seq(Word)
  <2>1. env \in Seq(Values) /\ Values \subseteq Word
    BY <1>1, FrameAssumption DEF Word
  <2> QED
    BY <2>1, SeqMonotonic
<1>6. /\ \A i \in 1 .. n : m[at + i] = mem[rsp + (Top.first - 1 + i)]
      /\ \A i \in 1 .. Len(env) : m[at + n + i] = env[i] /\ env[i] \in Values
  BY <1>5, ElementOfSeq
<1> HIDE DEF n, env, args, a
<1>7. /\ args \o env \in Seq(Word) /\ Len(args \o env) = n + Len(env)
      /\ \A i \in 1 .. n + Len(env) : (args \o env)[i] = IF i <= n THEN args[i] ELSE env[i - n]
  <2> DEFINE l == Len(env)
  <2>1. args \in Seq(Word) /\ n = Len(args) /\ env \in Seq(Word) /\ l = Len(env)
    BY <1>4, <1>5
  <2> HIDE DEF l
  <2>2. /\ args \o env \in Seq(Word) /\ Len(args \o env) = n + l
        /\ \A i \in 1 .. n + l : (args \o env)[i] = IF i <= n THEN args[i] ELSE env[i - n]
    BY <2>1, Joined
  <2> QED
    BY <2>2 DEF l
<1>8. ASSUME NEW i \in 1 .. n + Len(env)
      PROVE  m[at + i] = (args \o env)[i] /\ m[at + i] \in Values
  <2>1. CASE i <= n
    <3>1. i \in 1 .. n
      BY <1>1, <1>2, <2>1
    <3>2. (args \o env)[i] = args[i]
      BY <1>7, <2>1
    <3> QED
      BY <1>4, <1>6, <3>1, <3>2
  <2>2. CASE ~(i <= n)
    <3>1. i - n \in 1 .. Len(env) /\ at + n + (i - n) = at + i
      BY <1>1, <1>2, <2>2
    <3>2. (args \o env)[i] = env[i - n]
      BY <1>7, <2>2
    <3> QED
      BY <1>6, <3>1, <3>2
  <2> QED
    BY <2>1, <2>2
<1>9. \A i \in 1 .. a.bound : m[a.base + i] \in Values
  BY <1>2, <1>8
<1>10. /\ Image(a, m) \in Seq(Word) /\ Len(Image(a, m)) = n + Len(env)
       /\ \A i \in 1 .. n + Len(env) : Image(a, m)[i] = m[at + i]
  <2>1. a \in Frame /\ \A i \in 1 .. a.bound : OnLink(a.scopes, i) \/ m[a.base + i] \in Values
    BY <1>2, <1>9
  <2>2. /\ Image(a, m) \in Seq(Word) /\ Len(Image(a, m)) = a.bound
        /\ \A i \in 1 .. a.bound :
             Image(a, m)[i] = IF OnLink(a.scopes, i) THEN Link ELSE m[a.base + i]
    BY <2>1, ImageProperties
  <2> QED
    BY <1>2, <1>3, <2>2
<1>11. Image(a, m) = args \o env
  BY <1>7, <1>8, <1>10, SeqEqual
<1> QED
  BY <1>8, <1>11 DEF n, env, a, args

(* What a tail call leaves in memory.                                      *)
LEMMA TailCallMemory ==
  ASSUME FramesInv, TailCall
  PROVE  LET n   == NArgs
             env == Env[Callee]
         IN  /\ \A x \in 1 .. rsp : mem'[x] = mem[x]
             /\ \A i \in 1 .. n : mem'[rsp + i] = mem[rsp + (Top.first - 1 + i)]
             /\ \A i \in 1 .. Len(env) : mem'[rsp + n + i] = env[i]
<1> DEFINE n == NArgs
           env == Env[Callee]
           a == Entered(Callee, rsp)
           first == Top.first
           b == Running.bound
<1>1. /\ Ready("tail") /\ Fits /\ RoomFor(a)
      /\ mem' = EnvCopied(Moved, rsp + 1 + n)
  BY DEF TailCall
<1>2. /\ Callee \in Procs /\ Params[Callee] = n /\ n \in Nat
      /\ Top.size = n + 1 /\ first + n = b
  BY <1>1, CalleeProperties
<1>3. /\ rsp \in Nat /\ first \in Nat /\ first > 0 /\ b \in Nat
      /\ gcframe = rsp + b /\ gcframe <= MaxWords /\ MaxWords \in Nat
  BY RunningProperties, FrameAssumption
<1>4. /\ a.base = rsp /\ a.bound = n + Len(env) /\ Len(env) \in Nat
  BY <1>2, <1>3, EnteredProperties
<1>5. Top.size > 0
  BY <1>2
<1>6. Moved = [x \in Addresses |-> IF x - rsp \in 1 .. n THEN mem[x + first - 1] ELSE mem[x]]
  BY <1>5, MovedProperties
<1>7. rsp + (n + Len(env)) <= MaxWords
  BY <1>1, <1>4 DEF RoomFor
<1> HIDE DEF n, a, first, b
<1>8. /\ \A x \in Addresses : x < rsp + 1 + n => mem'[x] = Moved[x]
      /\ \A x \in Addresses : x - (rsp + 1 + n) + 1 \in 1 .. Len(env) =>
           mem'[x] = env[x - (rsp + 1 + n) + 1]
  <2>1. mem' = [x \in Addresses |-> IF x - (rsp + 1 + n) + 1 \in DOMAIN env
                                   THEN env[x - (rsp + 1 + n) + 1] ELSE Moved[x]]
    BY <1>1 DEF EnvCopied
  <2>2. DOMAIN env = 1 .. Len(env)
    BY <1>2, FrameAssumption, LenProperties
  <2> HIDE DEF env
  <2>3. \A x \in Addresses : x < rsp + 1 + n => x - (rsp + 1 + n) + 1 \notin 1 .. Len(env)
    BY <1>2, <1>3, <1>4 DEF Addresses
  <2> QED
    BY <2>1, <2>2, <2>3
<1> HIDE DEF env
<1>9. ASSUME NEW x \in 1 .. rsp PROVE mem'[x] = mem[x]
  <2>1. x \in Addresses /\ x < rsp + 1 + n /\ x - rsp \notin 1 .. n
    BY <1>2, <1>3 DEF Addresses
  <2> QED
    BY <1>6, <1>8, <2>1
<1>10. ASSUME NEW i \in 1 .. n, NEW x, x = rsp + i
       PROVE  mem'[x] = mem[rsp + (first - 1 + i)]
  <2>1. /\ x \in Addresses /\ x < rsp + 1 + n /\ x - rsp \in 1 .. n
        /\ x + first - 1 = rsp + (first - 1 + i)
    BY <1>2, <1>3, <1>4, <1>7, <1>10 DEF Addresses
  <2>2. mem'[x] = mem[x + first - 1]
    BY <1>6, <1>8, <2>1
  <2> QED
    BY <2>1, <2>2
<1>11. ASSUME NEW i \in 1 .. Len(env), NEW x, x = rsp + n + i
       PROVE  mem'[x] = env[i]
  <2>1. x \in Addresses /\ x - (rsp + 1 + n) + 1 = i
    BY <1>2, <1>3, <1>4, <1>7, <1>11 DEF Addresses
  <2> QED
    BY <1>8, <2>1
<1>12. /\ \A i \in 1 .. n : mem'[rsp + i] = mem[rsp + (first - 1 + i)]
       /\ \A i \in 1 .. Len(env) : mem'[rsp + n + i] = env[i]
  BY <1>10, <1>11
<1> QED
  BY <1>9, <1>12 DEF n, env, first

LEMMA TailCallCalls ==
  ASSUME FramesInv, TailCall
  PROVE  Meaning!TailCall
<1> DEFINE n == NArgs
           a == Entered(Callee, rsp)
<1>1. /\ Ready("tail") /\ Fits /\ acts' = [acts EXCEPT ![Len(acts)] = a] /\ status' = status
  BY DEF TailCall
<1>2. /\ Callee \in Procs /\ Params[Callee] = n /\ n \in Nat /\ rsp \in Nat
  BY <1>1, CalleeProperties, RunningProperties
<1>3. a \in Frame /\ a.base = rsp /\ a.bound = n + Len(Env[Callee])
  BY <1>2, EnteredProperties
<1>4. /\ \A x \in 1 .. rsp : mem'[x] = mem[x]
      /\ \A i \in 1 .. n : mem'[rsp + i] = mem[rsp + (Top.first - 1 + i)]
      /\ \A i \in 1 .. Len(Env[Callee]) : mem'[rsp + n + i] = Env[Callee][i]
  BY TailCallMemory
<1>5. /\ Image(a, mem') = Meaning!Arguments(n) \o Env[Callee]
      /\ \A i \in 1 .. (n + Len(Env[Callee])) : mem'[rsp + i] \in Values
  BY <1>1, <1>2, <1>4, CalleeWords
<1>6. Waits' = Waits
  BY <1>1, <1>3, <1>4, <1>5, RunningImage
<1>7. Now' = Image(a, mem')
  <2>1. Running' = a
    <3>1. acts \in Seq(Frame) /\ Len(acts) \in 1 .. Len(acts)
      BY RunningProperties DEF FramesInv, Lexicons
    <3>2. Len(acts') = Len(acts) /\ acts'[Len(acts)] = a
      BY <1>1, <1>3, <3>1, ExceptSeq
    <3> QED
      BY <3>2 DEF Running
  <2> QED
    BY <2>1 DEF Now, Words, Image
<1>8. /\ Meaning!Fits(n) /\ n \in 0 .. MaxArgs /\ Meaning!Callee = Callee
  BY <1>1, FitsThere, ReadyWords
<1> QED
  BY <1>1, <1>5, <1>6, <1>7, <1>8 DEF Meaning!TailCall, Now, Waits


(* The words of an activation that waits stay where they are.              *)
LEMMA SameWords ==
  ASSUME FramesInv, NEW k \in 1 .. (Len(acts) - 1),
         acts'[k] = acts[k], \A x \in 1 .. rsp : mem'[x] = mem[x]
  PROVE  Words(acts[k])' = Words(acts[k])
<1> DEFINE a == acts[k]
<1>1. k \in 1 .. Len(acts) /\ k < Len(acts) /\ rsp \in Nat
  BY RunningProperties
<1>2. a.base \in Nat /\ a.bound \in Nat /\ a.base + a.bound <= rsp
  BY <1>1, FrameProperties
<1>3. \A i \in 1 .. a.bound : mem'[a.base + i] = mem[a.base + i]
  BY <1>1, <1>2
<1>4. Words(acts[k])' = [i \in 1 .. a.bound |-> IF IsLink(a, i) THEN Link ELSE mem'[a.base + i]]
  BY DEF Words
<1> QED
  BY <1>3, <1>4 DEF Words

LEMMA CallCalls ==
  ASSUME FramesInv, Call
  PROVE  Meaning!Call
<1> DEFINE n == Len(acts)
           p == NArgs
           first == Top.first
           b == Running.bound
           at == rsp + first - 1
           callee == Entered(Callee, at)
           caller == [base |-> rsp, bound |-> first - 1, scopes |-> Outer]
           rest == SubSeq(Now, 1, first - 1)
<1>1. Ready("args") /\ Fits /\ status' = status
  BY DEF Call
<1>2. /\ n \in Nat /\ n > 0 /\ rsp \in Nat /\ b \in Nat /\ first \in Nat /\ first > 0
      /\ Scopes \in Seq(Lexical) /\ Nested(Scopes, b)
      /\ \A i \in 1 .. b : mem[rsp + i] \in Values
  BY RunningProperties
<1>3. Callee \in Procs /\ Params[Callee] = p /\ p \in Nat /\ first + p = b
  BY <1>1, CalleeProperties
<1>4. /\ at \in Addresses /\ rsp < at - 1
      /\ \A x \in Addresses : x < at - 1 => mem'[x] = mem[x]
      /\ \A i \in 1 .. p : mem'[at + i] = mem[at + i]
      /\ \A i \in 1 .. Len(Env[Callee]) : mem'[at + p + i] = Env[Callee][i]
  BY CallMemory
<1>5. /\ caller \in Frame /\ callee \in Frame
      /\ acts' \in Seq(Frame) /\ Len(acts') = n + 1
      /\ acts'[n + 1] = callee /\ acts'[n] = caller
      /\ \A k \in 1 .. n : k # n => acts'[k] = acts[k]
  BY CallEffect
<1>6. at \in Nat /\ first - 1 \in Nat /\ at = rsp + (first - 1) /\ first - 1 <= b /\ first - 2 > 0
  BY <1>2, <1>3, <1>4, SMTT(30) DEF Addresses
<1>7. Now' = Meaning!Arguments(p) \o Env[Callee]
  <2>1. \A i \in 1 .. p : mem'[at + i] = mem[rsp + (first - 1 + i)]
    <3>1. \A i \in 1 .. p : at + i = rsp + (first - 1 + i)
      BY <1>2, <1>6
    <3> QED
      BY <1>4, <3>1
  <2>2. Image(callee, mem') = Meaning!Arguments(p) \o Env[Callee]
    BY <1>1, <1>4, <1>6, <2>1, CalleeWords
  <2>3. Running' = callee
    BY <1>5 DEF Running
  <2>4. Now' = Image(callee, mem')
    BY <2>3 DEF Now, Words, Image
  <2> QED
    BY <2>2, <2>4
<1>8. /\ Outer \in Seq(Lexical) /\ Nested(Outer, first - 1)
      /\ Outer[Len(Outer)].kind = "call"
      /\ \A i \in 1 .. (first - 1) : OnLink(Scopes, i) <=> OnLink(Outer, i)
  BY <1>1, <1>2, NestedOuter, LinkOuter DEF Top, Outer, Ready
<1>9. \A i \in (first - 2) .. (first - 1) : OnLink(Outer, i)
  <2> DEFINE s == Len(Outer)
  <2>1. s \in 1 .. s /\ Outer[s] \in Lexical
    BY <1>8, LenProperties, ElementOfSeq DEF Nested
  <2>2. Outer[s].size = 2 /\ Outer[s].first + Outer[s].size = first - 1 + 1
    BY <1>8, <2>1 DEF Nested, Sized
  <2>3. Outer[s].first = first - 2
    <3>1. Outer[s].first \in Nat
      BY <2>1 DEF Lexical
    <3> QED
      BY <1>2, <2>2, <3>1
  <2>4. \A i \in (first - 2) .. (first - 1) : i - (first - 2) \in {0, 1}
    BY <1>2
  <2> QED
    BY <1>8, <2>1, <2>3, <2>4 DEF OnLink
<1> HIDE DEF n, p, first, b, at, callee
<1>10. Now \in Seq(Word) /\ Len(Now) = b
       /\ \A i \in 1 .. b : Now[i] = IF OnLink(Scopes, i) THEN Link ELSE mem[rsp + i]
  BY NowProperties DEF b
<1>11. caller.base = rsp /\ caller.bound = first - 1 /\ caller.scopes = Outer
  OBVIOUS
<1> HIDE DEF caller
<1>12. ASSUME NEW i \in 1 .. (first - 1)
       PROVE  OnLink(Outer, i) \/ (mem'[rsp + i] = mem[rsp + i] /\ mem'[rsp + i] \in Values)
  <2>1. CASE i \in (first - 2) .. (first - 1)
    BY <1>9, <2>1
  <2>2. CASE ~(i \in (first - 2) .. (first - 1))
    <3>1. i \in 1 .. b /\ rsp + i \in Addresses /\ rsp + i < at - 1
      <4>1. /\ i \in Nat /\ i > 0 /\ i < first - 2 /\ first \in Nat /\ rsp \in Nat /\ b \in Nat
            /\ first - 1 <= b /\ at = rsp + (first - 1) /\ at <= MaxWords /\ MaxWords \in Nat
        BY <1>2, <1>4, <1>6, <2>2, FrameAssumption DEF Addresses
      <4> QED
        BY <4>1 DEF Addresses
    <3> QED
      BY <1>2, <1>4, <3>1
  <2> QED
    BY <2>1, <2>2
<1>13. /\ rest \in Seq(Word) /\ Len(rest) = first - 1
       /\ \A i \in 1 .. (first - 1) : rest[i] = Now[i]
  <2>1. first - 1 \in 0 .. Len(Now)
    BY <1>2, <1>6, <1>10
  <2> QED
    BY <1>10, <2>1, FirstWords
<1>14. Image(caller, mem') = rest
  <2>1. /\ Image(caller, mem') \in Seq(Word) /\ Len(Image(caller, mem')) = first - 1
        /\ \A i \in 1 .. (first - 1) :
             Image(caller, mem')[i] = IF OnLink(Outer, i) THEN Link ELSE mem'[rsp + i]
    <3>1. \A i \in 1 .. caller.bound : OnLink(caller.scopes, i) \/ mem'[caller.base + i] \in Values
      BY <1>11, <1>12
    <3>2. /\ Image(caller, mem') \in Seq(Word) /\ Len(Image(caller, mem')) = caller.bound
          /\ \A i \in 1 .. caller.bound :
               Image(caller, mem')[i] = IF OnLink(caller.scopes, i) THEN Link ELSE mem'[caller.base + i]
      BY <1>5, <3>1, ImageProperties
    <3> QED
      BY <1>11, <3>2
  <2>2. ASSUME NEW i \in 1 .. (first - 1) PROVE Image(caller, mem')[i] = rest[i]
    <3>1. i \in 1 .. b
      BY <1>2, <1>6
    <3> QED
      BY <1>8, <1>10, <1>12, <1>13, <2>1, <3>1
  <2> HIDE DEF rest
  <2> QED
    BY <1>13, <2>1, <2>2, SeqEqual
<1>15. ASSUME NEW k \in 1 .. n PROVE Words(acts[k])' = IF k = n THEN rest ELSE Waits[k]
  <2>1. CASE k = n
    <3>1. Words(acts[k])' = Image(caller, mem')
      BY <1>5, <2>1 DEF Words, Image
    <3> QED
      BY <1>14, <2>1, <3>1
  <2>2. CASE k # n
    <3>1. k \in 1 .. (Len(acts) - 1) /\ acts'[k] = acts[k]
      BY <1>2, <1>5, <2>2 DEF n
    <3>2. \A x \in 1 .. rsp : x \in Addresses /\ x < at - 1
      BY <1>2, <1>4, FrameAssumption DEF Addresses
    <3>3. Words(acts[k])' = Words(acts[k])
      BY <1>4, <3>1, <3>2, SameWords
    <3>4. Waits[k] = Words(acts[k])
      BY <3>1 DEF Waits
    <3> QED
      BY <2>2, <3>1, <3>3, <3>4
  <2> QED
    BY <2>1, <2>2
<1>16. Waits' = Append(Waits, rest)
  <2>1. Waits \in Seq(Seq(Word)) /\ Len(Waits) = n - 1 /\ rest \in Seq(Word)
    BY <1>13, WaitsProperties DEF n
  <2>2. /\ Append(Waits, rest) \in Seq(Seq(Word)) /\ Len(Append(Waits, rest)) = n - 1 + 1
        /\ \A k \in 1 .. n - 1 : Append(Waits, rest)[k] = Waits[k]
        /\ Append(Waits, rest)[n - 1 + 1] = rest
    BY <2>1, AppendProperties
  <2>3. n - 1 + 1 = n /\ n + 1 - 1 = n /\ \A k \in 1 .. n : k = n \/ k \in 1 .. n - 1
    BY <1>2
  <2>4. Waits' = [k \in 1 .. n |-> Words(acts[k])']
    <3>1. Waits' = [k \in 1 .. (Len(acts') - 1) |-> Words(acts[k])']
      BY DEF Waits
    <3>2. Len(acts') - 1 = n
      <4>1. Len(acts') = n + 1 /\ n \in Nat
        BY <1>2, <1>5
      <4> QED
        BY <4>1
    <3> QED
      BY <3>1, <3>2
  <2>5. \A k \in 1 .. n : Words(acts[k])' = Append(Waits, rest)[k]
    BY <1>15, <2>2, <2>3
  <2>6. Append(Waits, rest) = [k \in 1 .. n |-> Append(Waits, rest)[k]]
    BY <2>2, <2>3, LenProperties
  <2> QED
    BY <2>4, <2>5, <2>6
<1>17. /\ Meaning!Fits(p) /\ p \in 0 .. MaxArgs /\ Meaning!Callee = Callee
  BY <1>1, FitsThere, ReadyWords DEF p
<1>18. Meaning!Without(Now, p + 1) = rest
  <2>1. Len(Now) - (p + 1) = first - 1
    BY <1>1, ReadyWords DEF p, first
  <2> QED
    BY <2>1 DEF Meaning!Without
<1> HIDE DEF rest
<1> QED
  BY <1>1, <1>7, <1>16, <1>17, <1>18 DEF Meaning!Call, Now, Waits


LEMMA ReturnReturns ==
  ASSUME FramesInv, Return
  PROVE  Meaning!Return
<1> DEFINE n == Len(acts)
           caller == acts[n - 1]
           scopes == caller.scopes
           outer == SubSeq(scopes, 1, Len(scopes) - 1)
           bound == caller.bound
           a == [base |-> caller.base, bound |-> bound - 2, scopes |-> outer]
           was == Waits[n - 1]
           rest == SubSeq(was, 1, bound - 2)
           others == SubSeq(Waits, 1, n - 2)
<1>1. /\ n \in Nat /\ n > 1 /\ n - 1 \in 1 .. (n - 1) /\ n - 1 \in Nat
      /\ acts' \in Seq(Frame) /\ Len(acts') = n - 1
      /\ \A k \in 1 .. n - 1 : k # n - 1 => acts'[k] = acts[k]
      /\ acts'[n - 1] = a /\ a \in Frame
      /\ mem' = mem /\ status' = status
  BY ReturnEffect
<1>2. /\ Waits \in Seq(Seq(Word)) /\ Len(Waits) = n - 1
      /\ was = Image(caller, mem) /\ was \in Seq(Word) /\ Len(was) = bound
  BY <1>1, WaitsProperties
<1>3. /\ scopes[Len(scopes)].kind = "call" /\ scopes[Len(scopes)].first = bound - 1 /\ bound > 1
  BY <1>1, WaitingProperties
<1>4. /\ caller \in Frame /\ bound \in Nat /\ scopes \in Seq(Lexical) /\ Nested(scopes, bound)
  <2>1. n - 1 \in 1 .. n
    BY <1>1
  <2> QED
    BY <2>1, FrameProperties
<1>5. bound - 2 \in Nat /\ bound - 2 <= bound /\ bound - 1 - 1 = bound - 2
  BY <1>3, <1>4
<1>6. \A i \in 1 .. (bound - 2) : OnLink(scopes, i) <=> OnLink(outer, i)
  <2>1. scopes[Len(scopes)].kind # "params"
    BY <1>3
  <2>2. \A i \in 1 .. (scopes[Len(scopes)].first - 1) : OnLink(scopes, i) <=> OnLink(outer, i)
    BY <1>4, <2>1, LinkOuter
  <2> QED
    BY <1>3, <1>5, <2>2
<1>7. \A i \in 1 .. (bound - 2) : mem[caller.base + i] \in Values
  <2>1. n - 1 \in 1 .. n /\ n - 1 # n
    BY <1>1
  <2>2. \A i \in 1 .. (bound - 2) : i \in 1 .. bound /\ i < bound - 1
    BY <1>4
  <2> QED
    BY <2>1, <2>2 DEF FramesInv, Held
<1>8. a.base = caller.base /\ a.bound = bound - 2 /\ a.scopes = outer
  OBVIOUS
<1>9. \A i \in 1 .. bound : was[i] = IF OnLink(scopes, i) THEN Link ELSE mem[caller.base + i]
  <2>1. ASSUME NEW i \in 1 .. bound PROVE IsLink(caller, i) <=> OnLink(scopes, i)
    BY <1>4, LenProperties DEF IsLink, OnLink
  <2> QED
    BY <1>2, <2>1 DEF Image
<1> HIDE DEF outer, a, was, bound, n
<1>10. Now' = Image(a, mem)
  <2>1. Running' = a
    BY <1>1 DEF Running
  <2> QED
    BY <1>1, <2>1 DEF Now, Words, Image
<1>11. /\ Image(a, mem) \in Seq(Word) /\ Len(Image(a, mem)) = bound - 2
       /\ \A i \in 1 .. (bound - 2) :
            Image(a, mem)[i] = IF OnLink(outer, i) THEN Link ELSE mem[caller.base + i]
  <2>1. \A i \in 1 .. a.bound : OnLink(a.scopes, i) \/ mem[a.base + i] \in Values
    BY <1>7, <1>8
  <2>2. /\ Image(a, mem) \in Seq(Word) /\ Len(Image(a, mem)) = a.bound
        /\ \A i \in 1 .. a.bound :
             Image(a, mem)[i] = IF OnLink(a.scopes, i) THEN Link ELSE mem[a.base + i]
    BY <1>1, <2>1, ImageProperties
  <2> QED
    BY <1>8, <2>2
<1>12. /\ rest \in Seq(Word) /\ Len(rest) = bound - 2
       /\ \A i \in 1 .. (bound - 2) : rest[i] = was[i]
  <2>1. bound - 2 \in 0 .. Len(was)
    BY <1>2, <1>4, <1>5
  <2> QED
    BY <1>2, <2>1, FirstWords
<1> HIDE DEF rest
<1>13. Now' = rest
  <2>1. \A i \in 1 .. (bound - 2) : i \in 1 .. bound
    BY <1>4, <1>5
  <2>2. \A i \in 1 .. (bound - 2) : Image(a, mem)[i] = rest[i]
    BY <1>6, <1>9, <1>11, <1>12, <2>1
  <2> QED
    BY <1>10, <1>11, <1>12, <2>2, SeqEqual
<1>14. /\ others \in Seq(Seq(Word)) /\ Len(others) = n - 2
       /\ \A k \in 1 .. n - 2 : others[k] = Waits[k]
  <2>1. n - 2 \in 0 .. Len(Waits)
    BY <1>1, <1>2
  <2> QED
    BY <1>2, <2>1, FirstWords
<1> HIDE DEF others
<1>15. ASSUME NEW k \in 1 .. n - 2 PROVE Words(acts[k])' = others[k]
  <2>1. k \in 1 .. n - 1 /\ k # n - 1
    BY <1>1
  <2>2. acts'[k] = acts[k] /\ Waits[k] = Words(acts[k])
    BY <1>1, <2>1 DEF Waits, n
  <2>3. Words(acts[k])' = Words(acts[k])
    BY <1>1, <2>2 DEF Words
  <2> QED
    BY <1>14, <2>2, <2>3
<1>16. Waits' = others
  <2>1. Waits' = [k \in 1 .. (Len(acts') - 1) |-> Words(acts[k])']
    BY DEF Waits
  <2>2. Len(acts') - 1 = n - 2
    BY <1>1
  <2>3. others = [k \in 1 .. n - 2 |-> others[k]]
    BY <1>14, LenProperties
  <2> QED
    BY <1>15, <2>1, <2>2, <2>3
<1>17. /\ Waits # <<>> /\ Waits[Len(Waits)] = was
       /\ Meaning!Without(Waits, 1) = others /\ Meaning!Without(was, 2) = rest
  <2>1. Len(Waits) - 1 = n - 2 /\ Len(Waits) > 0 /\ Len(<<>>) = 0
    BY <1>1, <1>2
  <2> QED
    BY <1>2, <2>1 DEF Meaning!Without, others, rest, was
<1> QED
  BY <1>1, <1>13, <1>16, <1>17 DEF Meaning!Return, Now, Waits

-----------------------------------------------------------------------------
(* The refinement.                                                         *)

LEMMA MeaningInit ==
  ASSUME Init
  PROVE  Meaning!Init
<1>1. /\ status = "run" /\ acts = <<[base |-> 0, bound |-> 0, scopes |-> <<Scope("params", 1, 0, 0)>>]>>
  BY DEF Init
<1>2. Running.bound = 0 /\ Len(acts) - 1 = 0
  BY <1>1 DEF Running
<1>3. Now = <<>> /\ Waits = <<>>
  <2>1. Now \in Seq(Word) /\ Len(Now) = 0 /\ Waits \in Seq(Seq(Word)) /\ Len(Waits) = 0
    BY <1>2, FramesInit, NowProperties, WaitsProperties
  <2> QED
    BY <2>1, EmptySeq
<1> QED
  BY <1>1, <1>3 DEF Meaning!Init, Now, Waits

LEMMA MeaningNext ==
  ASSUME FramesInv, [Next]_vars
  PROVE  [Meaning!Next]_Meaning!vars
<1>1. CASE UNCHANGED vars
  <2>1. acts' = acts /\ mem' = mem /\ status' = status
    BY <1>1 DEF vars
  <2> QED
    BY <2>1 DEF Meaning!vars, Words, Running
<1>2. CASE Next
  BY <1>2, OpenLetBinds, BindLetBinds, StoreLetWrites, CloseLetUnbinds, SetVariableWrites,
     RuntimeCallStutters, BeginCallPrepares, BeginTailCallPrepares, OperandWrites, FailFails,
     CallCalls, TailCallCalls, ReturnReturns
     DEF Next, Meaning!Next
<1> QED
  BY <1>1, <1>2

(* Calls mean what Activations says: no word of an activation changes      *)
(* while another one runs, a callee finds its arguments and behind them    *)
(* the words its closure captured, and a tail call replaces the activation *)
(* that makes it.                                                          *)
THEOREM CallsMean == Spec => MeansCalls
<1>1. Init => Meaning!Init
  BY MeaningInit
<1>2. FramesInv /\ [Next]_vars => [Meaning!Next]_Meaning!vars
  BY MeaningNext
<1> QED
  BY <1>1, <1>2, FramesInvariant, PTL DEF Spec, MeansCalls, Meaning!Spec
=============================================================================
