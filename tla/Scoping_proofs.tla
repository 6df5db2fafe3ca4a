--------------------------- MODULE Scoping_proofs ---------------------------
(***************************************************************************)
(* What the generator finds of each name, for every program: in every slot *)
(* that a name is looked up in is the word that the name stands for there, *)
(* so what is recorded of a reference, or of a lambda, depends on nothing  *)
(* but where it is in the program.                                         *)
(*                                                                         *)
(* As in Generator_proofs, what is still to be done leads from point to    *)
(* point.  A point, a sight, says here what each name is read from in each *)
(* open scope.                                                             *)
(*                                                                         *)
(* It is then shown that no part of a program is left out, and with it     *)
(* that every name of a compiled program is read from what it means and    *)
(* that a program is refused only for a name that means nothing.           *)
(***************************************************************************)
EXTENDS Scoping_lemmas

-----------------------------------------------------------------------------
(* The globals that are known when a node is compiled: all of them in the  *)
(* lambdas and in the definitions, which come first, and else those that   *)
(* are defined before its item.                                            *)
Earlier(p) ==
  IF InLambda(p) \/ prog[p[1]].kind = "deffn" THEN NamesOf("globl")
  ELSE {prog[j].name : j \in {j \in 1 .. p[1] - 1 : prog[j].kind = "globl"}}

(* What is at hand at the start of a lambda.                               *)
FrameView(l) == [name \in Visible |-> Frame(l, name)]

(* The units in which an assignment of a global has been met, or of one    *)
(* that the label of a temporary may hide: compiled again, as far as is    *)
(* known here, the name could be found elsewhere.                          *)
Spoils(q) == /\ NodeAt(q).kind = "mutst"
             /\ found[q] = Global \/ NodeAt(q).name \in Labels \cap NamesOf("globl")
Spoilt == {UnitOf(q) : q \in {q \in DOMAIN found : Spoils(q)}}

(* All that is so of the program alone.                                    *)
Site ==
  [items   |-> prog,
   nodes   |-> Nodes,
   views   |-> [p \in Nodes |-> View(p)],
   units   |-> [p \in Nodes |-> UnitOf(p)],
   earlier |-> [p \in Nodes |-> Earlier(p)],
   frames  |-> [l \in Nodes |-> FrameView(l)],
   lists   |-> [l \in Nodes |-> InFrame(l)],
   tails   |-> TailPlaces,
   labels  |-> ToSet(AllLambdas),
   globls  |-> NamesOf("globl")]

(* Nothing of it moves while the program stays the same.                   *)
LEMMA NamesStay ==
  ASSUME prog' = prog
  PROVE  Defined' = Defined /\ NamesOf("globl")' = NamesOf("globl")
  BY DEF Defined, NamesOf

LEMMA NodesStay ==
  ASSUME prog' = prog
  PROVE  /\ Nodes' = Nodes /\ References' = References
         /\ \A p : NodeAt(p)' = NodeAt(p) /\ UnitOf(p)' = UnitOf(p) /\ InLambda(p)' = InLambda(p)
                   /\ Depth(p)' = Depth(p)
<1>1. Paths' = Paths
  BY DEF Paths, NodeAt
<1>2. Nodes' = Nodes /\ References' = References
  BY <1>1 DEF Nodes, References, OfKind, NodeAt
<1>3. ASSUME NEW p
      PROVE  NodeAt(p)' = NodeAt(p) /\ UnitOf(p)' = UnitOf(p) /\ InLambda(p)' = InLambda(p)
  BY DEF UnitOf, NodeAt, InLambda, IsLambda
<1>4. ASSUME NEW p PROVE Depth(p)' = Depth(p)
  BY <1>3 DEF Depth
<1> QED
  BY <1>2, <1>3, <1>4

LEMMA FreeStay ==
  ASSUME prog' = prog
  PROVE  \A node : FreeNames(node)' = FreeNames(node)
<1>1. LFree' = LFree
  BY DEF LFree, LeavesFree, Through, Defined, NamesOf
<1> QED
  BY <1>1 DEF FreeNames

LEMMA FramesStay ==
  ASSUME prog' = prog
  PROVE  \A l : /\ FrameSlots(l)' = FrameSlots(l) /\ InFrame(l)' = InFrame(l)
                /\ FrameView(l)' = FrameView(l) /\ \A name : Frame(l, name)' = Frame(l, name)
<1>1. ASSUME NEW l PROVE FrameSlots(l)' = FrameSlots(l) /\ InFrame(l)' = InFrame(l)
  BY FreeStay, NodesStay DEF FrameSlots, InFrame
<1>2. ASSUME NEW l PROVE FrameScope(l)' = FrameScope(l)
  BY <1>1 DEF FrameScope
<1>3. ASSUME NEW l, NEW name PROVE Frame(l, name)' = Frame(l, name)
  BY <1>1, <1>2 DEF Frame
<1>4. ASSUME NEW l PROVE FrameView(l)' = FrameView(l)
  BY <1>3 DEF FrameView
<1> QED
  BY <1>1, <1>3, <1>4

LEMMA ViewsStay ==
  ASSUME prog' = prog
  PROVE  \A p : /\ View(p)' = View(p) /\ Earlier(p)' = Earlier(p)
                /\ \A name : Local(p, name)' = Local(p, name)
<1>1. ASSUME NEW p, NEW n PROVE BoundBy(p, n)' = BoundBy(p, n)
  BY DEF BoundBy, NodeAt
<1>2. ASSUME NEW p, NEW name PROVE Binders(p, name)' = Binders(p, name)
  BY <1>1 DEF Binders
<1>3. ASSUME NEW p, NEW name PROVE Nearest(p, name)' = Nearest(p, name)
  BY <1>2, NodesStay DEF Nearest
<1>4. ASSUME NEW p, NEW name PROVE Innermost(p, name)' = Innermost(p, name)
  BY <1>1, <1>2 DEF Innermost
<1>5. ASSUME NEW p, NEW name PROVE Local(p, name)' = Local(p, name)
  <2>1. InLambda(p)' = InLambda(p) /\ UnitOf(p)' = UnitOf(p)
    BY NodesStay
  <2>2. Frame(UnitOf(p), name)' = Frame(UnitOf(p), name)
    <3>1. \A l : Frame(l, name)' = Frame(l, name)
      BY FramesStay
    <3> QED
      BY <2>1, <3>1
  <2> QED
    BY <1>3, <1>4, <2>1, <2>2 DEF Local
<1>6. ASSUME NEW p PROVE View(p)' = View(p)
  BY <1>5 DEF View
<1>7. ASSUME NEW p PROVE Earlier(p)' = Earlier(p)
  BY NodesStay, NamesStay DEF Earlier
<1> QED
  BY <1>5, <1>6, <1>7

LEMMA SiteStays == ASSUME prog' = prog PROVE Site' = Site
<1>1. AllLambdas' = AllLambdas
  BY DEF AllLambdas
<1>2. ToSet(AllLambdas)' = ToSet(AllLambdas)
  BY <1>1
<1>3. TailPlaces' = TailPlaces
  BY TailPlacesStay
<1>4. Nodes' = Nodes /\ NamesOf("globl")' = NamesOf("globl")
  BY NodesStay, NamesStay
<1>5. /\ [p \in Nodes |-> View(p)]' = [p \in Nodes |-> View(p)]
      /\ [p \in Nodes |-> UnitOf(p)]' = [p \in Nodes |-> UnitOf(p)]
      /\ [p \in Nodes |-> Earlier(p)]' = [p \in Nodes |-> Earlier(p)]
      /\ [p \in Nodes |-> FrameView(p)]' = [p \in Nodes |-> FrameView(p)]
      /\ [p \in Nodes |-> InFrame(p)]' = [p \in Nodes |-> InFrame(p)]
  BY <1>4, ViewsStay, NodesStay, FramesStay
<1> QED
  BY <1>2, <1>3, <1>4, <1>5 DEF Site

LEMMA ExpectedStay ==
  ASSUME prog' = prog
  PROVE  \A p : /\ Expected(p)' = Expected(p) /\ MayBeGlobal(p)' = MayBeGlobal(p)
                /\ Environment(p)' = Environment(p)
<1>1. ASSUME NEW p PROVE Expected(p)' = Expected(p)
  <2>1. NodeAt(p)' = NodeAt(p) /\ Defined' = Defined
    BY NodesStay, NamesStay
  <2>2. Local(p, NodeAt(p).name)' = Local(p, NodeAt(p).name)
    <3>1. \A name : Local(p, name)' = Local(p, name)
      BY ViewsStay
    <3> QED
      BY <2>1, <3>1
  <2> QED
    BY <2>1, <2>2 DEF Expected
<1>2. ASSUME NEW p PROVE MayBeGlobal(p)' = MayBeGlobal(p)
  BY NodesStay, NamesStay DEF MayBeGlobal
<1>3. ASSUME NEW p PROVE Environment(p)' = Environment(p)
  <2>1. FreeNames(NodeAt(p))' = FreeNames(NodeAt(p))
    BY FreeStay, NodesStay
  <2>2. \A name : Local(p, name)' = Local(p, name)
    BY ViewsStay
  <2> QED
    BY <2>1, <2>2 DEF Environment
<1> QED
  BY <1>1, <1>2, <1>3
-----------------------------------------------------------------------------
(* What is read of a name, and what is seen of all names at once.          *)
Words   == {"variable", "captured"} \X Seq(Nat) \X Nat
Holders == Words \cup {Unbound}
Views   == [Visible -> Holders]

LEMMA WordsTyped ==
  ASSUME NEW at \in Seq(Nat), NEW i \in Nat
  PROVE  Held("variable", at, i) \in Words /\ Held("captured", at, i) \in Words
  BY DEF Held, Words

LEMMA WordsAre ==
  ASSUME NEW word \in Words
  PROVE  word # Unbound /\ word # Definition /\ word # Global /\ word # Temp
  BY DEF Words, Unbound, Definition, Global, Temp, Held

LEMMA TempIs == Temp # Unbound /\ Temp # Definition /\ Temp # Global /\ Temp \notin Words
  BY DEF Words, Unbound, Definition, Global, Temp, Held

LEMMA FrameTyped ==
  ASSUME prog \in Programs, NEW l \in Nodes, IsLambda(l), NEW name
  PROVE  Frame(l, name) \in Holders
<1>1. l \in Seq(Nat) /\ Len(NodeAt(l).names) \in Nat /\ Len(FreeNames(NodeAt(l))) \in Nat
  BY NodeTyped, InFrameTyped, LenProperties
<1>2. CASE SLookup(FrameScope(l), name) = NotFound
  BY <1>2 DEF Frame, Holders
<1>3. CASE SLookup(FrameScope(l), name) # NotFound
  <2> DEFINE slot == SLookup(FrameScope(l), name)
             m == Len(NodeAt(l).names)
             n == m + Len(FreeNames(NodeAt(l)))
  <2>1. slot \in DOMAIN FrameSlots(l) /\ Frame(l, name) = FrameSlots(l)[slot]
    BY <1>3, FrameIs
  <2>2. slot \in 1 .. n /\ FrameSlots(l)[slot] =
          IF slot <= m THEN Held("variable", l, slot) ELSE Held("captured", l, slot - m)
    <3> HIDE DEF slot
    <3> QED
      BY <2>1 DEF FrameSlots
  <2> HIDE DEF slot, m, n
  <2>3. slot \in Nat /\ (~(slot <= m) => slot - m \in Nat)
    BY <1>1, <2>2 DEF m, n
  <2>4. FrameSlots(l)[slot] \in Words
    BY <1>1, <2>2, <2>3, WordsTyped
  <2> QED
    BY <2>1, <2>4 DEF Holders
<1> QED
  BY <1>2, <1>3

LEMMA OwnerTyped ==
  ASSUME prog \in Programs, NEW p \in Nodes, NEW n \in 0 .. Len(p) - 1
  PROVE  Owner(p, n) \in Seq(Nat) /\ BoundBy(p, n) \in Seq(Names)
<1>1. p \in Seq(Nat) /\ p # <<>> /\ Len(p) \in Nat \ {0} /\ p[1] \in DOMAIN prog
  BY NodeTyped
<1>2. CASE n = 0
  <2>1. prog[p[1]].params \in Seq(Names) /\ p[1] \in Nat
    BY <1>1, ItemTyped
  <2>2. <<p[1], 0>> \in Seq(Nat)
    BY <2>1
  <2> QED
    BY <1>2, <2>1, <2>2 DEF Owner, BoundBy
<1>3. CASE n # 0
  <2> DEFINE q == SubSeq(p, 1, n)
  <2>1. n \in 1 .. Len(p) - 1
    BY <1>1, <1>3
  <2>2. q \in Above(p)
    BY <2>1 DEF Above
  <2>3. q \in Nodes /\ q \in Seq(Nat) /\ NodeAt(q).names \in Seq(Names)
    BY <2>2, AboveIs, NodeTyped
  <2>4. p[n + 1] \in Nat
    BY <1>1, <2>1, ElementOfSeq
  <2> HIDE DEF q
  <2> DEFINE names == NodeAt(q).names
             m == Min({p[n + 1], Len(names)})
  <2>5. m \in {p[n + 1], Len(names)} /\ m <= Len(names) /\ Len(names) \in Nat
    <3>1. Len(names) \in Nat
      BY <2>3, LenProperties
    <3> HIDE DEF names
    <3>2. \E x \in {p[n + 1], Len(names)} : \A y \in {p[n + 1], Len(names)} : x <= y
      BY <2>4, <3>1
    <3>3. m \in {p[n + 1], Len(names)} /\ \A y \in {p[n + 1], Len(names)} : m <= y
      BY <3>2 DEF Min
    <3> QED
      BY <3>1, <3>3
  <2>6. SubSeq(names, 1, m) \in Seq(Names)
    <3> HIDE DEF m
    <3> QED
      BY <2>3, <2>4, <2>5, SubSeqProperties
  <2>7. BoundBy(p, n) \in {SubSeq(names, 1, m), names, <<>>}
    BY <1>3, <2>1 DEF BoundBy, q
  <2> QED
    BY <1>3, <2>3, <2>6, <2>7, EmptySeq DEF Owner, q
<1> QED
  BY <1>2, <1>3

LEMMA LocalTyped ==
  ASSUME prog \in Programs, NEW p \in Nodes, NEW name
  PROVE  Local(p, name) \in Holders
<1>1. CASE Nearest(p, name) # {}
  <2>1. Binders(p, name) # {}
    BY <1>1 DEF Nearest
  <2>2. PICK n \in Binders(p, name) : \A m \in Binders(p, name) : m <= n
    BY <2>1, GreatestBinder
  <2>3. n \in 0 .. Len(p) - 1 /\ name \in ToSet(BoundBy(p, n))
    BY <2>2 DEF Binders
  <2>4. Owner(p, n) \in Seq(Nat) /\ BoundBy(p, n) \in Seq(Names)
    BY <2>3, OwnerTyped
  <2>5. Latest(BoundBy(p, n), name) \in Nat
    BY <2>3, <2>4, LatestIs, LenProperties
  <2>6. Innermost(p, name) \in Words
    BY <2>2, <2>4, <2>5, InnermostIs, WordsTyped
  <2> QED
    BY <1>1, <2>6 DEF Local, Holders
<1>2. CASE Nearest(p, name) = {} /\ InLambda(p)
  <2>1. UnitOf(p) \in Nodes /\ IsLambda(UnitOf(p))
    BY <1>2, UnitTyped
  <2> QED
    BY <1>2, <2>1, FrameTyped DEF Local
<1>3. CASE Nearest(p, name) = {} /\ ~InLambda(p)
  BY <1>3 DEF Local, Holders
<1> QED
  BY <1>1, <1>2, <1>3

LEMMA ViewsTyped ==
  ASSUME prog \in Programs, NEW p \in Nodes
  PROVE  /\ View(p) \in Views /\ Nowhere \in Views
         /\ IsLambda(p) => FrameView(p) \in Views
         /\ \A name \in Visible : View(p)[name] = Local(p, name)
<1>1. View(p) \in Views /\ \A name \in Visible : View(p)[name] = Local(p, name)
  BY LocalTyped DEF View, Views
<1>2. Nowhere \in Views
  BY DEF Nowhere, Views, Holders
<1>3. IsLambda(p) => FrameView(p) \in Views
  BY FrameTyped DEF FrameView, Views
<1> QED
  BY <1>1, <1>2, <1>3
-----------------------------------------------------------------------------
(* Where the generator is, when a thing to do comes first:                 *)
(*                                                                         *)
(*   open     seen[m] is what each name is read from when the first m of   *)
(*            the open scopes are; the unit whose tail flag is up, if its  *)
(*            calls must be jumps, is the claim                            *)
(*   start    the lambda unit has a table of its own                       *)
(*   filling  size of the names of its frame are in the table              *)
(*                                                                         *)
(* and which globals are known.                                            *)
Sight == [stage : {"open", "start", "filling"}, unit : Seq(Nat), size : Nat,
          seen : Seq(Views), claim : Seq(Nat), known : SUBSET Names]

SightOf(stage, unit_, size, seen, claim, known) ==
  [stage |-> stage, unit |-> unit_, size |-> size, seen |-> seen, claim |-> claim, known |-> known]
Open(seen, claim, known)  == SightOf("open", <<>>, 0, seen, claim, known)
Start(l, known)           == SightOf("start", l, 0, <<>>, <<>>, known)
Filling(l, size, known)   == SightOf("filling", l, size, <<>>, <<>>, known)
Outside(known)            == Open(<<Nowhere>>, <<>>, known)

IsOpen(p)      == p.seen # <<>> /\ p = Open(p.seen, p.claim, p.known)
Now(p)         == p.seen[Len(p.seen)]
Within(p, v)   == Open(Append(p.seen, v), p.claim, p.known)
Claiming(p, c) == Open(p.seen, c, p.known)

(* The next of the names of a frame, and the end of it.                    *)
Captures(w, name, p, q) ==
  \E l \in w.nodes, i \in Nat :
    /\ NodeIn(w.items, l).kind = "close"
    /\ p = Filling(l, i, p.known) /\ q = Filling(l, i + 1, p.known)
    /\ i + 1 \in 1 .. Len(w.lists[l]) /\ name = w.lists[l][i + 1]

Counts(w, p, q) ==
  \E l \in w.nodes :
    /\ NodeIn(w.items, l).kind = "close"
    /\ p = Filling(l, Len(w.lists[l]), p.known)
    /\ q = Open(<<Nowhere, w.frames[l]>>, <<>>, p.known)

(* A thing to do may come first at p, and leaves off at q; spoilt are the  *)
(* units of which no claim can be kept.                                    *)
Sees(w, spoilt, thing, p, q) ==
  \/ thing.do = "push" /\ IsOpen(p) /\ q = Within(p, Now(p))
  \/ thing.do = "push" /\ \E l \in w.nodes : NodeIn(w.items, l).kind = "close"
                            /\ p = Start(l, p.known) /\ q = Filling(l, 0, p.known)
  \/ thing.do = "pop" /\ IsOpen(q) /\ \E v \in Views : p = Within(q, v)
  \/ thing.do \in {"temp", "label"} /\ IsOpen(p) /\ q = p
  \/ /\ thing.do = "bind" /\ thing.name \in Visible
     /\ \E o \in Sight, v \in Views :
          IsOpen(o) /\ p = Within(o, v)
            /\ q = Within(o, [v EXCEPT ![thing.name] = Held("variable", thing.at, thing.n)])
  \/ /\ thing.do = "tail" /\ IsOpen(p) /\ thing.n \in {0, 1}
     /\ \E c \in Seq(Nat) : q = Claiming(p, c) /\ (c = <<>> \/ thing.n = 1 \/ c \in spoilt)
  \/ /\ thing.do = "expr" /\ IsOpen(p) /\ q = p /\ thing.at \in w.nodes
     /\ Now(p) = w.views[thing.at] /\ w.earlier[thing.at] \subseteq p.known
     /\ p.claim \in {<<>>, w.units[thing.at]}
     /\ thing.at \in w.tails => p.claim = w.units[thing.at]
  \/ thing.do = "capture" /\ Captures(w, thing.name, p, q)
  \/ thing.do = "count" /\ Counts(w, p, q)
  \/ thing.do = "closure" /\ p = Outside(p.known) /\ q = p /\ thing.at \in w.labels /\ w.globls \subseteq p.known
  \/ thing.do = "closed" /\ IsOpen(p) /\ q = Outside(p.known)
  \/ /\ thing.do = "define" /\ p = Outside(p.known) /\ q = p /\ w.globls \subseteq p.known
     /\ \E i \in DOMAIN w.items : thing.at = <<i>> /\ w.items[i].kind = "deffn"
  \/ thing.do = "entry" /\ p = Outside(p.known) /\ q = Outside({})
  \/ thing.do = "global" /\ p = Outside(p.known) /\ q = Outside(p.known \cup {thing.name})
       /\ thing.name \in w.globls

Looks(w, spoilt) == {x \in Thing \X Sight \X Sight : Sees(w, spoilt, x[1], x[2], x[3])}
Shows(w, spoilt, things, p, q) == Runs(Thing, Sight, Looks(w, spoilt), things, p, q)

LEMMA ShowsNone ==
  ASSUME NEW w, NEW s, NEW p \in Sight
  PROVE  Shows(w, s, <<>>, p, p)
  BY RunsNone DEF Shows

LEMMA ShowsOne ==
  ASSUME NEW w, NEW s, NEW thing \in Thing, NEW p \in Sight, NEW q \in Sight, Sees(w, s, thing, p, q)
  PROVE  Shows(w, s, <<thing>>, p, q)
<1>1. <<thing, p, q>> \in Looks(w, s)
  BY DEF Looks
<1> QED
  BY <1>1, RunsOne DEF Shows

LEMMA ShowsBoth ==
  ASSUME NEW w, NEW s, NEW a, NEW b, NEW p, NEW q, NEW r, Shows(w, s, a, p, q), Shows(w, s, b, q, r)
  PROVE  Shows(w, s, a \o b, p, r)
  BY RunsBoth DEF Shows

LEMMA ShowsFirst ==
  ASSUME NEW w, NEW s, NEW a, NEW p, NEW r, Shows(w, s, a, p, r), a # <<>>
  PROVE  /\ Head(a) \in Thing /\ p \in Sight
         /\ \E q \in Sight : Sees(w, s, Head(a), p, q) /\ Shows(w, s, Tail(a), q, r)
<1>1. /\ Head(a) \in Thing /\ p \in Sight
      /\ \E q \in Sight : <<Head(a), p, q>> \in Looks(w, s) /\ Shows(w, s, Tail(a), q, r)
  BY RunsFirst DEF Shows
<1>2. \A q : <<Head(a), p, q>> \in Looks(w, s) => Sees(w, s, Head(a), p, q)
  BY DEF Looks
<1> QED
  BY <1>1, <1>2

LEMMA ShowsEach ==
  ASSUME NEW w, NEW s, NEW p \in Sight, NEW a \in Seq(Thing),
         \A i \in 1 .. Len(a) : Sees(w, s, a[i], p, p)
  PROVE  Shows(w, s, a, p, p)
<1>1. \A i \in 1 .. Len(a) : a[i] \in Thing
  BY ElementOfSeq
<1>2. \A i \in 1 .. Len(a) : <<a[i], p, p>> \in Looks(w, s)
  BY <1>1 DEF Looks
<1> QED
  BY <1>2, RunsEach DEF Shows

LEMMA ShowsFlat ==
  ASSUME NEW w, NEW s, NEW n \in Nat, NEW seqs, seqs = [i \in 1 .. n |-> seqs[i]],
         NEW h \in [0 .. n -> Sight], \A i \in 1 .. n : Shows(w, s, seqs[i], h[i - 1], h[i])
  PROVE  Shows(w, s, FlattenSeq(seqs), h[0], h[n])
<1>1. /\ seqs \in [1 .. n -> Seq(Thing)]
      /\ \A i \in 1 .. n : Runs(Thing, Sight, Looks(w, s), seqs[i], h[i - 1], h[i])
  BY DEF Shows, Runs
<1>2. Runs(Thing, Sight, Looks(w, s), FlattenSeq(seqs), h[0], h[n])
  BY <1>1, RunsFlat
<1> QED
  BY <1>2 DEF Shows

(* What is seen stays when more is spoilt.                                 *)
LEMMA ShowsMore ==
  ASSUME NEW w, NEW s, NEW t, s \subseteq t, NEW a, NEW p, NEW q, Shows(w, s, a, p, q)
  PROVE  Shows(w, t, a, p, q)
<1>1. Looks(w, s) \subseteq Looks(w, t)
  <2>1. ASSUME NEW thing, NEW o, NEW r, Sees(w, s, thing, o, r) PROVE Sees(w, t, thing, o, r)
    BY <2>1 DEF Sees
  <2> QED
    BY <2>1 DEF Looks
<1>2. \A f : Route(Sight, Looks(w, s), a, p, q, f) => Route(Sight, Looks(w, t), a, p, q, f)
  BY <1>1 DEF Route
<1> QED
  BY <1>2 DEF Shows, Runs

LEMMA ShowsNothing ==
  ASSUME NEW w, NEW s, NEW p, NEW q, Shows(w, s, <<>>, p, q)
  PROVE  p = q
  BY RunsNothing DEF Shows

LEMMA ShowsTwo ==
  ASSUME NEW w, NEW s, NEW a \in Thing, NEW b \in Thing, NEW p \in Sight, NEW q \in Sight, NEW r \in Sight,
         Sees(w, s, a, p, q), Sees(w, s, b, q, r)
  PROVE  Shows(w, s, <<a, b>>, p, r)
<1>1. Shows(w, s, <<a>> \o <<b>>, p, r)
  BY ShowsOne, ShowsBoth
<1> QED
  BY <1>1, JoinedTwo

LEMMA ShowsThree ==
  ASSUME NEW w, NEW s, NEW a \in Thing, NEW b \in Thing, NEW c \in Thing,
         NEW p \in Sight, NEW q \in Sight, NEW r \in Sight, NEW t \in Sight,
         Sees(w, s, a, p, q), Sees(w, s, b, q, r), Sees(w, s, c, r, t)
  PROVE  Shows(w, s, <<a, b, c>>, p, t)
<1>1. Shows(w, s, <<a>> \o <<b, c>>, p, t)
  BY ShowsOne, ShowsTwo, ShowsBoth
<1> QED
  BY <1>1, JoinedThree

LEMMA ShowsFour ==
  ASSUME NEW w, NEW s, NEW a \in Thing, NEW b \in Thing, NEW c \in Thing, NEW d \in Thing,
         NEW p \in Sight, NEW q \in Sight, NEW r \in Sight, NEW t \in Sight, NEW u \in Sight,
         Sees(w, s, a, p, q), Sees(w, s, b, q, r), Sees(w, s, c, r, t), Sees(w, s, d, t, u)
  PROVE  Shows(w, s, <<a, b, c, d>>, p, u)
<1>1. Shows(w, s, <<a, b>> \o <<c, d>>, p, u)
  BY ShowsTwo, ShowsBoth
<1>2. <<a, b, c, d>> = <<a, b>> \o <<c, d>>
  OBVIOUS
<1> QED
  BY <1>1, <1>2

LEMMA ShowsFive ==
  ASSUME NEW w, NEW s, NEW a \in Thing, NEW b \in Thing, NEW c \in Thing, NEW d \in Thing, NEW e \in Thing,
         NEW p \in Sight, NEW q \in Sight, NEW r \in Sight, NEW t \in Sight, NEW u \in Sight, NEW v \in Sight,
         Sees(w, s, a, p, q), Sees(w, s, b, q, r), Sees(w, s, c, r, t), Sees(w, s, d, t, u), Sees(w, s, e, u, v)
  PROVE  Shows(w, s, <<a, b, c, d, e>>, p, v)
<1>1. Shows(w, s, <<a, b>> \o <<c, d, e>>, p, v)
  BY ShowsTwo, ShowsThree, ShowsBoth
<1>2. <<a, b, c, d, e>> = <<a, b>> \o <<c, d, e>>
  OBVIOUS
<1> QED
  BY <1>1, <1>2
-----------------------------------------------------------------------------
(* The things that an expression leads to.                                 *)

LEMMA OpenTyped ==
  ASSUME NEW seen \in Seq(Views), seen # <<>>, NEW claim \in Seq(Nat), NEW known \in SUBSET Names
  PROVE  /\ Open(seen, claim, known) \in Sight /\ IsOpen(Open(seen, claim, known))
         /\ Open(seen, claim, known).seen = seen /\ Open(seen, claim, known).claim = claim
         /\ Open(seen, claim, known).known = known
  BY EmptySeq DEF Open, SightOf, Sight, IsOpen

LEMMA OpenParts ==
  ASSUME NEW p \in Sight, IsOpen(p)
  PROVE  /\ p.seen \in Seq(Views) /\ p.seen # <<>> /\ Len(p.seen) \in Nat \ {0} /\ Now(p) \in Views
         /\ p.claim \in Seq(Nat) /\ p.known \in SUBSET Names
         /\ p = Open(p.seen, p.claim, p.known) /\ p.stage = "open"
<1>1. /\ p.seen \in Seq(Views) /\ p.seen # <<>> /\ p.claim \in Seq(Nat) /\ p.known \in SUBSET Names
      /\ p = Open(p.seen, p.claim, p.known)
  BY DEF Sight, IsOpen
<1>2. Len(p.seen) \in Nat \ {0}
  BY <1>1, LenProperties, EmptySeq
<1>3. Now(p) \in Views
  BY <1>1, <1>2, ElementOfSeq DEF Now
<1>4. Open(p.seen, p.claim, p.known).stage = "open"
  BY DEF Open, SightOf
<1> QED
  BY <1>1, <1>2, <1>3, <1>4

LEMMA WithinTyped ==
  ASSUME NEW p \in Sight, IsOpen(p), NEW v \in Views
  PROVE  /\ Within(p, v) \in Sight /\ IsOpen(Within(p, v)) /\ Now(Within(p, v)) = v
         /\ Within(p, v).claim = p.claim /\ Within(p, v).known = p.known
         /\ Within(p, v).seen = Append(p.seen, v)
<1> DEFINE seen == Append(p.seen, v)
<1>1. seen \in Seq(Views) /\ seen # <<>> /\ seen[Len(seen)] = v
  <2>1. p.seen \in Seq(Views)
    BY OpenParts
  <2>2. seen \in Seq(Views) /\ Len(seen) = Len(p.seen) + 1 /\ seen[Len(p.seen) + 1] = v
    BY <2>1, AppendProperties
  <2>3. Len(p.seen) \in Nat
    BY <2>1, LenProperties
  <2> HIDE DEF seen
  <2> QED
    BY <2>2, <2>3, EmptySeq
<1> HIDE DEF seen
<1>2. Within(p, v) = Open(seen, p.claim, p.known)
  BY DEF Within, seen
<1>3. /\ Within(p, v) \in Sight /\ IsOpen(Within(p, v)) /\ Within(p, v).seen = seen
      /\ Within(p, v).claim = p.claim /\ Within(p, v).known = p.known
  BY <1>1, <1>2, OpenTyped, OpenParts
<1> QED
  BY <1>1, <1>3 DEF Now, seen

LEMMA ClaimingTyped ==
  ASSUME NEW p \in Sight, IsOpen(p), NEW c \in Seq(Nat)
  PROVE  /\ Claiming(p, c) \in Sight /\ IsOpen(Claiming(p, c)) /\ Now(Claiming(p, c)) = Now(p)
         /\ Claiming(p, c).claim = c /\ Claiming(p, c).known = p.known /\ Claiming(p, c).seen = p.seen
         /\ Claiming(p, p.claim) = p /\ Claiming(Claiming(p, c), p.claim) = p
<1>1. /\ Claiming(p, c) \in Sight /\ IsOpen(Claiming(p, c)) /\ Claiming(p, c).seen = p.seen
      /\ Claiming(p, c).claim = c /\ Claiming(p, c).known = p.known
  BY OpenTyped, OpenParts DEF Claiming
<1>2. Claiming(p, p.claim) = p /\ Claiming(Claiming(p, c), p.claim) = p
  BY <1>1, OpenParts DEF Claiming
<1> QED
  BY <1>1, <1>2 DEF Now

LEMMA ClaimingWithin ==
  ASSUME NEW p \in Sight, IsOpen(p), NEW v \in Views, NEW c \in Seq(Nat)
  PROVE  Claiming(Within(p, v), c) = Within(Claiming(p, c), v)
<1>1. Claiming(Within(p, v), c) = Open(Append(p.seen, v), c, p.known)
  BY WithinTyped DEF Claiming
<1>2. Claiming(p, c).seen = p.seen /\ Claiming(p, c).claim = c /\ Claiming(p, c).known = p.known
  BY ClaimingTyped
<1>3. Within(Claiming(p, c), v) = Open(Append(p.seen, v), c, p.known)
  BY <1>2 DEF Within
<1> QED
  BY <1>1, <1>3

(* A scope is opened and closed, and a temporary changes no view.          *)
LEMMA SightMoves ==
  ASSUME NEW w, NEW s, NEW p \in Sight, IsOpen(p)
  PROVE  /\ PushIt \in Thing /\ PopIt \in Thing /\ TempIt \in Thing /\ LabelIt \in Thing
         /\ Sees(w, s, PushIt, p, Within(p, Now(p)))
         /\ Sees(w, s, TempIt, p, p)
         /\ Sees(w, s, LabelIt, p, p)
         /\ \A v \in Views : Sees(w, s, PopIt, Within(p, v), p)
         /\ Within(p, Now(p)) \in Sight /\ IsOpen(Within(p, Now(p)))
<1>1. PushIt \in Thing /\ PopIt \in Thing /\ TempIt \in Thing /\ LabelIt \in Thing
  BY Nothing, TodoTyped DEF PushIt, PopIt, TempIt, LabelIt, Doings
<1>2. PushIt.do = "push" /\ PopIt.do = "pop" /\ TempIt.do = "temp" /\ LabelIt.do = "label"
  BY DEF PushIt, PopIt, TempIt, LabelIt, Todo
<1>3. Within(p, Now(p)) \in Sight /\ IsOpen(Within(p, Now(p)))
  BY OpenParts, WithinTyped
<1>4. Sees(w, s, PushIt, p, Within(p, Now(p)))
  BY <1>2 DEF Sees
<1>5. Sees(w, s, TempIt, p, p) /\ Sees(w, s, LabelIt, p, p)
  BY <1>2 DEF Sees
<1>6. ASSUME NEW v \in Views PROVE Sees(w, s, PopIt, Within(p, v), p)
  BY <1>2 DEF Sees
<1> QED
  BY <1>1, <1>3, <1>4, <1>5, <1>6

LEMMA SightTail ==
  ASSUME NEW w, NEW s, NEW p \in Sight, IsOpen(p), NEW n \in {0, 1}, NEW c \in Seq(Nat),
         c = <<>> \/ n = 1 \/ c \in s
  PROVE  SetTail(n) \in Thing /\ Sees(w, s, SetTail(n), p, Claiming(p, c))
<1>1. SetTail(n) \in Thing /\ SetTail(n).do = "tail" /\ SetTail(n).n = n
  <2>1. n \in Nat /\ "tail" \in Doings
    BY DEF Doings
  <2> HIDE DEF Doings
  <2> QED
    BY <2>1, Nothing DEF SetTail, Todo, Thing
<1> QED
  BY <1>1 DEF Sees

LEMMA SightBinds ==
  ASSUME NEW w, NEW s, NEW p \in Sight, IsOpen(p), NEW v \in Views, NEW at \in Seq(Nat),
         NEW name \in Visible, NEW i \in Nat
  PROVE  LET u == [v EXCEPT ![name] = Held("variable", at, i)]
         IN  /\ BindIt(at, name, i) \in Thing /\ u \in Views
             /\ Sees(w, s, BindIt(at, name, i), Within(p, v), Within(p, u))
<1> DEFINE u == [v EXCEPT ![name] = Held("variable", at, i)]
           thing == BindIt(at, name, i)
<1>1. u \in Views
  BY WordsTyped DEF Views, Holders
<1>2. name \in Names
  BY DEF Visible
<1>3. thing \in Thing /\ thing.do = "bind" /\ thing.name = name /\ thing.at = at /\ thing.n = i
  <2>1. "bind" \in Doings
    BY DEF Doings
  <2> HIDE DEF Doings
  <2> QED
    BY <1>2, <2>1 DEF BindIt, Todo, Thing
<1> HIDE DEF thing
<1>4. Sees(w, s, thing, Within(p, v), Within(p, u))
  BY <1>3 DEF Sees
<1> QED
  BY <1>1, <1>3, <1>4 DEF thing

(* A node is compiled where what is seen is what is at hand at it.         *)
ReadyFor(p, at) ==
  /\ IsOpen(p) /\ Now(p) = View(at) /\ Earlier(at) \subseteq p.known
  /\ p.claim \in {<<>>, UnitOf(at)}
  /\ at \in TailPlaces => p.claim = UnitOf(at)

LEMMA SightExpr ==
  ASSUME NEW s, NEW p \in Sight, NEW at \in Nodes, at \in Seq(Nat), ReadyFor(p, at)
  PROVE  Expr(at) \in Thing /\ Sees(Site, s, Expr(at), p, p)
<1>1. Expr(at) \in Thing /\ Expr(at).do = "expr" /\ Expr(at).at = at
  <2>1. 0 \in Nat /\ "expr" \in Doings
    BY DEF Doings
  <2> HIDE DEF Doings
  <2> QED
    BY <2>1, Nothing DEF Expr, Todo, Thing
<1>2. /\ Site.nodes = Nodes /\ Site.views[at] = View(at) /\ Site.units[at] = UnitOf(at)
      /\ Site.earlier[at] = Earlier(at) /\ Site.tails = TailPlaces
  BY DEF Site
<1> QED
  BY <1>1, <1>2 DEF Sees, ReadyFor

LEMMA ExprSeen ==
  ASSUME NEW s, NEW thing, NEW p, NEW q, thing.do = "expr", Sees(Site, s, thing, p, q)
  PROVE  q = p /\ thing.at \in Nodes /\ ReadyFor(p, thing.at)
<1>1. /\ IsOpen(p) /\ q = p /\ thing.at \in Site.nodes
      /\ Now(p) = Site.views[thing.at] /\ Site.earlier[thing.at] \subseteq p.known
      /\ p.claim \in {<<>>, Site.units[thing.at]}
      /\ thing.at \in Site.tails => p.claim = Site.units[thing.at]
  BY DEF Sees
<1>2. Site.nodes = Nodes /\ Site.tails = TailPlaces
  BY DEF Site
<1>3. /\ Site.views[thing.at] = View(thing.at) /\ Site.units[thing.at] = UnitOf(thing.at)
      /\ Site.earlier[thing.at] = Earlier(thing.at)
  BY <1>1, <1>2 DEF Site
<1> QED
  BY <1>1, <1>2, <1>3 DEF ReadyFor
-----------------------------------------------------------------------------
(* The table and the slots, and what is seen.                              *)

(* A word is what is seen of a name, unless the name can be the label of a *)
(* temporary, which hides it.                                              *)
Shown(word, view, name) ==
  \/ word = view[name] /\ word \in Words
  \/ name \in Labels /\ word = Temp

(* In the first m scopes a name is read from the m-th, or as in those      *)
(* before it.                                                              *)
Reads(scopes, holders, seen, m, name) ==
  LET slot == SLookup(scopes[m], name)
  IN  IF slot = NotFound THEN seen[m][name] = IF m = 1 THEN Unbound ELSE seen[m - 1][name]
      ELSE slot \in DOMAIN holders /\ Shown(holders[slot], seen[m], name)

AllRead(scopes, holders, seen) ==
  /\ Len(seen) = Len(scopes)
  /\ \A m \in 1 .. Len(seen) : \A name \in Visible : Reads(scopes, holders, seen, m, name)

(* The innermost scope that has the name decides.                          *)
LEMMA LookedUp ==
  ASSUME TableInv, NEW seen, AllRead(table.scopes, slots, seen), NEW name \in Visible
  PROVE  LET slot == Lookup(table, name)
         IN  IF slot = NotFound THEN seen[Len(seen)][name] = Unbound
             ELSE Shown(slots[slot], seen[Len(seen)], name)
<1> DEFINE scopes == table.scopes
           n == Len(scopes)
           At(i) == SLookup(scopes[i], name)
           Has == {i \in DOMAIN scopes : At(i) # NotFound}
<1>1. n \in Nat \ {0} /\ DOMAIN scopes = 1 .. n /\ Len(seen) = n
  BY InvScopes DEF AllRead
<1>2. ASSUME NEW m \in 1 .. n
      PROVE  IF At(m) = NotFound THEN seen[m][name] = IF m = 1 THEN Unbound ELSE seen[m - 1][name]
             ELSE Shown(slots[At(m)], seen[m], name)
  BY <1>1 DEF AllRead, Reads
<1> DEFINE Newest(i, m) == At(i) # NotFound /\ \A k \in i + 1 .. m : At(k) = NotFound
           P == {m \in 0 .. n : m > 0 =>
                   /\ \A i \in 1 .. m : Newest(i, m) => seen[m][name] = seen[i][name]
                   /\ (\A i \in 1 .. m : At(i) = NotFound) => seen[m][name] = Unbound}
<1> HIDE DEF n, At
<1>3. 0 \in P
  BY <1>1
<1>4. ASSUME NEW m \in 1 .. n, m - 1 \in P PROVE m \in P
  <2>1. m \in 0 .. n /\ m \in Nat \ {0}
    BY <1>1
  <2>2. ASSUME NEW i \in 1 .. m, Newest(i, m) PROVE seen[m][name] = seen[i][name]
    <3>1. CASE i = m
      BY <3>1
    <3>2. CASE i # m
      <4>1. m \in i + 1 .. m /\ m - 1 > 0 /\ i \in 1 .. m - 1 /\ m # 1
        BY <2>1, <3>2
      <4>2. At(m) = NotFound
        BY <2>2, <4>1
      <4>3. Newest(i, m - 1)
        BY <2>1, <2>2
      <4>4. seen[m - 1][name] = seen[i][name]
        BY <1>4, <4>1, <4>3
      <4>5. seen[m][name] = seen[m - 1][name]
        BY <1>2, <4>1, <4>2
      <4> QED
        BY <4>4, <4>5
    <3> QED
      BY <3>1, <3>2
  <2>3. ASSUME \A i \in 1 .. m : At(i) = NotFound PROVE seen[m][name] = Unbound
    <3>1. At(m) = NotFound
      BY <2>1, <2>3
    <3>2. CASE m = 1
      BY <1>2, <3>1, <3>2
    <3>3. CASE m # 1
      <4>1. m - 1 > 0 /\ \A i \in 1 .. m - 1 : At(i) = NotFound
        BY <2>1, <2>3, <3>3
      <4>2. seen[m - 1][name] = Unbound
        BY <1>4, <4>1
      <4> QED
        BY <1>2, <3>1, <3>3, <4>2
    <3> QED
      BY <3>2, <3>3
  <2> QED
    BY <2>1, <2>2, <2>3
<1>5. \A m \in 0 .. n : m \in P
  <2> HIDE DEF P
  <2> QED
    BY <1>1, <1>3, <1>4, UpTo
<1>6. n \in P /\ n > 0
  BY <1>1, <1>5
<1>7. CASE Has = {}
  <2>1. Lookup(table, name) = NotFound
    BY <1>7 DEF Lookup, At
  <2>2. \A i \in 1 .. n : At(i) = NotFound
    BY <1>1, <1>7
  <2>3. seen[n][name] = Unbound
    BY <1>6, <2>2
  <2> QED
    BY <1>1, <2>1, <2>3
<1>8. CASE Has # {}
  <2> DEFINE g == CHOOSE i \in Has : \A k \in Has : k <= i
  <2>1. \E i \in Has : \A k \in Has : k <= i
    <3>1. Has \in SUBSET (0 .. n) /\ n \in Nat
      BY <1>1
    <3> HIDE DEF Has
    <3> QED
      BY <1>8, <3>1, GreatestOf
  <2>2. g \in Has /\ \A k \in Has : k <= g
    BY <2>1
  <2>3. Lookup(table, name) = At(g)
    BY <1>8 DEF Lookup, At
  <2> HIDE DEF g
  <2>4. g \in 1 .. n /\ Newest(g, n)
    <3>1. g \in 1 .. n /\ At(g) # NotFound
      BY <1>1, <2>2
    <3>2. ASSUME NEW k \in g + 1 .. n PROVE At(k) = NotFound
      <4>1. k \in 1 .. n /\ ~(k <= g)
        BY <1>1, <3>1
      <4> QED
        BY <1>1, <2>2, <4>1
    <3> QED
      BY <3>1, <3>2
  <2>5. seen[n][name] = seen[g][name]
    BY <1>6, <2>4
  <2>6. Shown(slots[At(g)], seen[g], name)
    BY <1>2, <2>4
  <2>7. Shown(slots[At(g)], seen[n], name)
    BY <2>5, <2>6 DEF Shown
  <2> QED
    BY <1>1, <2>3, <2>4, <2>7
<1> QED
  BY <1>7, <1>8

LEMMA EmptyLookup == ASSUME NEW offc, NEW name PROVE SLookup(NewScope(offc), name) = NotFound
<1>1. NewScope(offc).vars = <<>> /\ DOMAIN <<>> = {}
  BY DEF NewScope
<1> QED
  BY <1>1 DEF SLookup

LEMMA AddedLookup ==
  ASSUME NEW scope \in Scope, NEW name, NEW other
  PROVE  SLookup(Added(scope, name), other) =
           IF other = name THEN scope.offc ELSE SLookup(scope, other)
<1> DEFINE vars_ == scope.vars
           n == Len(vars_)
           new == [name |-> name, off |-> scope.offc]
           more == Append(vars_, new)
           Has == {j \in DOMAIN more : more[j].name = other}
           Had == {j \in DOMAIN vars_ : vars_[j].name = other}
<1>1. vars_ \in Seq(Var) /\ n \in Nat /\ DOMAIN vars_ = 1 .. n
  BY LenProperties DEF Scope
<1>2. Added(scope, name).vars = more
  BY DEF Added
<1>3. DOMAIN more = 1 .. n + 1 /\ more[n + 1] = new /\ \A j \in 1 .. n : more[j] = vars_[j]
  BY <1>1
<1> HIDE DEF vars_, more, n
<1>4. SLookup(Added(scope, name), other) =
        IF Has = {} THEN NotFound ELSE more[CHOOSE j \in Has : \A k \in Has : k <= j].off
  BY <1>2 DEF SLookup
<1>5. SLookup(scope, other) =
        IF Had = {} THEN NotFound ELSE vars_[CHOOSE j \in Had : \A k \in Had : k <= j].off
  BY DEF SLookup, vars_
<1>6. CASE other = name
  <2>1. n + 1 \in Has /\ \A k \in Has : k <= n + 1 /\ k \in Nat
    BY <1>1, <1>3, <1>6
  <2> DEFINE g == CHOOSE j \in Has : \A k \in Has : k <= j
  <2>2. g \in Has /\ \A k \in Has : k <= g
    BY <2>1
  <2>3. SLookup(Added(scope, name), other) = more[g].off
    BY <1>4, <2>1
  <2> HIDE DEF g, Has
  <2>4. g = n + 1
    BY <1>1, <2>1, <2>2
  <2> QED
    BY <1>3, <1>6, <2>3, <2>4
<1>7. CASE other # name
  <2>1. Has = Had
    BY <1>1, <1>3, <1>7
  <2>2. CASE Had = {}
    BY <1>4, <1>5, <1>7, <2>1, <2>2
  <2>3. CASE Had # {}
    <3> DEFINE g == CHOOSE j \in Had : \A k \in Had : k <= j
    <3>1. \E j \in Had : \A k \in Had : k <= j
      <4>1. Had \in SUBSET (0 .. n)
        BY <1>1
      <4> HIDE DEF Had
      <4> QED
        BY <1>1, <2>3, <4>1, GreatestOf
    <3>2. g \in Had
      BY <3>1
    <3>3. g \in 1 .. n
      BY <1>1, <3>2
    <3>4. SLookup(Added(scope, name), other) = more[g].off /\ SLookup(scope, other) = vars_[g].off
      BY <1>4, <1>5, <2>1, <2>3
    <3> HIDE DEF g
    <3> QED
      BY <1>3, <1>7, <3>3, <3>4
  <2> QED
    BY <2>2, <2>3
<1> QED
  BY <1>6, <1>7

(* The slots in use are below that of the next binding.                    *)
LEMMA SlotBelow ==
  ASSUME TableInv, NEW m \in 1 .. Len(table.scopes), NEW name, SLookup(table.scopes[m], name) # NotFound
  PROVE  SLookup(table.scopes[m], name) # Top(table).offc
<1> DEFINE scope == table.scopes[m]
           n == Len(table.scopes)
           first == FirstSlot(table.scopes, m)
           last == FirstSlot(table.scopes, n)
           j == Latest(ListOf(scope), name)
<1>1. /\ n \in Nat \ {0} /\ scope \in Scope /\ first \in Nat /\ GoodScope(scope, first)
      /\ Top(table) \in Scope /\ last \in Nat /\ GoodScope(Top(table), last)
      /\ Top(table) = table.scopes[n]
  BY InvScopes, TopGood
<1>2. m < n => scope.offc <= last
  BY InvScopes, <1>1 DEF TableInv
<1>3. m = n => scope = Top(table)
  BY <1>1
<1> HIDE DEF scope
<1>4. name \in ToSet(ListOf(scope)) /\ SLookup(scope, name) = scope.vars[j].off
  BY <1>1, SLookupIs DEF scope
<1>5. ListOf(scope) \in Seq(Names) /\ Len(ListOf(scope)) = Len(scope.vars) /\ DOMAIN scope.vars = 1 .. Len(scope.vars)
      /\ Len(scope.vars) \in Nat
  BY <1>1, ListTyped
<1>6. j \in 1 .. Len(scope.vars)
  BY <1>4, <1>5, LatestIs
<1> HIDE DEF j, first, last
<1>7. SLookup(scope, name) = first + j - 1 /\ scope.offc = first + Len(scope.vars)
  BY <1>1, <1>4, <1>5, <1>6 DEF GoodScope, j
<1>8. Top(table).offc = last + Len(Top(table).vars) /\ Len(Top(table).vars) \in Nat
  BY <1>1, ListTyped DEF GoodScope
<1> HIDE DEF n
<1>9. SLookup(scope, name) < scope.offc /\ SLookup(scope, name) \in Int /\ scope.offc \in Int
  BY <1>1, <1>5, <1>6, <1>7
<1>10. CASE m < n
  BY <1>1, <1>2, <1>8, <1>9, <1>10 DEF scope
<1>11. CASE m = n
  BY <1>3, <1>9, <1>11 DEF scope
<1> QED
  BY <1>1, <1>10, <1>11 DEF n
(* A scope is opened: it has no name yet.                                  *)
LEMMA PushReads ==
  ASSUME TableInv, NEW seen \in Seq(Views), AllRead(table.scopes, slots, seen), NEW offc
  PROVE  AllRead(Append(table.scopes, NewScope(offc)), slots, Append(seen, seen[Len(seen)]))
<1> DEFINE scopes == table.scopes
           n == Len(scopes)
           more == Append(scopes, NewScope(offc))
           further == Append(seen, seen[n])
<1>1. n \in Nat \ {0} /\ DOMAIN scopes = 1 .. n /\ Len(seen) = n /\ scopes \in Seq(Scope)
  BY InvScopes DEF AllRead
<1>2. /\ Len(more) = n + 1 /\ more[n + 1] = NewScope(offc) /\ \A m \in 1 .. n : more[m] = scopes[m]
      /\ Len(further) = n + 1 /\ further[n + 1] = seen[n] /\ \A m \in 1 .. n : further[m] = seen[m]
  BY <1>1
<1> HIDE DEF more, further, n
<1>3. ASSUME NEW m \in 1 .. n + 1, NEW name \in Visible PROVE Reads(more, slots, further, m, name)
  <2>1. CASE m = n + 1
    <3>1. SLookup(more[m], name) = NotFound
      BY <1>2, <2>1, EmptyLookup
    <3>2. m # 1 /\ m - 1 = n /\ n \in 1 .. n
      BY <1>1, <2>1
    <3>3. further[m][name] = further[m - 1][name]
      BY <1>2, <2>1, <3>2
    <3> QED
      BY <3>1, <3>2, <3>3 DEF Reads
  <2>2. CASE m # n + 1
    <3>1. m \in 1 .. n /\ (m # 1 => m - 1 \in 1 .. n)
      BY <1>1, <2>2
    <3>2. Reads(scopes, slots, seen, m, name)
      BY <1>1, <3>1 DEF AllRead, n
    <3>3. more[m] = scopes[m] /\ further[m] = seen[m] /\ (m # 1 => further[m - 1] = seen[m - 1])
      BY <1>2, <3>1
    <3> HIDE DEF scopes
    <3> QED
      BY <3>2, <3>3 DEF Reads
  <2> QED
    BY <2>1, <2>2
<1>4. AllRead(more, slots, further)
  BY <1>2, <1>3 DEF AllRead
<1> QED
  BY <1>1, <1>4 DEF more, further, n

(* A scope is closed.                                                      *)
LEMMA PopReads ==
  ASSUME NEW scopes \in Seq(Scope), NEW seen \in Seq(Views), NEW v,
         AllRead(scopes, slots, Append(seen, v))
  PROVE  AllRead(SubSeq(scopes, 1, Len(scopes) - 1), slots, seen)
<1> DEFINE n == Len(seen)
           less == SubSeq(scopes, 1, Len(scopes) - 1)
           more == Append(seen, v)
<1>1. n \in Nat /\ Len(more) = n + 1 /\ \A m \in 1 .. n : more[m] = seen[m]
  BY LenProperties
<1>2. Len(scopes) = n + 1
  BY <1>1 DEF AllRead
<1>3. Len(less) = n /\ \A m \in 1 .. n : less[m] = scopes[m]
  BY <1>1, <1>2
<1> HIDE DEF n, less, more
<1>4. ASSUME NEW m \in 1 .. n, NEW name \in Visible PROVE Reads(less, slots, seen, m, name)
  <2>1. m \in 1 .. n + 1 /\ (m # 1 => m - 1 \in 1 .. n)
    BY <1>1
  <2>2. Reads(scopes, slots, more, m, name)
    BY <1>1, <2>1 DEF AllRead, more
  <2>3. less[m] = scopes[m] /\ more[m] = seen[m] /\ (m # 1 => more[m - 1] = seen[m - 1])
    BY <1>1, <1>3, <2>1
  <2> QED
    BY <2>2, <2>3 DEF Reads
<1> QED
  BY <1>3, <1>4 DEF AllRead, n, less

(* What may be bound to a name, and what is seen then.                     *)
Binds(name, holder, view, before) ==
  /\ name \in Visible => holder \in Words \/ (name \in Labels /\ holder = Temp)
  /\ \A other \in Visible :
       view[other] = IF other = name /\ holder # Temp THEN holder ELSE before[other]

(* A name is bound, or a temporary.                                        *)
LEMMA BindReads ==
  ASSUME TableInv, NEW seen \in Seq(Views), AllRead(table.scopes, slots, seen), NEW name \in Names,
         NEW holder, table' = Bind(table, name), slots' = With(slots, Top(table).offc, holder),
         NEW view, Binds(name, holder, view, seen[Len(seen)])
  PROVE  AllRead(table'.scopes, slots', [seen EXCEPT ![Len(seen)] = view])
<1> DEFINE scopes == table.scopes
           n == Len(scopes)
           scope == Added(Top(table), name)
           now == [seen EXCEPT ![n] = view]
           offc == Top(table).offc
<1>1. /\ n \in Nat \ {0} /\ DOMAIN scopes = 1 .. n /\ Len(seen) = n /\ scopes \in Seq(Scope)
      /\ Top(table) = scopes[n] /\ Top(table) \in Scope
  BY InvScopes, TopGood DEF AllRead
<1>2. table'.scopes = [scopes EXCEPT ![n] = scope]
  BY DEF Bind, SetTop, TableInv, TableType, Table
<1>3. \A other : SLookup(scope, other) = IF other = name THEN offc ELSE SLookup(Top(table), other)
  BY <1>1, AddedLookup
<1>4. ASSUME NEW m \in 1 .. n, NEW other, SLookup(scopes[m], other) # NotFound
      PROVE  SLookup(scopes[m], other) # offc
  BY <1>4, SlotBelow
<1> HIDE DEF scope
<1>5. /\ Len(table'.scopes) = n /\ table'.scopes[n] = scope /\ \A m \in 1 .. n : m # n => table'.scopes[m] = scopes[m]
      /\ Len(now) = n /\ now[n] = view /\ \A m \in 1 .. n : m # n => now[m] = seen[m]
  BY <1>1, <1>2
<1>6. /\ DOMAIN slots' = DOMAIN slots \cup {offc} /\ slots'[offc] = holder
      /\ \A slot \in DOMAIN slots : slot # offc => slots'[slot] = slots[slot]
  BY DEF With
<1>7. offc # NotFound
  <2>1. offc \in Nat
    BY <1>1 DEF Scope
  <2> QED
    BY <2>1 DEF NotFound
<1> HIDE DEF now, offc, n
<1>8. ASSUME NEW m \in 1 .. n, NEW other \in Visible PROVE Reads(table'.scopes, slots', now, m, other)
  <2>1. Reads(scopes, slots, seen, m, other)
    BY <1>1, <1>8 DEF AllRead
  <2> DEFINE slot == SLookup(scopes[m], other)
             before == IF m = 1 THEN Unbound ELSE seen[m - 1][other]
  <2>2. IF slot = NotFound THEN seen[m][other] = before
        ELSE slot \in DOMAIN slots /\ Shown(slots[slot], seen[m], other)
    BY <2>1 DEF Reads
  <2>3. before = IF m = 1 THEN Unbound ELSE now[m - 1][other]
    <3>1. m # 1 => m - 1 \in 1 .. n /\ m - 1 # n
      BY <1>1
    <3> QED
      BY <1>5, <3>1
  <2>4. slot # NotFound => slot # offc
    BY <1>4
  <2> HIDE DEF slot, before
  <2>5. CASE m = n /\ other = name
    <3>1. SLookup(table'.scopes[m], other) = offc /\ now[m] = view
      BY <1>1, <1>3, <1>5, <2>5
    <3>2. Shown(holder, view, other)
      BY <2>5, <1>8, WordsAre DEF Binds, Shown
    <3> QED
      BY <1>6, <1>7, <3>1, <3>2 DEF Reads
  <2>6. CASE ~(m = n /\ other = name)
    <3>1. SLookup(table'.scopes[m], other) = slot /\ now[m][other] = seen[m][other]
      <4>1. CASE m = n
        BY <1>1, <1>3, <1>5, <2>6, <4>1, <1>8 DEF slot, Binds, n
      <4>2. CASE m # n
        BY <1>5, <4>2 DEF slot
      <4> QED
        BY <4>1, <4>2
    <3>2. slot # NotFound => slot \in DOMAIN slots' /\ slots'[slot] = slots[slot]
      BY <1>6, <2>2, <2>4
    <3>3. slot # NotFound => Shown(slots'[slot], now[m], other)
      BY <2>2, <3>1, <3>2 DEF Shown
    <3> QED
      BY <2>2, <2>3, <3>1, <3>2, <3>3 DEF Reads
  <2> QED
    BY <2>5, <2>6
<1> HIDE DEF scopes
<1>9. AllRead(table'.scopes, slots', now)
  BY <1>5, <1>8 DEF AllRead
<1> QED
  BY <1>1, <1>9 DEF now

(* Outside of every unit, and at the start of a lambda, no name is.        *)
LEMMA NothingReads ==
  ASSUME NEW scopes, Len(scopes) = 1, scopes[1].vars = <<>>, NEW holders
  PROVE  AllRead(scopes, holders, <<Nowhere>>)
<1>1. Len(<<Nowhere>>) = 1 /\ <<Nowhere>>[1] = Nowhere
  OBVIOUS
<1>2. ASSUME NEW m \in 1 .. 1, NEW name \in Visible PROVE Reads(scopes, holders, <<Nowhere>>, m, name)
  <2>1. m = 1 /\ DOMAIN <<>> = {}
    OBVIOUS
  <2>2. SLookup(scopes[m], name) = NotFound
    BY <2>1 DEF SLookup
  <2>3. Nowhere[name] = Unbound
    BY DEF Nowhere
  <2> QED
    BY <1>1, <2>1, <2>2, <2>3 DEF Reads
<1> QED
  BY <1>1, <1>2 DEF AllRead

(* When the frame of a lambda is filled.                                   *)
LEMMA FrameReads ==
  ASSUME prog \in Programs, NEW l \in Nodes, IsLambda(l), NEW scopes, Len(scopes) = 2,
         scopes[1].vars = <<>>, scopes[2] = FrameScope(l)
  PROVE  AllRead(scopes, FrameSlots(l), <<Nowhere, FrameView(l)>>)
<1> DEFINE seen == <<Nowhere, FrameView(l)>>
<1>1. Len(seen) = 2 /\ seen[1] = Nowhere /\ seen[2] = FrameView(l)
  OBVIOUS
<1> HIDE DEF seen
<1>2. ASSUME NEW m \in 1 .. 2, NEW name \in Visible PROVE Reads(scopes, FrameSlots(l), seen, m, name)
  <2>1. Nowhere[name] = Unbound /\ FrameView(l)[name] = Frame(l, name)
    BY DEF Nowhere, FrameView
  <2>2. CASE m = 1
    <3>1. DOMAIN <<>> = {}
      OBVIOUS
    <3>2. SLookup(scopes[m], name) = NotFound
      BY <2>2, <3>1 DEF SLookup
    <3> QED
      BY <1>1, <2>1, <2>2, <3>2 DEF Reads
  <2>3. CASE m = 2
    <3> DEFINE slot == SLookup(FrameScope(l), name)
    <3>1. /\ slot # NotFound => slot \in DOMAIN FrameSlots(l) /\ Frame(l, name) = FrameSlots(l)[slot]
                                  /\ Frame(l, name) # Unbound
          /\ slot = NotFound => Frame(l, name) = Unbound
      <4>1. Unbound[1] = "unbound"
        BY DEF Unbound, Held
      <4>2. slot # NotFound => slot \in DOMAIN FrameSlots(l) /\ Frame(l, name) = FrameSlots(l)[slot]
                                 /\ Frame(l, name)[1] \in {"variable", "captured"}
        BY FrameIs
      <4>3. slot = NotFound => Frame(l, name) = Unbound
        BY FrameIs
      <4> HIDE DEF slot
      <4> QED
        BY <4>1, <4>2, <4>3
    <3>2. Frame(l, name) \in Holders
      BY FrameTyped
    <3>3. SLookup(scopes[m], name) = slot /\ m # 1 /\ m - 1 = 1
      BY <2>3
    <3> HIDE DEF slot
    <3> QED
      BY <1>1, <2>1, <2>3, <3>1, <3>2, <3>3 DEF Reads, Shown, Holders
  <2> QED
    BY <2>2, <2>3
<1>3. AllRead(scopes, FrameSlots(l), seen)
  BY <1>1, <1>2 DEF AllRead
<1> QED
  BY <1>3 DEF seen
-----------------------------------------------------------------------------
(* The inductive invariant.                                                *)

(* The table, the slots and the flag are as they are seen.                 *)
Agrees(p) ==
  /\ globals = p.known
  /\ IsOpen(p) => /\ AllRead(table.scopes, slots, p.seen)
                  /\ p.claim = <<>> \/ tail = 1 \/ p.claim \in Spoilt
  /\ p.stage = "start" => table = NewLexicon /\ slots = FrameSlots(p.unit)
  /\ p.stage = "filling" => /\ Len(table.scopes) = 2 /\ slots = FrameSlots(p.unit)
                            /\ table.scopes[2] = Filled(InFrame(p.unit))[p.size]

(* A reference is found where it was expected, or its name is taken for a  *)
(* temporary.                                                              *)
Noted(word, p) ==
  \/ word = Expected(p) /\ (word = Global => MayBeGlobal(p))
  \/ NodeAt(p).name \in Labels /\ word = Temp

(* What is recorded is of a part of the program.                           *)
Recorded ==
  /\ \A p \in DOMAIN found : p \in References /\ Noted(found[p], p)
  /\ \A l \in DOMAIN captured : l \in ToSet(AllLambdas) /\ Recalls(captured[l], l)

(* A call that could have been a jump is in a unit that is spoilt.         *)
JumpsMade == \A p \in DOMAIN jumps : (~ jumps[p] /\ InTailPlace(p)) => UnitOf(p) \in Spoilt

Onward == \E p, r \in Sight : Agrees(p) /\ Shows(Site, Spoilt, todo, p, r)

ScopingInv ==
  /\ GeneratorInv
  /\ globals \subseteq NamesOf("globl")
  /\ Recorded
  /\ JumpsMade
  /\ status # "refused" => Onward

LEMMA LambdasStay == ASSUME prog' = prog PROVE AllLambdas' = AllLambdas /\ ToSet(AllLambdas)' = ToSet(AllLambdas)
  BY DEF AllLambdas

LEMMA SpoiltStays == ASSUME prog' = prog, found' = found PROVE Spoilt' = Spoilt
<1>1. \A q : Spoils(q)' <=> Spoils(q)
  BY NodesStay, NamesStay DEF Spoils, Global, Held
<1> QED
  BY <1>1, NodesStay DEF Spoilt

LEMMA NotedStay ==
  ASSUME prog' = prog
  PROVE  /\ \A p, word : Noted(word, p)' <=> Noted(word, p)
         /\ \A l, words : Recalls(words, l)' <=> Recalls(words, l)
<1>1. \A p : /\ Expected(p)' = Expected(p) /\ MayBeGlobal(p)' = MayBeGlobal(p)
             /\ Environment(p)' = Environment(p) /\ NodeAt(p)' = NodeAt(p)
  BY ExpectedStay, NodesStay
<1>2. ASSUME NEW p, NEW word PROVE Noted(word, p)' <=> Noted(word, p)
  BY <1>1 DEF Noted, Temp, Global, Held
<1>3. ASSUME NEW l, NEW words PROVE Recalls(words, l)' <=> Recalls(words, l)
  <2>1. FreeNames(NodeAt(l))' = FreeNames(NodeAt(l))
    BY FreeStay, <1>1
  <2> QED
    BY <1>1, <2>1 DEF Recalls, IsOrTemp
<1> QED
  BY <1>2, <1>3

LEMMA RecordStays ==
  ASSUME prog' = prog, found' = found, captured' = captured, Recorded
  PROVE  Recorded'
<1>1. References' = References /\ ToSet(AllLambdas)' = ToSet(AllLambdas)
  BY NodesStay, LambdasStay
<1> QED
  BY <1>1, NotedStay DEF Recorded

LEMMA MadeStays ==
  ASSUME prog' = prog, jumps' = jumps, JumpsMade, Spoilt \subseteq Spoilt'
  PROVE  JumpsMade'
<1>1. \A p : UnitOf(p)' = UnitOf(p) /\ (InTailPlace(p)' <=> InTailPlace(p))
  BY NodesStay, TailPlaceStays
<1> QED
  BY <1>1 DEF JumpsMade

(* What the first of the things to do sees.                                *)
LEMMA FirstSeen ==
  ASSUME ScopingInv, NEW do, NextIs(do)
  PROVE  /\ Head(todo) \in Thing /\ Head(todo).do = do /\ status = "compiling"
         /\ \E p, q, r \in Sight :
              /\ Agrees(p) /\ Sees(Site, Spoilt, Head(todo), p, q)
              /\ Shows(Site, Spoilt, Tail(todo), q, r)
<1>1. status = "compiling" /\ todo # <<>> /\ Head(todo).do = do
  BY DEF NextIs
<1>2. PICK p \in Sight, r \in Sight : Agrees(p) /\ Shows(Site, Spoilt, todo, p, r)
  BY <1>1 DEF ScopingInv, Onward
<1>3. /\ Head(todo) \in Thing
      /\ \E q \in Sight : Sees(Site, Spoilt, Head(todo), p, q) /\ Shows(Site, Spoilt, Tail(todo), q, r)
  BY <1>1, <1>2, ShowsFirst
<1> QED
  BY <1>1, <1>2, <1>3

LEMMA SeesOn ==
  ASSUME GeneratorInv', prog' = prog, globals' \subseteq NamesOf("globl"), Recorded', JumpsMade',
         Spoilt \subseteq Spoilt',
         NEW things, todo' = things \o Tail(todo),
         NEW p \in Sight, NEW q \in Sight, NEW r \in Sight,
         Shows(Site, Spoilt', things, p, q), Shows(Site, Spoilt, Tail(todo), q, r), Agrees(p)'
  PROVE  ScopingInv'
<1>1. Shows(Site, Spoilt', Tail(todo), q, r)
  BY ShowsMore
<1>2. Shows(Site, Spoilt', todo', p, r)
  BY <1>1, ShowsBoth
<1>3. Site' = Site /\ NamesOf("globl")' = NamesOf("globl")
  BY SiteStays, NamesStay
<1>4. Shows(Site, Spoilt, todo, p, r)'
  BY <1>2, <1>3
<1>5. Onward'
  BY <1>4 DEF Onward
<1> QED
  BY <1>3, <1>5 DEF ScopingInv

(* When the first thing leads to nothing else, and nothing is recorded.    *)
LEMMA SeesOnAlone ==
  ASSUME ScopingInv, GeneratorInv', prog' = prog, globals' \subseteq NamesOf("globl"),
         UNCHANGED <<found, captured, jumps>>, todo' = <<>> \o Tail(todo),
         NEW q \in Sight, NEW r \in Sight,
         Shows(Site, Spoilt, Tail(todo), q, r), Agrees(q)'
  PROVE  ScopingInv'
<1>1. Spoilt' = Spoilt
  BY SpoiltStays
<1>2. Recorded' /\ JumpsMade'
  BY <1>1, RecordStays, MadeStays DEF ScopingInv
<1>3. Shows(Site, Spoilt', <<>>, q, q)
  BY ShowsNone
<1> QED
  BY <1>1, <1>2, <1>3, SeesOn
-----------------------------------------------------------------------------
(* The operations on the table.                                            *)

LEMMA PushSees == ASSUME ScopingInv, PushScopeStep, GeneratorInv' PROVE ScopingInv'
<1>1. NextIs("push") /\ Head(todo).do = "push" /\ todo' = <<>> \o Tail(todo)
  BY DEF PushScopeStep, NextIs, Leads
<1>2. PICK p \in Sight, q \in Sight, r \in Sight :
        /\ Agrees(p) /\ Sees(Site, Spoilt, Head(todo), p, q)
        /\ Shows(Site, Spoilt, Tail(todo), q, r)
  BY <1>1, FirstSeen
<1>3. /\ table' = PushScope(table)
      /\ UNCHANGED <<prog, globals, tail, slots, found, captured, jumps>>
  BY DEF PushScopeStep, place, history
<1>4. Spoilt' = Spoilt /\ TableInv /\ globals' \subseteq NamesOf("globl")
  BY <1>3, SpoiltStays DEF ScopingInv, GeneratorInv
<1>5. table'.scopes = Append(table.scopes, NewScope(table.offc))
  BY <1>3 DEF PushScope
<1>6. Agrees(q)'
  <2>1. CASE IsOpen(p) /\ q = Within(p, Now(p))
    <3>1. p.seen \in Seq(Views) /\ Now(p) \in Views /\ Now(p) = p.seen[Len(p.seen)]
      BY <2>1, OpenParts DEF Now
    <3>2. /\ IsOpen(q) /\ q.seen = Append(p.seen, Now(p)) /\ q.claim = p.claim /\ q.known = p.known
          /\ q.stage = "open"
      BY <2>1, <3>1, WithinTyped, OpenParts
    <3>3. AllRead(table.scopes, slots, p.seen) /\ (p.claim = <<>> \/ tail = 1 \/ p.claim \in Spoilt)
          /\ globals = p.known
      BY <1>2, <2>1 DEF Agrees
    <3>4. AllRead(table'.scopes, slots, q.seen)
      BY <1>4, <1>5, <3>1, <3>2, <3>3, PushReads
    <3> QED
      BY <1>3, <1>4, <3>2, <3>3, <3>4 DEF Agrees
  <2>2. CASE \E l \in Site.nodes : /\ NodeIn(Site.items, l).kind = "close"
                                   /\ p = Start(l, p.known) /\ q = Filling(l, 0, p.known)
    <3>1. PICK l \in Nodes : NodeAt(l).kind = "close" /\ p = Start(l, p.known) /\ q = Filling(l, 0, p.known)
      BY <2>2 DEF Site, NodeAt
    <3>2. p.stage = "start" /\ p.unit = l
      <4>1. Start(l, p.known).stage = "start" /\ Start(l, p.known).unit = l
        BY DEF Start, SightOf
      <4> QED
        BY <3>1, <4>1
    <3>3. q.stage = "filling" /\ q.unit = l /\ q.size = 0 /\ q.known = p.known /\ ~IsOpen(q)
      <4>1. /\ Filling(l, 0, p.known).stage = "filling" /\ Filling(l, 0, p.known).unit = l
            /\ Filling(l, 0, p.known).size = 0 /\ Filling(l, 0, p.known).known = p.known
            /\ Filling(l, 0, p.known).seen = <<>>
        BY DEF Filling, SightOf
      <4> QED
        BY <3>1, <4>1 DEF IsOpen
    <3>4. globals = p.known /\ table = NewLexicon /\ slots = FrameSlots(l)
      BY <1>2, <3>2 DEF Agrees
    <3>5. table.scopes = <<NewScope(1)>> /\ table.offc = 1
      BY <3>4, NewLexiconHolds
    <3>6. Len(table'.scopes) = 2 /\ table'.scopes[2] = NewScope(1)
      BY <1>5, <3>5
    <3>7. Filled(InFrame(l))[0] = NewScope(1)
      <4>1. prog \in Programs
        BY DEF ScopingInv, GeneratorInv
      <4>2. InFrame(l) \in Seq(Names)
        BY <3>1, <4>1, InFrameTyped DEF IsLambda
      <4> QED
        BY <4>2, FilledIs
    <3>8. InFrame(l)' = InFrame(l) /\ FrameSlots(l)' = FrameSlots(l)
      BY <1>3, FramesStay
    <3> QED
      BY <1>3, <3>3, <3>4, <3>6, <3>7, <3>8 DEF Agrees
  <2> QED
    BY <1>1, <1>2, <2>1, <2>2 DEF Sees
<1> QED
  BY <1>1, <1>2, <1>3, <1>4, <1>6, SeesOnAlone

LEMMA PopSees == ASSUME ScopingInv, PopScopeStep, GeneratorInv' PROVE ScopingInv'
<1>1. NextIs("pop") /\ Head(todo).do = "pop" /\ todo' = <<>> \o Tail(todo)
  BY DEF PopScopeStep, NextIs, Leads
<1>2. PICK p \in Sight, q \in Sight, r \in Sight :
        /\ Agrees(p) /\ Sees(Site, Spoilt, Head(todo), p, q)
        /\ Shows(Site, Spoilt, Tail(todo), q, r)
  BY <1>1, FirstSeen
<1>3. /\ table' = PopScope(table)
      /\ UNCHANGED <<prog, globals, tail, slots, found, captured, jumps>>
  BY DEF PopScopeStep, place, history
<1>4. Spoilt' = Spoilt /\ TableInv /\ globals' \subseteq NamesOf("globl")
  BY <1>3, SpoiltStays DEF ScopingInv, GeneratorInv
<1>5. table'.scopes = SubSeq(table.scopes, 1, Len(table.scopes) - 1) /\ table.scopes \in Seq(Scope)
  BY <1>3, <1>4, InvScopes DEF PopScope, TableInv, TableType, Table
<1>6. PICK v \in Views : IsOpen(q) /\ p = Within(q, v)
  BY <1>1, <1>2 DEF Sees
<1>7. /\ IsOpen(p) /\ p.seen = Append(q.seen, v) /\ p.claim = q.claim /\ p.known = q.known
      /\ q.seen \in Seq(Views) /\ q.stage = "open"
  BY <1>6, WithinTyped, OpenParts
<1>8. AllRead(table.scopes, slots, p.seen) /\ (p.claim = <<>> \/ tail = 1 \/ p.claim \in Spoilt)
      /\ globals = p.known
  BY <1>2, <1>7 DEF Agrees
<1>9. AllRead(table'.scopes, slots, q.seen)
  BY <1>5, <1>7, <1>8, PopReads
<1>10. Agrees(q)'
  BY <1>3, <1>4, <1>7, <1>8, <1>9 DEF Agrees
<1> QED
  BY <1>1, <1>2, <1>3, <1>4, <1>10, SeesOnAlone

(* A name is bound at the innermost scope.                                 *)
LEMMA BindingSees ==
  ASSUME ScopingInv, NEW name \in Names, NEW holder,
         table' = Bind(table, name), slots' = With(slots, Top(table).offc, holder),
         UNCHANGED <<prog, globals, tail, found>>,
         NEW o \in Sight, IsOpen(o), NEW v \in Views, NEW u \in Views, Agrees(Within(o, v)),
         Binds(name, holder, u, v)
  PROVE  Agrees(Within(o, u))'
<1> DEFINE p == Within(o, v)
           q == Within(o, u)
<1>1. /\ p \in Sight /\ IsOpen(p) /\ Now(p) = v /\ p.claim = o.claim /\ p.known = o.known
      /\ p.seen = Append(o.seen, v)
      /\ q \in Sight /\ IsOpen(q) /\ Now(q) = u /\ q.claim = o.claim /\ q.known = o.known
      /\ q.seen = Append(o.seen, u)
  BY WithinTyped
<1>2. q.stage = "open" /\ p.seen \in Seq(Views) /\ o.seen \in Seq(Views)
  BY <1>1, OpenParts
<1> HIDE DEF p, q
<1>3. Spoilt' = Spoilt /\ TableInv
  BY SpoiltStays DEF ScopingInv, GeneratorInv
<1>4. AllRead(table.scopes, slots, p.seen) /\ (p.claim = <<>> \/ tail = 1 \/ p.claim \in Spoilt)
      /\ globals = p.known
  BY <1>1 DEF Agrees, p
<1>5. /\ Len(p.seen) = Len(o.seen) + 1 /\ p.seen[Len(p.seen)] = v
      /\ q.seen = [p.seen EXCEPT ![Len(p.seen)] = u]
  <2> DEFINE seen == o.seen
  <2>1. seen \in Seq(Views) /\ p.seen = Append(seen, v) /\ q.seen = Append(seen, u)
    BY <1>1, <1>2
  <2> HIDE DEF seen
  <2>2. /\ Len(Append(seen, v)) = Len(seen) + 1 /\ Append(seen, v)[Len(seen) + 1] = v
        /\ Append(seen, u) = [Append(seen, v) EXCEPT ![Len(seen) + 1] = u]
    <3> DEFINE n == Len(seen) + 1
               e == [Append(seen, v) EXCEPT ![n] = u]
    <3>1. /\ Append(seen, v) \in Seq(Views) /\ Append(seen, u) \in Seq(Views) /\ n \in 1 .. n
          /\ Len(Append(seen, v)) = n /\ Len(Append(seen, u)) = n
          /\ Append(seen, v)[n] = v /\ Append(seen, u)[n] = u
          /\ \A m \in 1 .. n : m # n => Append(seen, u)[m] = Append(seen, v)[m]
      BY <2>1, AppendProperties, LenProperties
    <3> HIDE DEF n
    <3>2. /\ e \in Seq(Views) /\ Len(e) = n
          /\ \A m \in 1 .. n : e[m] = IF m = n THEN u ELSE Append(seen, v)[m]
      <4> DEFINE a == Append(seen, v)
      <4>1. a \in Seq(Views) /\ n \in 1 .. Len(a) /\ Len(a) = n
        BY <3>1
      <4> HIDE DEF a
      <4>2. /\ [a EXCEPT ![n] = u] \in Seq(Views) /\ Len([a EXCEPT ![n] = u]) = Len(a)
            /\ \A j \in 1 .. Len(a) : [a EXCEPT ![n] = u][j] = IF j = n THEN u ELSE a[j]
        BY <4>1, ExceptSeq
      <4> QED
        BY <4>1, <4>2 DEF a
    <3> HIDE DEF e
    <3>3. \A m \in 1 .. n : e[m] = Append(seen, u)[m]
      BY <3>1, <3>2
    <3>4. e = Append(seen, u)
      BY <3>1, <3>2, <3>3, SeqEqual
    <3> QED
      BY <3>1, <3>4 DEF e, n
  <2> QED
    BY <2>1, <2>2 DEF seen
<1>6. AllRead(table'.scopes, slots', q.seen)
  <2> DEFINE seen == p.seen
  <2>1. Binds(name, holder, u, seen[Len(seen)])
    BY <1>5
  <2>2. seen \in Seq(Views) /\ AllRead(table.scopes, slots, seen)
    BY <1>2, <1>4
  <2> HIDE DEF seen
  <2>3. AllRead(table'.scopes, slots', [seen EXCEPT ![Len(seen)] = u])
    BY <1>3, <2>1, <2>2, BindReads
  <2> QED
    BY <1>5, <2>3 DEF seen
<1>7. Agrees(q)'
  BY <1>1, <1>2, <1>3, <1>4, <1>6 DEF Agrees
<1> QED
  BY <1>7 DEF q

LEMMA BindSees == ASSUME ScopingInv, BindStep, GeneratorInv' PROVE ScopingInv'
<1>1. NextIs("bind") /\ todo' = <<>> \o Tail(todo)
  BY DEF BindStep, Leads
<1>2. PICK p \in Sight, q \in Sight, r \in Sight :
        /\ Agrees(p) /\ Sees(Site, Spoilt, Head(todo), p, q)
        /\ Shows(Site, Spoilt, Tail(todo), q, r)
  BY <1>1, FirstSeen
<1> DEFINE name == Head(todo).name
           holder == Held("variable", Head(todo).at, Head(todo).n)
<1>3. /\ table' = Bind(table, name) /\ slots' = With(slots, Top(table).offc, holder)
      /\ UNCHANGED <<prog, globals, tail, found, captured, jumps>>
  BY DEF BindStep, place, history
<1>4. Head(todo) \in Thing /\ Head(todo).do = "bind"
  BY <1>1, FirstSeen
<1>5. holder \in Words
  BY <1>4, WordsTyped DEF Thing
<1>6. /\ name \in Visible
      /\ \E o \in Sight, v \in Views :
           IsOpen(o) /\ p = Within(o, v) /\ q = Within(o, [v EXCEPT ![name] = holder])
  BY <1>2, <1>4 DEF Sees
<1>7. PICK o \in Sight, v \in Views :
        IsOpen(o) /\ p = Within(o, v) /\ q = Within(o, [v EXCEPT ![name] = holder])
  BY <1>6
<1> DEFINE u == [v EXCEPT ![name] = holder]
<1> HIDE DEF name, holder
<1>8. u \in Views /\ Binds(name, holder, u, v)
  BY <1>5, <1>6, WordsAre DEF Views, Holders, Binds
<1>9. name \in Names
  BY <1>6 DEF Visible
<1> HIDE DEF u
<1>10. Agrees(q)'
  BY <1>2, <1>3, <1>5, <1>7, <1>8, <1>9, BindingSees DEF u
<1>11. globals' \subseteq NamesOf("globl")
  BY <1>3 DEF ScopingInv
<1> QED
  BY <1>1, <1>2, <1>3, <1>10, <1>11, SeesOnAlone

(* A temporary is bound, to a label of asterisks or to one that is a name. *)
LEMMA AsideSees ==
  ASSUME ScopingInv, NEW do \in {"temp", "label"}, NextIs(do), todo' = <<>> \o Tail(todo),
         NEW name \in Names, name \in Visible => name \in Labels,
         table' = Bind(table, name), slots' = With(slots, Top(table).offc, Temp),
         UNCHANGED <<prog, globals, tail, found, captured, jumps>>, GeneratorInv'
  PROVE  ScopingInv'
<1>2. PICK p \in Sight, q \in Sight, r \in Sight :
        /\ Agrees(p) /\ Sees(Site, Spoilt, Head(todo), p, q)
        /\ Shows(Site, Spoilt, Tail(todo), q, r)
  BY FirstSeen
<1>3. Head(todo).do \in {"temp", "label"}
  BY FirstSeen
<1>4. IsOpen(p) /\ q = p
  BY <1>2, <1>3 DEF Sees
<1>5. /\ p.seen \in Seq(Views) /\ Len(p.seen) \in Nat \ {0} /\ p.stage = "open"
      /\ Now(p) = p.seen[Len(p.seen)]
  BY <1>4, OpenParts DEF Now
<1>6. TableInv /\ Spoilt' = Spoilt /\ globals' \subseteq NamesOf("globl")
  BY SpoiltStays DEF ScopingInv, GeneratorInv
<1>7. AllRead(table.scopes, slots, p.seen) /\ (p.claim = <<>> \/ tail = 1 \/ p.claim \in Spoilt)
      /\ globals = p.known
  BY <1>2, <1>4 DEF Agrees
<1>8. Binds(name, Temp, Now(p), p.seen[Len(p.seen)])
  BY <1>5 DEF Binds
<1>9. AllRead(table'.scopes, slots', [p.seen EXCEPT ![Len(p.seen)] = Now(p)])
  <2> DEFINE seen == p.seen
             view == Now(p)
             temp == Temp
  <2>1. /\ Binds(name, temp, view, seen[Len(seen)])
        /\ slots' = With(slots, Top(table).offc, temp)
        /\ seen \in Seq(Views) /\ AllRead(table.scopes, slots, seen)
    BY <1>5, <1>7, <1>8
  <2> HIDE DEF seen, view, temp
  <2>2. AllRead(table'.scopes, slots', [seen EXCEPT ![Len(seen)] = view])
    BY <1>6, <2>1, BindReads
  <2> QED
    BY <2>2 DEF seen, view
<1>10. [p.seen EXCEPT ![Len(p.seen)] = Now(p)] = p.seen
  BY <1>5
<1>11. Agrees(q)'
  BY <1>4, <1>5, <1>6, <1>7, <1>9, <1>10 DEF Agrees
<1> QED
  BY <1>2, <1>6, <1>11, SeesOnAlone

LEMMA TemporarySees == ASSUME ScopingInv, BindTemporary, GeneratorInv' PROVE ScopingInv'
<1>1. NextIs("temp") /\ todo' = <<>> \o Tail(todo)
  BY DEF BindTemporary, Leads
<1>2. /\ table' = Bind(table, Temporary) /\ slots' = With(slots, Top(table).offc, Temp)
      /\ UNCHANGED <<prog, globals, tail, found, captured, jumps>>
  BY DEF BindTemporary, place, history
<1>3. Temporary \in Names /\ Temporary \notin Visible
  BY GeneratorAssumption DEF Visible
<1> QED
  BY <1>1, <1>2, <1>3, AsideSees

LEMMA LabelSees == ASSUME ScopingInv, BindLabel, GeneratorInv' PROVE ScopingInv'
<1>1. NextIs("label") /\ todo' = <<>> \o Tail(todo)
  BY DEF BindLabel, Leads
<1>2. PICK name \in Labels : table' = Bind(table, name)
  BY DEF BindLabel
<1>3. /\ slots' = With(slots, Top(table).offc, Temp)
      /\ UNCHANGED <<prog, globals, tail, found, captured, jumps>>
  BY DEF BindLabel, place, history
<1>4. name \in Names
  BY GeneratorAssumption
<1> QED
  BY <1>1, <1>2, <1>3, <1>4, AsideSees

LEMMA SetTailSees == ASSUME ScopingInv, SetTailStep, GeneratorInv' PROVE ScopingInv'
<1>1. NextIs("tail") /\ Head(todo).do = "tail" /\ todo' = <<>> \o Tail(todo)
  BY DEF SetTailStep, NextIs, Leads
<1>2. PICK p \in Sight, q \in Sight, r \in Sight :
        /\ Agrees(p) /\ Sees(Site, Spoilt, Head(todo), p, q)
        /\ Shows(Site, Spoilt, Tail(todo), q, r)
  BY <1>1, FirstSeen
<1>3. tail' = Head(todo).n /\ UNCHANGED <<prog, globals, table, slots, found, captured, jumps>>
  BY DEF SetTailStep, place, history
<1>4. /\ IsOpen(p)
      /\ \E c \in Seq(Nat) : q = Claiming(p, c) /\ (c = <<>> \/ Head(todo).n = 1 \/ c \in Spoilt)
  BY <1>1, <1>2 DEF Sees
<1>5. PICK c \in Seq(Nat) : q = Claiming(p, c) /\ (c = <<>> \/ Head(todo).n = 1 \/ c \in Spoilt)
  BY <1>4
<1>6. IsOpen(q) /\ q.claim = c /\ q.known = p.known /\ q.seen = p.seen /\ q.stage = "open"
  BY <1>4, <1>5, ClaimingTyped, OpenParts
<1>7. Spoilt' = Spoilt /\ globals' \subseteq NamesOf("globl")
  BY <1>3, SpoiltStays DEF ScopingInv
<1>8. AllRead(table.scopes, slots, p.seen) /\ globals = p.known
  BY <1>2, <1>4 DEF Agrees
<1>9. Agrees(q)'
  BY <1>3, <1>5, <1>6, <1>7, <1>8 DEF Agrees
<1> QED
  BY <1>1, <1>2, <1>3, <1>7, <1>9, SeesOnAlone

LEMMA FillingParts ==
  ASSUME NEW l, NEW size, NEW known
  PROVE  LET p == Filling(l, size, known)
         IN  p.stage = "filling" /\ p.unit = l /\ p.size = size /\ p.known = known /\ ~IsOpen(p)
BY DEF Filling, SightOf, IsOpen

LEMMA StartParts ==
  ASSUME NEW l, NEW known
  PROVE  LET p == Start(l, known)
         IN  p.stage = "start" /\ p.unit = l /\ p.known = known /\ ~IsOpen(p)
BY DEF Start, SightOf, IsOpen

LEMMA OutsideParts ==
  ASSUME NEW known \in SUBSET Names
  PROVE  LET p == Outside(known)
         IN  /\ p \in Sight /\ IsOpen(p) /\ p.seen = <<Nowhere>> /\ p.claim = <<>> /\ p.known = known
             /\ p.stage = "open" /\ Now(p) = Nowhere /\ Nowhere \in Views
<1>1. Nowhere \in Views
  BY DEF Nowhere, Views, Holders
<1>2. /\ <<Nowhere>> \in Seq(Views) /\ <<Nowhere>> # <<>> /\ <<>> \in Seq(Nat)
      /\ <<Nowhere>>[Len(<<Nowhere>>)] = Nowhere
  BY <1>1
<1>3. /\ Outside(known) \in Sight /\ IsOpen(Outside(known)) /\ Outside(known).seen = <<Nowhere>>
      /\ Outside(known).claim = <<>> /\ Outside(known).known = known
  <2> DEFINE seen == <<Nowhere>>
             claim == <<>>
  <2>1. seen \in Seq(Views) /\ seen # <<>> /\ claim \in Seq(Nat) /\ Outside(known) = Open(seen, claim, known)
    BY <1>2 DEF Outside
  <2> HIDE DEF seen, claim
  <2>2. /\ Open(seen, claim, known) \in Sight /\ IsOpen(Open(seen, claim, known))
        /\ Open(seen, claim, known).seen = seen /\ Open(seen, claim, known).claim = claim
        /\ Open(seen, claim, known).known = known
    BY <2>1, OpenTyped
  <2> QED
    BY <2>1, <2>2 DEF seen, claim
<1>4. Outside(known).stage = "open"
  BY DEF Outside, Open, SightOf
<1> QED
  BY <1>1, <1>2, <1>3, <1>4 DEF Now

(* A name goes into the frame of a lambda.                                 *)
LEMMA CaptureSees == ASSUME ScopingInv, CaptureStep, GeneratorInv' PROVE ScopingInv'
<1>1. NextIs("capture") /\ Head(todo).do = "capture" /\ todo' = <<>> \o Tail(todo)
  BY DEF CaptureStep, NextIs, Leads
<1>2. PICK p \in Sight, q \in Sight, r \in Sight :
        /\ Agrees(p) /\ Sees(Site, Spoilt, Head(todo), p, q)
        /\ Shows(Site, Spoilt, Tail(todo), q, r)
  BY <1>1, FirstSeen
<1>3. /\ table' = SetTop(table, SBind(Top(table), Head(todo).name))
      /\ UNCHANGED <<prog, globals, tail, slots, found, captured, jumps>>
  BY DEF CaptureStep, place, history
<1>4. Captures(Site, Head(todo).name, p, q)
  BY <1>1, <1>2 DEF Sees
<1>5. PICK l \in Nodes, i \in Nat :
           /\ NodeAt(l).kind = "close"
           /\ p = Filling(l, i, p.known) /\ q = Filling(l, i + 1, p.known)
           /\ i + 1 \in 1 .. Len(InFrame(l)) /\ Head(todo).name = InFrame(l)[i + 1]
  BY <1>4 DEF Captures, Site, NodeAt
<1>6. p.stage = "filling" /\ p.unit = l /\ p.size = i
  BY <1>5, FillingParts
<1>7. q.stage = "filling" /\ q.unit = l /\ q.size = i + 1 /\ q.known = p.known /\ ~IsOpen(q)
  BY <1>5, FillingParts
<1>8. /\ Len(table.scopes) = 2 /\ slots = FrameSlots(l) /\ table.scopes[2] = Filled(InFrame(l))[i]
      /\ globals = p.known
  BY <1>2, <1>6 DEF Agrees
<1>9. /\ Len(table'.scopes) = 2
      /\ table'.scopes[2] = SBind(Filled(InFrame(l))[i], InFrame(l)[i + 1])
  <2>1. Top(table) = table.scopes[2] /\ table.scopes \in Seq(Scope) /\ table \in Table
    BY <1>8, InvScopes DEF Top, ScopingInv, GeneratorInv, TableInv, TableType
  <2>2. table'.scopes = [table.scopes EXCEPT ![2] = SBind(table.scopes[2], InFrame(l)[i + 1])]
    BY <1>3, <1>5, <1>8, <2>1 DEF SetTop, Table
  <2> QED
    BY <1>8, <2>1, <2>2
<1>10. Filled(InFrame(l))[i + 1] = SBind(Filled(InFrame(l))[i], InFrame(l)[i + 1])
  <2>1. InFrame(l) \in Seq(Names)
    BY <1>5, InFrameTyped DEF IsLambda, ScopingInv, GeneratorInv
  <2>2. i + 1 \in 1 .. Len(InFrame(l)) /\ (i + 1) - 1 = i
    BY <1>5
  <2>3. Filled(InFrame(l))[i + 1] = SBind(Filled(InFrame(l))[(i + 1) - 1], InFrame(l)[i + 1])
    BY <2>1, <2>2, FilledIs
  <2> QED
    BY <2>2, <2>3
<1>11. InFrame(l)' = InFrame(l) /\ FrameSlots(l)' = FrameSlots(l)
  BY <1>3, FramesStay
<1>12. Agrees(q)'
  BY <1>3, <1>7, <1>8, <1>9, <1>10, <1>11 DEF Agrees
<1>13. globals' \subseteq NamesOf("globl")
  BY <1>3 DEF ScopingInv
<1> QED
  BY <1>1, <1>2, <1>3, <1>12, <1>13, SeesOnAlone

LEMMA CountSees == ASSUME ScopingInv, CountStep, GeneratorInv' PROVE ScopingInv'
<1>1. NextIs("count") /\ Head(todo).do = "count" /\ todo' = <<>> \o Tail(todo)
  BY DEF CountStep, NextIs, Leads
<1>2. PICK p \in Sight, q \in Sight, r \in Sight :
        /\ Agrees(p) /\ Sees(Site, Spoilt, Head(todo), p, q)
        /\ Shows(Site, Spoilt, Tail(todo), q, r)
  BY <1>1, FirstSeen
<1>3. /\ table' = [table EXCEPT !.offc = Top(table).offc]
      /\ UNCHANGED <<prog, globals, tail, slots, found, captured, jumps>>
  BY DEF CountStep, place, history
<1>4. Counts(Site, p, q)
  BY <1>1, <1>2 DEF Sees
<1>5. PICK l \in Nodes :
        /\ NodeAt(l).kind = "close" /\ p = Filling(l, Len(InFrame(l)), p.known)
        /\ q = Open(<<Nowhere, FrameView(l)>>, <<>>, p.known)
  BY <1>4 DEF Counts, Site, NodeAt
<1> DEFINE known == p.known
           seen == <<Nowhere, FrameView(l)>>
           claim == <<>>
<1>6. prog \in Programs /\ IsLambda(l) /\ known \in SUBSET Names /\ table \in Table /\ TableInv /\ GlobalEmpty
  BY <1>5 DEF IsLambda, ScopingInv, GeneratorInv, Sight, TableInv, TableType
<1>7. p.stage = "filling" /\ p.unit = l /\ p.size = Len(InFrame(l))
  BY <1>5, FillingParts
<1>8. /\ Len(table.scopes) = 2 /\ slots = FrameSlots(l) /\ table.scopes[2] = FrameScope(l)
      /\ globals = p.known
  BY <1>2, <1>7 DEF Agrees, FrameScope
<1>9. table'.scopes = table.scopes /\ table.scopes[1].vars = <<>>
  BY <1>3, <1>6 DEF Table, GlobalEmpty
<1>10. AllRead(table.scopes, slots, seen)
  BY <1>6, <1>8, <1>9, FrameReads
<1>11. /\ IsOpen(q) /\ q.seen = seen /\ q.claim = claim /\ q.known = known /\ q.stage = "open"
  <2>1. seen \in Seq(Views) /\ seen # <<>> /\ claim \in Seq(Nat) /\ q = Open(seen, claim, known)
    BY <1>5, <1>6, ViewsTyped
  <2> HIDE DEF seen, claim, known
  <2>2. /\ IsOpen(Open(seen, claim, known))
        /\ Open(seen, claim, known).seen = seen /\ Open(seen, claim, known).claim = claim
        /\ Open(seen, claim, known).known = known
    BY <1>6, <2>1, OpenTyped
  <2>3. Open(seen, claim, known).stage = "open"
    BY DEF Open, SightOf
  <2> QED
    BY <2>1, <2>2, <2>3
<1>12. globals' \subseteq NamesOf("globl")
  BY <1>3 DEF ScopingInv
<1> HIDE DEF seen
<1>13. Agrees(q)'
  BY <1>3, <1>8, <1>9, <1>10, <1>11 DEF Agrees
<1> QED
  BY <1>1, <1>2, <1>3, <1>12, <1>13, SeesOnAlone
-----------------------------------------------------------------------------
(* Units.                                                                  *)

(* Outside of every unit, in a table of nothing but the global scope.      *)
LEMMA OutsideAgrees ==
  ASSUME NEW known \in SUBSET Names, globals' = known,
         Len(table'.scopes) = 1, table'.scopes[1].vars = <<>>
  PROVE  Agrees(Outside(known))'
<1> DEFINE q == Outside(known)
<1>1. IsOpen(q) /\ q.seen = <<Nowhere>> /\ q.claim = <<>> /\ q.known = known /\ q.stage = "open"
  BY OutsideParts
<1>2. AllRead(table'.scopes, slots', <<Nowhere>>)
  BY NothingReads
<1> HIDE DEF q
<1>3. Agrees(q)'
  BY <1>1, <1>2 DEF Agrees
<1> QED
  BY <1>3 DEF q

(* The scopes where p is outside.                                          *)
LEMMA OutsideTable ==
  ASSUME ScopingInv, NEW p \in Sight, Agrees(p), p = Outside(p.known)
  PROVE  /\ p.known \in SUBSET Names /\ globals = p.known
         /\ Len(table.scopes) = 1 /\ table.scopes[1].vars = <<>>
<1>1. p.known \in SUBSET Names
  BY DEF Sight
<1>2. IsOpen(p) /\ p.seen = <<Nowhere>>
  BY <1>1, OutsideParts
<1>3. AllRead(table.scopes, slots, <<Nowhere>>) /\ globals = p.known
  BY <1>2 DEF Agrees
<1>4. Len(<<Nowhere>>) = 1
  OBVIOUS
<1> QED
  BY <1>1, <1>3, <1>4 DEF AllRead, ScopingInv, GeneratorInv, GlobalEmpty

LEMMA EndSees == ASSUME ScopingInv, EndClosure, GeneratorInv' PROVE ScopingInv'
<1>1. NextIs("closed") /\ Head(todo).do = "closed" /\ todo' = <<>> \o Tail(todo)
  BY DEF EndClosure, NextIs, Leads
<1>2. PICK p \in Sight, q \in Sight, r \in Sight :
        /\ Agrees(p) /\ Sees(Site, Spoilt, Head(todo), p, q)
        /\ Shows(Site, Spoilt, Tail(todo), q, r)
  BY <1>1, FirstSeen
<1>3. table' = outer /\ slots' = <<>> /\ UNCHANGED <<prog, globals, found, captured, jumps>>
  BY DEF EndClosure, history
<1>4. q = Outside(p.known) /\ p.known \in SUBSET Names
  BY <1>1, <1>2 DEF Sees, Sight
<1>5. globals = p.known
  BY <1>2 DEF Agrees
<1>6. Len(table'.scopes) = 1 /\ table'.scopes[1].vars = <<>>
  <2>1. table' = NewLexicon
    BY <1>3 DEF ScopingInv, GeneratorInv
  <2>2. GlobalEmpty'
    BY DEF GeneratorInv
  <2> QED
    BY <2>1, <2>2, NewLexiconHolds DEF GlobalEmpty
<1>7. Agrees(q)'
  BY <1>3, <1>4, <1>5, <1>6, OutsideAgrees
<1>8. globals' \subseteq NamesOf("globl")
  BY <1>3 DEF ScopingInv
<1> QED
  BY <1>1, <1>2, <1>3, <1>7, <1>8, SeesOnAlone

LEMMA EntrySees == ASSUME ScopingInv, Entry, GeneratorInv' PROVE ScopingInv'
<1>1. NextIs("entry") /\ Head(todo).do = "entry" /\ todo' = <<>> \o Tail(todo)
  BY DEF Entry, NextIs, Leads
<1>2. PICK p \in Sight, q \in Sight, r \in Sight :
        /\ Agrees(p) /\ Sees(Site, Spoilt, Head(todo), p, q)
        /\ Shows(Site, Spoilt, Tail(todo), q, r)
  BY <1>1, FirstSeen
<1>3. globals' = {} /\ UNCHANGED <<prog, table, found, captured, jumps>>
  BY DEF Entry, history
<1>4. p = Outside(p.known) /\ q = Outside({})
  BY <1>1, <1>2 DEF Sees
<1>5. Len(table'.scopes) = 1 /\ table'.scopes[1].vars = <<>>
  BY <1>2, <1>3, <1>4, OutsideTable
<1>6. Agrees(q)'
  BY <1>3, <1>4, <1>5, OutsideAgrees
<1> QED
  BY <1>1, <1>2, <1>3, <1>6, SeesOnAlone

LEMMA GlobalSees == ASSUME ScopingInv, DefineGlobal, GeneratorInv' PROVE ScopingInv'
<1>1. NextIs("global") /\ Head(todo).do = "global" /\ todo' = <<>> \o Tail(todo)
  BY DEF DefineGlobal, NextIs, Leads
<1>2. PICK p \in Sight, q \in Sight, r \in Sight :
        /\ Agrees(p) /\ Sees(Site, Spoilt, Head(todo), p, q)
        /\ Shows(Site, Spoilt, Tail(todo), q, r)
  BY <1>1, FirstSeen
<1>3. globals' = globals \cup {Head(todo).name} /\ UNCHANGED <<prog, table, found, captured, jumps>>
  BY DEF DefineGlobal, history
<1>4. /\ p = Outside(p.known) /\ q = Outside(p.known \cup {Head(todo).name})
      /\ Head(todo).name \in NamesOf("globl")
  BY <1>1, <1>2 DEF Sees, Site
<1>5. /\ p.known \in SUBSET Names /\ globals = p.known
      /\ Len(table'.scopes) = 1 /\ table'.scopes[1].vars = <<>>
  BY <1>2, <1>3, <1>4, OutsideTable
<1>6. globals' \subseteq NamesOf("globl") /\ globals' \subseteq Names
  BY <1>3, <1>4 DEF ScopingInv, GeneratorInv
<1>7. Agrees(q)'
  BY <1>3, <1>4, <1>5, <1>6, OutsideAgrees
<1> QED
  BY <1>1, <1>2, <1>3, <1>6, <1>7, SeesOnAlone

(* The lambdas that get a label: no walk has looked away on the way down   *)
(* to them.                                                                *)
Labelled == {l \in Nodes : IsLambda(l) /\ Unskipped(l) /\ prog[l[1]].kind # "globl"}

LEMMA LambdasOf ==
  ASSUME NEW node \in Trees, NEW path \in Seq(Nat)
  PROVE  Lambdas[node][path] = LambdasHere(Lambdas, node, path)
<1>1. Lambdas = CHOOSE f : LambdasEquation(f)
  BY DEF Lambdas, LambdasEquation, LambdasHere
<1>2. LambdasEquation(Lambdas)
  BY <1>1, LambdasExist
<1> QED
  BY <1>2 DEF LambdasEquation

LEMMA UnskippedKid ==
  ASSUME prog \in Programs, NEW p \in Nodes, NEW k \in DOMAIN NodeAt(p).kids
  PROVE  /\ Unskipped(Append(p, k)) <=> Unskipped(p) /\ NodeAt(p).kind \notin Skipped
         /\ Append(p, k)[1] = p[1]
<1>1. p \in Seq(Nat) /\ p # <<>> /\ k \in Nat
  BY NodeTyped, KidIsNode
<1>2. Above(Append(p, k)) = Above(p) \cup {p}
  BY <1>1, AboveKid
<1> QED
  BY <1>1, <1>2, KidPath DEF Unskipped

LEMMA LabelsAre ==
  ASSUME prog \in Programs
  PROVE  ToSet(AllLambdas) \subseteq Labelled
<1> DEFINE T == Seq(Labelled)
           P == {p \in Nodes : (Unskipped(p) /\ prog[p[1]].kind # "globl") => Lambdas[NodeAt(p)][p] \in T}
<1>1. <<>> \in T /\ \A s, t \in T : s \o t \in T
  BY EmptySeq, ConcatProperties
<1>2. ASSUME NEW p \in Nodes, \A k \in DOMAIN NodeAt(p).kids : Append(p, k) \in P PROVE p \in P
  <2> DEFINE node == NodeAt(p)
             seqs == [k \in DOMAIN node.kids |-> Lambdas[node.kids[k]][Append(p, k)]]
  <2> SUFFICES ASSUME Unskipped(p), prog[p[1]].kind # "globl" PROVE Lambdas[node][p] \in T
    OBVIOUS
  <2>1. /\ p \in Seq(Nat) /\ node \in Trees /\ node.kids \in Seq(Trees) /\ Len(node.kids) \in Nat
        /\ DOMAIN node.kids = 1 .. Len(node.kids)
    BY NodeTyped, LenProperties
  <2>2. Lambdas[node][p] = LambdasHere(Lambdas, node, p)
    BY <2>1, LambdasOf
  <2>3. CASE node.kind \in Skipped
    BY <1>1, <2>2, <2>3 DEF LambdasHere
  <2>4. CASE node.kind \notin Skipped
    <3>1. ASSUME NEW k \in DOMAIN node.kids PROVE Lambdas[node.kids[k]][Append(p, k)] \in T
      <4>1. /\ Append(p, k) \in P /\ NodeAt(Append(p, k)) = node.kids[k]
            /\ Unskipped(Append(p, k)) /\ Append(p, k)[1] = p[1]
        BY <1>2, <2>4, KidIsNode, UnskippedKid
      <4> HIDE DEF T
      <4> QED
        BY <4>1
    <3>2. seqs \in [1 .. Len(node.kids) -> T]
      BY <2>1, <3>1
    <3>3. FlattenSeq(seqs) \in T
      <4> HIDE DEF T, seqs
      <4> QED
        BY <1>1, <2>1, <3>2, FlattenedAll
    <3>4. node.kind = "close" => <<p>> \in T
      <4>1. node.kind = "close" => p \in Labelled
        BY DEF Labelled, IsLambda
      <4> QED
        BY <4>1
    <3> HIDE DEF T, seqs
    <3> QED
      BY <1>1, <2>2, <2>4, <3>3, <3>4 DEF LambdasHere, seqs
  <2> QED
    BY <2>3, <2>4
<1>3. Nodes \subseteq P
  <2> HIDE DEF P
  <2> QED
    BY <1>2, NodesUp
<1> DEFINE seqs == [i \in DOMAIN prog |->
                      IF prog[i].kind = "globl" THEN <<>> ELSE Lambdas[prog[i].body][<<i>>]]
<1>4. Len(prog) \in Nat /\ DOMAIN prog = 1 .. Len(prog)
  BY LenProperties, GeneratorAssumption
<1>5. ASSUME NEW i \in DOMAIN prog, prog[i].kind # "globl" PROVE Lambdas[prog[i].body][<<i>>] \in T
  <2>1. <<i>> \in Nodes /\ NodeAt(<<i>>) = prog[i].body /\ <<i>>[1] = i
    BY ItemIsNode, ItemTyped DEF NodeAt
  <2>2. Unskipped(<<i>>)
    BY AboveItem DEF Unskipped
  <2> QED
    BY <1>3, <1>5, <2>1, <2>2
<1>6. seqs \in [1 .. Len(prog) -> T]
  BY <1>1, <1>4, <1>5
<1>7. AllLambdas \in T
  <2> HIDE DEF T, seqs
  <2>1. FlattenSeq(seqs) \in T
    BY <1>1, <1>4, <1>6, FlattenedAll
  <2> QED
    BY <2>1 DEF AllLambdas, seqs
<1> QED
  BY <1>7 DEF ToSet

(* From point to point, one thing after the other.                         *)
LEMMA ShowsAlong ==
  ASSUME NEW w, NEW s, NEW a \in Seq(Thing), NEW h \in [0 .. Len(a) -> Sight],
         \A i \in 1 .. Len(a) : Sees(w, s, a[i], h[i - 1], h[i])
  PROVE  Shows(w, s, a, h[0], h[Len(a)])
<1> DEFINE n == Len(a)
           f == [i \in 1 .. n + 1 |-> h[i - 1]]
<1>1. n \in Nat /\ \A i \in 1 .. n : a[i] \in Thing
  BY LenProperties, ElementOfSeq
<1>2. \A i \in 1 .. n : Sees(w, s, a[i], h[i - 1], h[i])
  OBVIOUS
<1>3. \A i \in 0 .. n : h[i] \in Sight
  OBVIOUS
<1> HIDE DEF n
<1>4. \A i \in 1 .. n + 1 : i - 1 \in 0 .. n
  BY <1>1
<1>5. f \in [1 .. n + 1 -> Sight] /\ f[1] = h[0] /\ f[n + 1] = h[n]
  BY <1>1, <1>3, <1>4
<1>6. ASSUME NEW i \in 1 .. n PROVE <<a[i], f[i], f[i + 1]>> \in Looks(w, s)
  <2>1. f[i] = h[i - 1] /\ f[i + 1] = h[i] /\ i - 1 \in 0 .. n /\ i \in 0 .. n
    BY <1>1
  <2> HIDE DEF f
  <2> QED
    BY <1>1, <1>2, <1>3, <2>1 DEF Looks
<1> HIDE DEF f
<1>7. Route(Sight, Looks(w, s), a, h[0], h[n], f)
  BY <1>5, <1>6 DEF Route, n
<1> QED
  BY <1>7 DEF Shows, Runs, n

(* The names of a frame go into it one by one.                             *)
LEMMA CapturesShow ==
  ASSUME prog \in Programs, NEW s, NEW l \in Nodes, NodeAt(l).kind = "close", NEW known \in SUBSET Names,
         NEW names \in Seq(Names), NEW before \in Nat, before + Len(names) <= Len(InFrame(l)),
         \A i \in 1 .. Len(names) : InFrame(l)[before + i] = names[i]
  PROVE  Shows(Site, s, [i \in DOMAIN names |-> Todo("capture", <<>>, names[i], 0)],
               Filling(l, before, known), Filling(l, before + Len(names), known))
<1> DEFINE n == Len(names)
           Thing1(i) == Todo("capture", <<>>, names[i], 0)
           a == [i \in DOMAIN names |-> Todo("capture", <<>>, names[i], 0)]
           h == [i \in 0 .. n |-> Filling(l, before + i, known)]
<1>1. /\ n \in Nat /\ DOMAIN names = 1 .. n /\ \A i \in 1 .. n : names[i] \in Names
      /\ l \in Seq(Nat)
  BY LenProperties, ElementOfSeq, NodeTyped
<1>2. ASSUME NEW i \in 0 .. n PROVE Filling(l, before + i, known) \in Sight
  BY <1>1 DEF Filling, SightOf, Sight
<1>3. h \in [0 .. n -> Sight]
  BY <1>2
<1>4. ASSUME NEW i \in 1 .. n
      PROVE  /\ Todo("capture", <<>>, names[i], 0) \in Thing /\ a[i] = Todo("capture", <<>>, names[i], 0)
             /\ Sees(Site, s, a[i], h[i - 1], h[i])
  <2> DEFINE thing == Todo("capture", <<>>, names[i], 0)
  <2>1. thing \in Thing /\ thing.do = "capture" /\ thing.name = names[i]
    <3>1. "capture" \in Doings /\ names[i] \in Names
      BY <1>1 DEF Doings
    <3> HIDE DEF Doings
    <3> QED
      BY <3>1, Nothing DEF Todo, Thing
  <2>2. Captures(Site, names[i], h[i - 1], h[i])
    <3> DEFINE j == before + (i - 1)
    <3>1. j \in Nat /\ j + 1 = before + i /\ j + 1 \in 1 .. Len(InFrame(l))
      <4>1. Len(InFrame(l)) \in Nat
        BY InFrameTyped, LenProperties DEF IsLambda
      <4> QED
        BY <1>1, <4>1
    <3>2. h[i - 1] = Filling(l, j, known) /\ h[i] = Filling(l, before + i, known)
      BY <1>1
    <3> HIDE DEF h, j
    <3>3. h[i - 1].known = known /\ h[i] = Filling(l, j + 1, known)
      BY <3>1, <3>2, FillingParts
    <3>4. InFrame(l)[j + 1] = names[i]
      BY <3>1
    <3>5. /\ Site.lists[l] = InFrame(l) /\ Site.nodes = Nodes /\ NodeIn(Site.items, l).kind = "close"
      BY DEF Site, NodeAt
    <3> QED
      BY <3>1, <3>2, <3>3, <3>4, <3>5 DEF Captures
  <2>3. a[i] = thing
    BY <1>1
  <2> HIDE DEF h, a, thing
  <2>4. Sees(Site, s, thing, h[i - 1], h[i])
    BY <2>1, <2>2 DEF Sees
  <2> QED
    BY <2>1, <2>3, <2>4 DEF thing
<1>5. h[0] = Filling(l, before, known) /\ h[n] = Filling(l, before + n, known)
  BY <1>1
<1>6. a \in Seq(Thing) /\ Len(a) = n
  <2>1. a = [i \in 1 .. n |-> Todo("capture", <<>>, names[i], 0)]
    BY <1>1
  <2>2. \A i \in 1 .. n : Todo("capture", <<>>, names[i], 0) \in Thing
    BY <1>4
  <2> HIDE DEF a
  <2> QED
    BY <1>1, <2>1, <2>2
<1> HIDE DEF a, h
<1>7. Shows(Site, s, a, h[0], h[n])
  BY <1>3, <1>4, <1>6, ShowsAlong
<1> QED
  BY <1>5, <1>7 DEF a

(* The body of a lambda is compiled in a frame that holds its formals and  *)
(* what the body leaves free.                                              *)
LEMMA BodySeen ==
  ASSUME prog \in Programs, NEW l \in Nodes, NodeAt(l).kind = "close",
         NEW known \in SUBSET Names, NamesOf("globl") \subseteq known
  PROVE  LET body == Open(<<Nowhere, FrameView(l)>>, <<>>, known)
             last == Claiming(body, l)
         IN  /\ body \in Sight /\ IsOpen(body) /\ body.known = known /\ body.claim = <<>>
             /\ last \in Sight /\ IsOpen(last) /\ Claiming(last, <<>>) = body
             /\ Append(l, 1) \in Nodes /\ Append(l, 1) \in Seq(Nat) /\ ReadyFor(last, Append(l, 1))
<1> DEFINE seen == <<Nowhere, FrameView(l)>>
           claim == <<>>
           body == Open(seen, claim, known)
           last == Claiming(body, l)
           kid == Append(l, 1)
<1>1. IsLambda(l) /\ l \in Seq(Nat) /\ l # <<>> /\ 1 \in DOMAIN NodeAt(l).kids
  <2>1. NodeAt(l).kids \in Seq(Trees) /\ Len(NodeAt(l).kids) = 1
    BY NodeTyped DEF WellFormed
  <2> QED
    BY <2>1, NodeTyped, LenProperties DEF IsLambda
<1>2. kid \in Nodes /\ kid \in Seq(Nat) /\ UnitOf(kid) = l /\ InLambda(kid)
  BY <1>1, KidIsNode, UnitOfKid, NodeTyped
<1>3. View(kid) = FrameView(l)
  <2>1. View(kid) = [name \in Visible |-> Frame(l, name)]
    BY <1>1, ViewOfKid
  <2> QED
    BY <2>1 DEF FrameView
<1>4. FrameView(l) \in Views /\ Nowhere \in Views
  BY <1>1, ViewsTyped
<1>5. seen \in Seq(Views) /\ seen # <<>> /\ claim \in Seq(Nat) /\ seen[Len(seen)] = FrameView(l)
  BY <1>4
<1> HIDE DEF seen, claim, kid
<1>6. body \in Sight /\ IsOpen(body) /\ body.seen = seen /\ body.claim = claim /\ body.known = known
  BY <1>5, OpenTyped
<1>7. Now(body) = FrameView(l)
  BY <1>5, <1>6 DEF Now
<1> HIDE DEF body
<1>8. /\ last \in Sight /\ IsOpen(last) /\ Now(last) = Now(body) /\ last.claim = l /\ last.known = known
      /\ Claiming(last, claim) = body
  BY <1>1, <1>6, ClaimingTyped
<1>9. Earlier(kid) = NamesOf("globl")
  BY <1>2 DEF Earlier
<1> HIDE DEF last
<1>10. ReadyFor(last, kid)
  BY <1>2, <1>3, <1>7, <1>8, <1>9 DEF ReadyFor
<1> QED
  BY <1>2, <1>6, <1>8, <1>10 DEF last, body, seen, claim, kid

LEMMA EndingSeen ==
  ASSUME prog \in Programs, NEW s, NEW l \in Nodes, NodeAt(l).kind = "close",
         NEW known \in SUBSET Names, NamesOf("globl") \subseteq known
  PROVE  Shows(Site, s, <<Todo("count", <<>>, NoName, 0), SetTail(1), Kid(l, 1), SetTail(0),
                          Todo("closed", <<>>, NoName, 0)>>,
               Filling(l, Len(InFrame(l)), known), Outside(known))
<1> DEFINE Count == Todo("count", <<>>, NoName, 0)
           Closed == Todo("closed", <<>>, NoName, 0)
           fill == Filling(l, Len(InFrame(l)), known)
           body == Open(<<Nowhere, FrameView(l)>>, <<>>, known)
           last == Claiming(body, l)
           end == Outside(known)
<1>1. /\ body \in Sight /\ IsOpen(body) /\ body.known = known /\ body.claim = <<>>
      /\ last \in Sight /\ IsOpen(last) /\ Claiming(last, <<>>) = body
      /\ Append(l, 1) \in Nodes /\ Append(l, 1) \in Seq(Nat) /\ ReadyFor(last, Append(l, 1))
  BY BodySeen
<1>2. Count \in Thing /\ Closed \in Thing /\ Count.do = "count" /\ Closed.do = "closed"
  <2>1. "count" \in Doings /\ "closed" \in Doings
    BY DEF Doings
  <2> QED
    BY <2>1, PlainTyped
<1>3. l \in Seq(Nat) /\ <<>> \in Seq(Nat) /\ Len(InFrame(l)) \in Nat
  BY NodeTyped, InFrameTyped, LenProperties DEF IsLambda
<1>4. fill \in Sight
  BY <1>3 DEF Filling, SightOf, Sight
<1>5. fill.known = known
  BY FillingParts
<1>6. Counts(Site, fill, body)
  <2>1. Site.nodes = Nodes /\ NodeIn(Site.items, l).kind = "close" /\ Site.lists[l] = InFrame(l)
        /\ Site.frames[l] = FrameView(l)
    BY DEF Site, NodeAt
  <2>2. fill = Filling(l, Len(Site.lists[l]), fill.known)
        /\ body = Open(<<Nowhere, Site.frames[l]>>, <<>>, fill.known)
    BY <1>5, <2>1
  <2> HIDE DEF fill, body
  <2> QED
    BY <2>1, <2>2 DEF Counts
<1>7. end \in Sight
  BY OutsideParts
<1>8. SetTail(1) \in Thing /\ Sees(Site, s, SetTail(1), body, last)
  <2> HIDE DEF body
  <2> QED
    BY <1>1, <1>3, SightTail
<1>9. SetTail(0) \in Thing /\ Sees(Site, s, SetTail(0), last, body)
  <2> HIDE DEF body, last
  <2> DEFINE claim == <<>>
  <2>1. claim \in Seq(Nat) /\ claim = <<>>
    BY <1>3
  <2> HIDE DEF claim
  <2>2. SetTail(0) \in Thing /\ Sees(Site, s, SetTail(0), last, Claiming(last, claim))
    BY <1>1, <2>1, SightTail
  <2> QED
    BY <1>1, <2>1, <2>2
<1>10. Kid(l, 1) \in Thing /\ Sees(Site, s, Kid(l, 1), last, last)
  BY <1>1, SightExpr DEF Kid
<1> HIDE DEF Count, Closed, fill, body, last, end
<1>11. Sees(Site, s, Count, fill, body)
  BY <1>2, <1>6 DEF Sees
<1>12. Sees(Site, s, Closed, body, end)
  BY <1>1, <1>2 DEF Sees, end
<1>13. Shows(Site, s, <<Count, SetTail(1), Kid(l, 1), SetTail(0), Closed>>, fill, end)
  BY <1>1, <1>2, <1>4, <1>7, <1>8, <1>9, <1>10, <1>11, <1>12, ShowsFive
<1> QED
  BY <1>13 DEF Count, Closed, fill, end

LEMMA BeginSees == ASSUME ScopingInv, BeginClosure, GeneratorInv' PROVE ScopingInv'
<1>0. PICK path : path = Head(todo).at
  OBVIOUS
<1> DEFINE node == NodeAt(path)
           Capture(names) == [i \in DOMAIN names |-> Todo("capture", <<>>, names[i], 0)]
           ending == <<Todo("count", <<>>, NoName, 0), SetTail(1), Kid(path, 1), SetTail(0),
                       Todo("closed", <<>>, NoName, 0)>>
           free == FreeNames(node.kids[1])
           things == <<PushIt>> \o Capture(node.names) \o Capture(free) \o ending
<1>1. NextIs("closure") /\ Head(todo).do = "closure" /\ todo' = things \o Tail(todo)
  BY <1>0 DEF BeginClosure, NextIs, Leads
<1>2. PICK p \in Sight, q \in Sight, r \in Sight :
        /\ Agrees(p) /\ Sees(Site, Spoilt, Head(todo), p, q)
        /\ Shows(Site, Spoilt, Tail(todo), q, r)
  BY <1>1, FirstSeen
<1>3. /\ table' = NewLexicon /\ UNCHANGED <<prog, globals, tail, found, captured, jumps>>
      /\ slots' = FrameSlots(path)
  BY <1>0 DEF BeginClosure, history, FrameSlots
<1>4. /\ p = Outside(p.known) /\ q = p /\ path \in ToSet(AllLambdas)
      /\ NamesOf("globl") \subseteq p.known
  BY <1>0, <1>1, <1>2 DEF Sees, Site
<1> DEFINE known == p.known
           start == Start(path, known)
           fill == Filling(path, 0, known)
           half == Filling(path, Len(node.names), known)
           full == Filling(path, Len(InFrame(path)), known)
<1>5. prog \in Programs /\ path \in Nodes /\ node.kind = "close" /\ known \in SUBSET Names
      /\ globals = known
  BY <1>2, <1>4, LabelsAre, OutsideTable DEF Labelled, IsLambda, ScopingInv, GeneratorInv
<1>6. /\ node.names \in Seq(Names) /\ free \in Seq(Names) /\ InFrame(path) = node.names \o free
      /\ path \in Seq(Nat)
  BY <1>5, InFrameTyped, NodeTyped DEF InFrame, IsLambda
<1> HIDE DEF node, known, free
<1>7. start \in Sight /\ fill \in Sight
  BY <1>5, <1>6 DEF Start, Filling, SightOf, Sight
<1>8. Shows(Site, Spoilt, <<PushIt>>, start, fill)
  <2>1. PushIt \in Thing /\ PushIt.do = "push"
    <3>1. "push" \in Doings
      BY DEF Doings
    <3> QED
      BY <3>1, PlainTyped DEF PushIt
  <2>2. Site.nodes = Nodes /\ NodeIn(Site.items, path).kind = "close" /\ start.known = known
    BY <1>5, StartParts DEF Site, NodeAt, node
  <2>3. start = Start(path, start.known) /\ fill = Filling(path, 0, start.known)
    BY <2>2
  <2> HIDE DEF start, fill
  <2>4. \E l \in Site.nodes : /\ NodeIn(Site.items, l).kind = "close"
                              /\ start = Start(l, start.known) /\ fill = Filling(l, 0, start.known)
    BY <1>5, <2>2, <2>3
  <2>5. Sees(Site, Spoilt, PushIt, start, fill)
    BY <2>1, <2>4 DEF Sees
  <2> QED
    BY <1>7, <2>1, <2>5, ShowsOne
<1>9. /\ Len(node.names) \in Nat /\ Len(free) \in Nat
      /\ Len(InFrame(path)) = Len(node.names) + Len(free)
      /\ \A i \in 1 .. Len(node.names) : InFrame(path)[0 + i] = node.names[i]
      /\ \A i \in 1 .. Len(free) : InFrame(path)[Len(node.names) + i] = free[i]
  BY <1>6, ConcatProperties, LenProperties
<1>10. Shows(Site, Spoilt, Capture(node.names), fill, half)
  <2>1. 0 \in Nat /\ 0 + Len(node.names) <= Len(InFrame(path)) /\ 0 + Len(node.names) = Len(node.names)
    BY <1>9
  <2>2. Shows(Site, Spoilt, Capture(node.names), Filling(path, 0, known),
              Filling(path, 0 + Len(node.names), known))
    BY <1>5, <1>6, <1>9, <2>1, CapturesShow DEF node
  <2> QED
    BY <2>1, <2>2
<1>11. Shows(Site, Spoilt, Capture(free), half, full)
  <2>1. Len(node.names) + Len(free) <= Len(InFrame(path))
    BY <1>9
  <2>2. Shows(Site, Spoilt, Capture(free), Filling(path, Len(node.names), known),
              Filling(path, Len(node.names) + Len(free), known))
    BY <1>5, <1>6, <1>9, <2>1, CapturesShow DEF node
  <2> QED
    BY <1>9, <2>2
<1>12. Shows(Site, Spoilt, ending, full, q)
  BY <1>4, <1>5, EndingSeen DEF node, known
<1>13. Agrees(start)'
  <2>1. start.stage = "start" /\ start.unit = path /\ start.known = known /\ ~IsOpen(start)
    BY StartParts
  <2>2. FrameSlots(path)' = FrameSlots(path)
    BY <1>3, FramesStay
  <2> HIDE DEF start
  <2> QED
    BY <1>3, <1>5, <2>1, <2>2 DEF Agrees
<1> HIDE DEF start, fill, half, full, ending, Capture
<1>14. Shows(Site, Spoilt, things, start, q)
  <2>1. Shows(Site, Spoilt, <<PushIt>> \o Capture(node.names), start, half)
    BY <1>8, <1>10, ShowsBoth
  <2>2. Shows(Site, Spoilt, (<<PushIt>> \o Capture(node.names)) \o Capture(free), start, full)
    BY <1>11, <2>1, ShowsBoth
  <2> QED
    BY <1>12, <2>2, ShowsBoth
<1>15. Spoilt' = Spoilt /\ globals' \subseteq NamesOf("globl")
  BY <1>3, SpoiltStays DEF ScopingInv
<1>16. Recorded' /\ JumpsMade'
  BY <1>3, <1>15, RecordStays, MadeStays DEF ScopingInv
<1> HIDE DEF things
<1> QED
  BY <1>1, <1>2, <1>3, <1>7, <1>13, <1>14, <1>15, <1>16, SeesOn

(* One name after the other is bound.                                      *)
LEMMA BindingTyped ==
  ASSUME NEW at \in Seq(Nat), NEW names \in Seq(Names), NEW view \in Views, NEW i \in 0 .. Len(names)
  PROVE  Binding(at, names, i, view) \in Views
<1>1. ASSUME NEW name \in Visible, name \in ToSet(SubSeq(names, 1, i))
      PROVE  Held("variable", at, Latest(SubSeq(names, 1, i), name)) \in Holders
  <2> DEFINE some == SubSeq(names, 1, i)
  <2>1. some \in Seq(Names)
    BY SubSeqProperties, LenProperties, SMTT(30)
  <2> HIDE DEF some
  <2>2. Latest(some, name) \in 1 .. Len(some) /\ Len(some) \in Nat
    <3>1. name \in ToSet(some)
      BY <1>1 DEF some
    <3> QED
      BY <2>1, <3>1, LatestIs, LenProperties
  <2>3. Held("variable", at, Latest(some, name)) \in Words
    BY <2>2, WordsTyped
  <2> QED
    BY <2>3 DEF Holders, some
<1> QED
  BY <1>1 DEF Binding, Views

LEMMA BindingSeen ==
  ASSUME NEW w, NEW s, NEW o \in Sight, IsOpen(o), NEW at \in Seq(Nat), NEW names \in Seq(Visible),
         NEW view \in Views, NEW i \in 1 .. Len(names)
  PROVE  LET before == Within(o, Binding(at, names, i - 1, view))
             after  == Within(o, Binding(at, names, i, view))
         IN  /\ BindIt(at, names[i], i) \in Thing /\ before \in Sight /\ after \in Sight
             /\ Sees(w, s, BindIt(at, names[i], i), before, after)
<1> DEFINE v == Binding(at, names, i - 1, view)
           u == Binding(at, names, i, view)
<1>1. names \in Seq(Names) /\ names[i] \in Visible /\ i \in Nat /\ i - 1 \in 0 .. Len(names)
      /\ i \in 0 .. Len(names)
  <2>1. Visible \subseteq Names
    BY DEF Visible
  <2> QED
    BY <2>1, SeqMonotonic, ElementOfSeq, LenProperties
<1>2. v \in Views /\ u \in Views
  BY <1>1, BindingTyped
<1>3. u = [v EXCEPT ![names[i]] = Held("variable", at, i)]
  BY <1>1, BindingGrows
<1> HIDE DEF u, v
<1>4. /\ BindIt(at, names[i], i) \in Thing
      /\ Sees(w, s, BindIt(at, names[i], i), Within(o, v), Within(o, [v EXCEPT ![names[i]] = Held("variable", at, i)]))
  <2> DEFINE name == names[i]
  <2>1. name \in Visible
    BY <1>1
  <2> HIDE DEF name
  <2>2. LET x == [v EXCEPT ![name] = Held("variable", at, i)]
        IN  /\ BindIt(at, name, i) \in Thing /\ x \in Views
            /\ Sees(w, s, BindIt(at, name, i), Within(o, v), Within(o, x))
    BY <1>1, <1>2, <2>1, SightBinds
  <2> QED
    BY <2>2 DEF name
<1>5. Within(o, v) \in Sight /\ Within(o, u) \in Sight
  BY <1>2, WithinTyped
<1> QED
  BY <1>3, <1>4, <1>5 DEF u, v

LEMMA BindingsShow ==
  ASSUME NEW w, NEW s, NEW o \in Sight, IsOpen(o), NEW at \in Seq(Nat), NEW names \in Seq(Visible),
         NEW view \in Views
  PROVE  Shows(w, s, [i \in DOMAIN names |-> BindIt(at, names[i], i)],
               Within(o, view), Within(o, Binding(at, names, Len(names), view)))
<1> DEFINE n == Len(names)
           a == [i \in DOMAIN names |-> BindIt(at, names[i], i)]
           h == [i \in 0 .. n |-> Within(o, Binding(at, names, i, view))]
<1>1. n \in Nat /\ DOMAIN names = 1 .. n
  BY LenProperties
<1>2. ASSUME NEW i \in 1 .. n
      PROVE  /\ BindIt(at, names[i], i) \in Thing /\ a[i] = BindIt(at, names[i], i)
             /\ h[i - 1] \in Sight /\ h[i] \in Sight
             /\ Sees(w, s, a[i], h[i - 1], h[i])
  <2>1. i - 1 \in 0 .. n /\ i \in 0 .. n
    BY <1>1
  <2>2. /\ h[i - 1] = Within(o, Binding(at, names, i - 1, view))
        /\ h[i] = Within(o, Binding(at, names, i, view))
    BY <2>1
  <2>3. a[i] = BindIt(at, names[i], i)
    BY <1>1
  <2> HIDE DEF a, h
  <2> QED
    BY <2>2, <2>3, BindingSeen
<1>3. Binding(at, names, 0, view) = view
  <2>1. view = [name \in Visible |-> view[name]]
    BY DEF Views
  <2> QED
    BY <2>1, BindingStarts
<1>4. h[0] = Within(o, view) /\ h[n] = Within(o, Binding(at, names, n, view))
  BY <1>1, <1>3
<1>5. h \in [0 .. n -> Sight]
  <2>1. Within(o, view) \in Sight
    BY WithinTyped
  <2>2. ASSUME NEW i \in 0 .. n PROVE h[i] \in Sight
    <3> HIDE DEF h
    <3>1. i = 0 \/ i \in 1 .. n
      BY <1>1
    <3> QED
      BY <1>2, <1>4, <2>1, <3>1
  <2> QED
    BY <2>2
<1>6. a \in Seq(Thing) /\ Len(a) = n
  <2>1. a = [i \in 1 .. n |-> BindIt(at, names[i], i)]
    BY <1>1
  <2>2. \A i \in 1 .. n : BindIt(at, names[i], i) \in Thing
    BY <1>2
  <2> HIDE DEF a
  <2> QED
    BY <1>1, <2>1, <2>2
<1>7. \A i \in 1 .. n : Sees(w, s, a[i], h[i - 1], h[i])
  BY <1>2
<1> HIDE DEF a, h
<1>8. Shows(w, s, a, h[0], h[n])
  BY <1>5, <1>6, <1>7, ShowsAlong
<1> QED
  BY <1>4, <1>8 DEF a, n

LEMMA DefineSees == ASSUME ScopingInv, Define, GeneratorInv' PROVE ScopingInv'
<1>0. PICK path : path = Head(todo).at
  OBVIOUS
<1> DEFINE params == prog[path[1]].params
           binding == [i \in DOMAIN params |-> BindIt(path \o <<0>>, params[i], i)]
           ending == <<SetTail(1), Expr(path), SetTail(0), PopIt>>
           things == <<PushIt>> \o binding \o ending
<1>1. NextIs("define") /\ Head(todo).do = "define" /\ todo' = things \o Tail(todo)
  BY <1>0 DEF Define, NextIs, Leads
<1>2. PICK p \in Sight, q \in Sight, r \in Sight :
        /\ Agrees(p) /\ Sees(Site, Spoilt, Head(todo), p, q)
        /\ Shows(Site, Spoilt, Tail(todo), q, r)
  BY <1>1, FirstSeen
<1>3. UNCHANGED <<prog, globals, table, tail, slots, found, captured, jumps>>
  BY DEF Define, place, history
<1>4. /\ p = Outside(p.known) /\ q = p /\ NamesOf("globl") \subseteq p.known
      /\ \E i \in DOMAIN prog : path = <<i>> /\ prog[i].kind = "deffn"
  BY <1>0, <1>1, <1>2 DEF Sees, Site
<1>5. PICK i \in DOMAIN prog : path = <<i>> /\ prog[i].kind = "deffn"
  BY <1>4
<1>6. /\ prog \in Programs /\ path \in Nodes /\ path \in Seq(Nat) /\ path[1] = i /\ i \in Nat
      /\ p.known \in SUBSET Names /\ UnitOf(path) = path
  <2>1. prog \in Programs /\ p.known \in SUBSET Names
    BY <1>2, <1>4, OutsideTable DEF ScopingInv, GeneratorInv
  <2>2. <<i>>[1] = i
    OBVIOUS
  <2> QED
    BY <1>5, <2>1, <2>2, ItemIsNode, NodeTyped, ItemTyped, UnitOfItem
<1>7. params \in Seq(Visible) /\ params = prog[i].params /\ params \in Seq(Names)
  <2>1. prog[i].params \in Seq(Names) /\ Temporary \notin ToSet(prog[i].params)
    BY <1>6, ItemTyped, ScopingAssumption
  <2>2. \A j \in 1 .. Len(prog[i].params) : prog[i].params[j] \in Visible
    BY <2>1, LenProperties, ElementOfSeq DEF Visible, ToSet
  <2> QED
    BY <1>6, <2>1, <2>2
<1>8. path \o <<0>> = <<i, 0>> /\ path \o <<0>> \in Seq(Nat)
  <2>1. <<i>> \o <<0>> = <<i, 0>>
    BY <1>6, JoinedTwo
  <2>2. <<i, 0>> \in Seq(Nat)
    BY <1>6
  <2> QED
    BY <1>5, <2>1, <2>2
<1> DEFINE deep == Within(p, View(path))
           last == Claiming(deep, path)
<1>9. /\ IsOpen(p) /\ Now(p) = Nowhere /\ p.claim = <<>> /\ Nowhere \in Views /\ View(path) \in Views
  BY <1>4, <1>6, OutsideParts, ViewsTyped
<1>10. /\ deep \in Sight /\ IsOpen(deep) /\ Now(deep) = View(path) /\ deep.claim = <<>>
       /\ deep.known = p.known
  BY <1>9, WithinTyped
<1>11. Binding(<<i, 0>>, prog[i].params, Len(prog[i].params), Nowhere) = View(path)
  BY <1>5, <1>6, ViewOfItem
<1> HIDE DEF deep, params
<1>12. /\ last \in Sight /\ IsOpen(last) /\ Now(last) = View(path) /\ last.claim = path /\ last.known = p.known
       /\ Claiming(last, deep.claim) = deep
  BY <1>6, <1>10, ClaimingTyped
<1> HIDE DEF last
<1>13. SetTail(1) \in Thing /\ Sees(Site, Spoilt, SetTail(1), deep, last)
  BY <1>6, <1>10, SightTail DEF last
<1>14. Expr(path) \in Thing /\ Sees(Site, Spoilt, Expr(path), last, last)
  <2>1. Earlier(path) = NamesOf("globl")
    BY <1>5, <1>6 DEF Earlier
  <2>2. ReadyFor(last, path)
    BY <1>4, <1>6, <1>12, <2>1 DEF ReadyFor
  <2> QED
    BY <1>6, <1>12, <2>2, SightExpr
<1>15. SetTail(0) \in Thing /\ Sees(Site, Spoilt, SetTail(0), last, deep)
  <2> DEFINE claim == deep.claim
  <2>1. claim \in Seq(Nat) /\ claim = <<>>
    BY <1>10, OpenParts
  <2>2. Claiming(last, claim) = deep
    BY <1>12
  <2> HIDE DEF claim
  <2>3. SetTail(0) \in Thing /\ Sees(Site, Spoilt, SetTail(0), last, Claiming(last, claim))
    BY <1>12, <2>1, SightTail
  <2> QED
    BY <2>2, <2>3
<1>16. /\ PushIt \in Thing /\ PopIt \in Thing /\ Sees(Site, Spoilt, PushIt, p, Within(p, Nowhere))
       /\ Sees(Site, Spoilt, PopIt, deep, p) /\ Within(p, Nowhere) \in Sight
  BY <1>9, SightMoves DEF deep
<1>17. Shows(Site, Spoilt, <<PushIt>>, p, Within(p, Nowhere))
  BY <1>16, ShowsOne
<1>18. Shows(Site, Spoilt, binding, Within(p, Nowhere), deep)
  <2> DEFINE at == path \o <<0>>
  <2>1. at \in Seq(Nat) /\ Binding(at, params, Len(params), Nowhere) = View(path)
    BY <1>7, <1>8, <1>11
  <2> HIDE DEF at
  <2>2. Shows(Site, Spoilt, [j \in DOMAIN params |-> BindIt(at, params[j], j)],
              Within(p, Nowhere), Within(p, Binding(at, params, Len(params), Nowhere)))
    BY <1>7, <1>9, <2>1, BindingsShow
  <2> QED
    BY <2>1, <2>2 DEF at, deep
<1>19. Shows(Site, Spoilt, ending, deep, p)
  BY <1>10, <1>12, <1>13, <1>14, <1>15, <1>16, ShowsFour
<1> HIDE DEF binding, ending
<1>20. Shows(Site, Spoilt, things, p, q)
  <2>1. Shows(Site, Spoilt, <<PushIt>> \o binding, p, deep)
    BY <1>17, <1>18, ShowsBoth
  <2> QED
    BY <1>4, <1>19, <2>1, ShowsBoth
<1>21. Spoilt' = Spoilt /\ globals' \subseteq NamesOf("globl")
  BY <1>3, SpoiltStays DEF ScopingInv
<1>22. Recorded' /\ JumpsMade'
  BY <1>3, <1>21, RecordStays, MadeStays DEF ScopingInv
<1>23. Agrees(p)'
  <2>1. p.stage = "open"
    BY <1>9, OpenParts
  <2> QED
    BY <1>2, <1>3, <1>21, <2>1 DEF Agrees
<1> HIDE DEF things
<1> QED
  BY <1>1, <1>2, <1>3, <1>20, <1>21, <1>22, <1>23, SeesOn
-----------------------------------------------------------------------------
(* Expressions.                                                            *)

(* A kid is in tail position only where its value is passed on.            *)
LEMMA TailOfKid ==
  ASSUME NEW at \in Seq(Nat), at # <<>>, NodeAt(at).kind # "close", NEW k \in Nat,
         Append(at, k) \in TailPlaces
  PROVE  at \in TailPlaces /\ PassesOn(NodeAt(at), k)
<1> DEFINE long == Append(at, k)
           m == Len(at)
<1>1. /\ m \in Nat \ {0} /\ Len(long) = m + 1 /\ long[m + 1] = k
      /\ \A n \in 1 .. m : long[n] = at[n] /\ SubSeq(long, 1, n) = SubSeq(at, 1, n)
      /\ SubSeq(long, 1, m) = at
  BY KidPath
<1>2. InTailPlace(long)
  BY DEF TailPlaces
<1> HIDE DEF long, m
<1>3. PICK n \in 1 .. Len(long) :
        /\ IsBody(SubSeq(long, 1, n))
        /\ \A i \in n + 1 .. Len(long) : PassesOn(NodeAt(SubSeq(long, 1, i - 1)), long[i])
  BY <1>2 DEF InTailPlace
<1>4. n # m + 1
  <2> SUFFICES ASSUME n = m + 1 PROVE FALSE
    OBVIOUS
  <2>1. SubSeq(long, 1, n) = long
    <3>1. long \in Seq(Nat)
      BY KidPath DEF long
    <3> QED
      BY <1>1, <3>1
  <2>2. IsBody(long)
    BY ONLY <1>3, <2>1
  <2>3. Len(long) # 1 /\ Len(long) - 1 = m
    BY <1>1
  <2> QED
    BY <1>1, <2>2, <2>3 DEF IsBody
<1>5. n \in 1 .. m /\ m + 1 \in n + 1 .. Len(long)
  BY <1>1, <1>3, <1>4
<1>6. PassesOn(NodeAt(at), k)
  <2>1. PassesOn(NodeAt(SubSeq(long, 1, (m + 1) - 1)), long[m + 1])
    BY <1>3, <1>5
  <2>2. (m + 1) - 1 = m
    BY <1>1
  <2> QED
    BY <1>1, <2>1, <2>2
<1>7. InTailPlace(at)
  <2>1. IsBody(SubSeq(at, 1, n))
    BY <1>1, <1>3, <1>5
  <2>2. ASSUME NEW i \in n + 1 .. m PROVE PassesOn(NodeAt(SubSeq(at, 1, i - 1)), at[i])
    <3>1. i \in n + 1 .. Len(long) /\ i - 1 \in 1 .. m /\ i \in 1 .. m
      BY <1>1, <1>5
    <3>2. PassesOn(NodeAt(SubSeq(long, 1, i - 1)), long[i])
      BY <1>3, <3>1
    <3> QED
      BY <1>1, <3>1, <3>2
  <2> QED
    BY <1>5, <2>1, <2>2 DEF InTailPlace, m
<1> QED
  BY <1>6, <1>7 DEF TailPlaces

(* A kid of a node that is no lambda, where the claim is that of the node. *)
LEMMA KidSeen ==
  ASSUME prog \in Programs, NEW s, NEW at \in Nodes, NodeAt(at).kind # "close",
         NEW k \in DOMAIN NodeAt(at).kids, NEW o \in Sight, IsOpen(o),
         Now(o) = View(Append(at, k)), Earlier(at) \subseteq o.known,
         o.claim \in {<<>>, UnitOf(at)},
         (at \in TailPlaces /\ PassesOn(NodeAt(at), k)) => o.claim = UnitOf(at)
  PROVE  Kid(at, k) \in Thing /\ Sees(Site, s, Kid(at, k), o, o)
<1> DEFINE kid == Append(at, k)
<1>1. at \in Seq(Nat) /\ at # <<>> /\ k \in Nat /\ kid \in Nodes /\ kid \in Seq(Nat)
  BY NodeTyped, KidIsNode
<1>2. UnitOf(kid) = UnitOf(at) /\ InLambda(kid) = InLambda(at) /\ kid[1] = at[1]
  BY <1>1, UnitOfKid, KidPath DEF IsLambda
<1>3. Earlier(kid) = Earlier(at)
  BY <1>2 DEF Earlier
<1>4. kid \in TailPlaces => at \in TailPlaces /\ PassesOn(NodeAt(at), k)
  BY <1>1, TailOfKid
<1> HIDE DEF kid
<1>5. ReadyFor(o, kid)
  BY <1>2, <1>3, <1>4 DEF ReadyFor, kid
<1>6. Expr(kid) \in Thing /\ Sees(Site, s, Expr(kid), o, o)
  BY <1>1, <1>5, SightExpr
<1> QED
  BY <1>6 DEF Kid, kid

(* Where an expression is compiled.                                        *)
Flies(p, t, spoilt) == p.claim = <<>> \/ t = 1 \/ p.claim \in spoilt

LEMMA ExprHere ==
  ASSUME ScopingInv, NextIs("expr")
  PROVE  /\ Path \in Nodes /\ Path \in Seq(Nat) /\ Here = NodeAt(Path) /\ prog \in Programs
         /\ tail \in {0, 1}
         /\ \E p, r \in Sight : /\ Agrees(p) /\ ReadyFor(p, Path) /\ Flies(p, tail, Spoilt)
                                /\ Shows(Site, Spoilt, Tail(todo), p, r)
<1>1. PICK p \in Sight, q \in Sight, r \in Sight :
        /\ Agrees(p) /\ Sees(Site, Spoilt, Head(todo), p, q)
        /\ Shows(Site, Spoilt, Tail(todo), q, r)
  BY FirstSeen
<1>2. q = p /\ Path \in Nodes /\ ReadyFor(p, Path)
  <2>1. Head(todo).do = "expr"
    BY DEF NextIs
  <2> QED
    BY <1>1, <2>1, ExprSeen DEF Path
<1>3. Flies(p, tail, Spoilt)
  BY <1>1, <1>2 DEF ReadyFor, Agrees, Flies
<1>4. prog \in Programs /\ tail \in {0, 1}
  BY DEF ScopingInv, GeneratorInv
<1> QED
  BY <1>1, <1>2, <1>3, <1>4, NodeTyped DEF Here

LEMMA ExpressionSees ==
  ASSUME ScopingInv, NextIs("expr"), GeneratorInv',
         UNCHANGED <<prog, globals, table, slots>>, Recorded', JumpsMade', Spoilt \subseteq Spoilt',
         NEW things, todo' = things \o Tail(todo),
         \A p \in Sight : ReadyFor(p, Path) /\ Flies(p, tail, Spoilt) =>
           \E o \in {p, Claiming(p, <<>>)} :
             Flies(o, tail', Spoilt') /\ Shows(Site, Spoilt', things, o, p)
  PROVE  ScopingInv'
<1>1. PICK p \in Sight, r \in Sight :
        /\ Agrees(p) /\ ReadyFor(p, Path) /\ Flies(p, tail, Spoilt)
        /\ Shows(Site, Spoilt, Tail(todo), p, r)
  BY ExprHere
<1>2. PICK o \in {p, Claiming(p, <<>>)} : Flies(o, tail', Spoilt') /\ Shows(Site, Spoilt', things, o, p)
  BY <1>1
<1>3. IsOpen(p) /\ p.stage = "open"
  BY <1>1, OpenParts DEF ReadyFor
<1>4. o \in Sight /\ IsOpen(o) /\ o.seen = p.seen /\ o.known = p.known /\ o.stage = "open"
  <2> DEFINE claim == <<>>
  <2>1. claim \in Seq(Nat)
    OBVIOUS
  <2>2. o \in {p, Claiming(p, claim)}
    BY <1>2
  <2> HIDE DEF claim
  <2>3. /\ Claiming(p, claim) \in Sight /\ IsOpen(Claiming(p, claim))
        /\ Claiming(p, claim).known = p.known /\ Claiming(p, claim).seen = p.seen
    BY <1>3, <2>1, ClaimingTyped
  <2>4. Claiming(p, claim).stage = "open"
    BY <2>3, OpenParts
  <2> QED
    BY <1>3, <2>2, <2>3, <2>4
<1>5. Agrees(o)'
  BY <1>1, <1>2, <1>3, <1>4 DEF Agrees, Flies
<1>6. globals' \subseteq NamesOf("globl")
  BY DEF ScopingInv
<1> QED
  BY <1>1, <1>2, <1>4, <1>5, <1>6, SeesOn

(* The points around an expression: with no claim, and with it again.      *)
LEMMA LowSeen ==
  ASSUME ScopingInv, NextIs("expr"), NEW s, Spoilt \subseteq s,
         NEW p \in Sight, ReadyFor(p, Path), Flies(p, tail, Spoilt)
  PROVE  LET low == Claiming(p, <<>>)
         IN  /\ IsOpen(p) /\ Now(p) = View(Path) /\ Earlier(Path) \subseteq p.known
             /\ p.claim \in {<<>>, UnitOf(Path)} /\ (Path \in TailPlaces => p.claim = UnitOf(Path))
             /\ p.claim \in Seq(Nat) /\ View(Path) \in Views
             /\ low \in Sight /\ IsOpen(low) /\ Now(low) = View(Path) /\ low.known = p.known
             /\ low.claim = <<>> /\ Claiming(low, p.claim) = p
             /\ SetTail(tail) \in Thing /\ SetTail(0) \in Thing
             /\ Sees(Site, s, SetTail(tail), low, p) /\ Sees(Site, s, SetTail(0), p, low)
             /\ tail \in {0, 1} /\ (tail # 1 => p.claim = <<>> \/ p.claim \in s)
<1> DEFINE claim == <<>>
           low == Claiming(p, claim)
<1>1. /\ IsOpen(p) /\ Now(p) = View(Path) /\ Earlier(Path) \subseteq p.known
      /\ p.claim \in {<<>>, UnitOf(Path)} /\ (Path \in TailPlaces => p.claim = UnitOf(Path))
  BY DEF ReadyFor
<1>2. p.claim \in Seq(Nat) /\ claim \in Seq(Nat) /\ claim = <<>> /\ tail \in {0, 1} /\ 0 \in {0, 1}
  BY <1>1, OpenParts, ExprHere
<1>3. View(Path) \in Views
  BY ExprHere, ViewsTyped
<1> HIDE DEF claim
<1>4. /\ low \in Sight /\ IsOpen(low) /\ Now(low) = View(Path) /\ low.known = p.known
      /\ low.claim = claim /\ Claiming(low, p.claim) = p
  BY <1>1, <1>2, ClaimingTyped
<1>5. p.claim = <<>> \/ tail = 1 \/ p.claim \in s
  BY DEF Flies
<1>6. SetTail(0) \in Thing /\ Sees(Site, s, SetTail(0), p, low)
  BY <1>1, <1>2, SightTail
<1> HIDE DEF low
<1>7. SetTail(tail) \in Thing /\ Sees(Site, s, SetTail(tail), low, p)
  <2> DEFINE c == p.claim
  <2>1. c \in Seq(Nat) /\ (c = <<>> \/ tail = 1 \/ c \in s) /\ Claiming(low, c) = p
    BY <1>2, <1>4, <1>5
  <2> HIDE DEF c
  <2>2. SetTail(tail) \in Thing /\ Sees(Site, s, SetTail(tail), low, Claiming(low, c))
    BY <1>2, <1>4, <2>1, SightTail
  <2> QED
    BY <2>1, <2>2
<1> QED
  BY <1>1, <1>2, <1>3, <1>4, <1>5, <1>6, <1>7 DEF low, claim

(* A kid of the node that is compiled.                                     *)
LEMMA KidOfHere ==
  ASSUME ScopingInv, NextIs("expr"), Here.kind # "close", NEW s,
         NEW k \in DOMAIN Here.kids, NEW o \in Sight, IsOpen(o),
         Now(o) = View(Append(Path, k)), Earlier(Path) \subseteq o.known,
         o.claim \in {<<>>, UnitOf(Path)},
         (Path \in TailPlaces /\ PassesOn(Here, k)) => o.claim = UnitOf(Path)
  PROVE  Kid(Path, k) \in Thing /\ Sees(Site, s, Kid(Path, k), o, o)
<1>1. Path \in Nodes /\ Here = NodeAt(Path) /\ prog \in Programs
  BY ExprHere
<1> QED
  BY <1>1, KidSeen

LEMMA PlainKid ==
  ASSUME ScopingInv, NextIs("expr"), Here.kind \notin {"letex", "close"}, NEW s,
         NEW k \in DOMAIN Here.kids, NEW o \in Sight, IsOpen(o),
         Now(o) = View(Path), Earlier(Path) \subseteq o.known,
         o.claim \in {<<>>, UnitOf(Path)},
         (Path \in TailPlaces /\ PassesOn(Here, k)) => o.claim = UnitOf(Path)
  PROVE  Kid(Path, k) \in Thing /\ Sees(Site, s, Kid(Path, k), o, o)
<1>1. Path \in Nodes /\ Here = NodeAt(Path) /\ prog \in Programs
  BY ExprHere
<1>2. View(Append(Path, k)) = View(Path)
  BY <1>1, ViewOfKid
<1> QED
  BY <1>2, KidOfHere

(* When nothing is recorded.                                               *)
LEMMA HistoryStays ==
  ASSUME ScopingInv, prog' = prog, UNCHANGED history
  PROVE  Recorded' /\ JumpsMade' /\ Spoilt' = Spoilt /\ Spoilt \subseteq Spoilt'
<1>1. UNCHANGED <<found, captured, jumps>>
  BY DEF history
<1> QED
  BY <1>1, SpoiltStays, RecordStays, MadeStays DEF ScopingInv

LEMMA RefuseSees == ASSUME ScopingInv, Refuse, GeneratorInv' PROVE ScopingInv'
<1>1. prog' = prog /\ globals' = globals /\ UNCHANGED history /\ status' = "refused"
  BY DEF Refuse, place
<1>2. NamesOf("globl")' = NamesOf("globl")
  BY <1>1, NamesStay
<1> QED
  BY <1>1, <1>2, HistoryStays DEF ScopingInv

LEMMA FinishSees == ASSUME ScopingInv, Finish, GeneratorInv' PROVE ScopingInv'
<1>1. /\ UNCHANGED <<prog, globals, table, tail, slots, todo>> /\ UNCHANGED history
      /\ status = "compiling" /\ todo = <<>>
  BY DEF Finish, place
<1>2. NamesOf("globl")' = NamesOf("globl") /\ Site' = Site
  BY <1>1, NamesStay, SiteStays
<1>3. PICK p \in Sight, r \in Sight : Agrees(p) /\ Shows(Site, Spoilt, todo, p, r)
  BY <1>1 DEF ScopingInv, Onward
<1>4. Recorded' /\ JumpsMade' /\ Spoilt' = Spoilt
  BY <1>1, HistoryStays
<1>5. Agrees(p)'
  <2>1. FrameSlots(p.unit)' = FrameSlots(p.unit) /\ InFrame(p.unit)' = InFrame(p.unit)
    BY <1>1, FramesStay
  <2> QED
    BY <1>1, <1>3, <1>4, <2>1 DEF Agrees
<1>6. Shows(Site, Spoilt, todo, p, r)'
  BY <1>1, <1>2, <1>3, <1>4
<1> QED
  BY <1>1, <1>2, <1>4, <1>5, <1>6 DEF ScopingInv, Onward

LEMMA ConstantSees == ASSUME ScopingInv, Constant, GeneratorInv' PROVE ScopingInv'
<1>1. NextIs("expr") /\ todo' = <<>> \o Tail(todo)
  BY DEF Constant, NextNode, Leads
<1>2. UNCHANGED <<prog, globals, table, slots, tail>> /\ UNCHANGED history
  BY DEF Constant, place
<1>3. Recorded' /\ JumpsMade' /\ Spoilt' = Spoilt /\ Spoilt \subseteq Spoilt'
  BY <1>2, HistoryStays
<1>4. \A p \in Sight : ReadyFor(p, Path) /\ Flies(p, tail, Spoilt) =>
           \E o \in {p, Claiming(p, <<>>)} : Flies(o, tail', Spoilt') /\ Shows(Site, Spoilt', <<>>, o, p)
  BY <1>2, <1>3, ShowsNone
<1> QED
  BY <1>1, <1>2, <1>3, <1>4, ExpressionSees

LEMMA UnarySees == ASSUME ScopingInv, UnaryOperation, GeneratorInv' PROVE ScopingInv'
<1> DEFINE things == <<Kid(Path, 1), SetTail(tail)>>
<1>1. NextIs("expr") /\ Here.kind \in {"unary", "fileop"} /\ todo' = things \o Tail(todo) /\ tail' = 0
  BY DEF UnaryOperation, NextNode, Leads
<1>2. UNCHANGED <<prog, globals, table, slots>> /\ UNCHANGED history
  BY DEF UnaryOperation, place
<1>3. Recorded' /\ JumpsMade' /\ Spoilt' = Spoilt /\ Spoilt \subseteq Spoilt'
  BY <1>2, HistoryStays
<1>4. 1 \in DOMAIN Here.kids
  BY <1>1, KidsHere DEF WellFormed, ScopingInv
<1>5. ASSUME NEW p \in Sight, ReadyFor(p, Path), Flies(p, tail, Spoilt)
      PROVE  \E o \in {p, Claiming(p, <<>>)} : Flies(o, tail', Spoilt') /\ Shows(Site, Spoilt', things, o, p)
  <2> DEFINE low == Claiming(p, <<>>)
  <2>1. /\ IsOpen(p) /\ Now(p) = View(Path) /\ Earlier(Path) \subseteq p.known
        /\ p.claim \in {<<>>, UnitOf(Path)} /\ (Path \in TailPlaces => p.claim = UnitOf(Path))
        /\ low \in Sight /\ IsOpen(low) /\ Now(low) = View(Path) /\ low.known = p.known /\ low.claim = <<>>
        /\ SetTail(tail) \in Thing /\ Sees(Site, Spoilt', SetTail(tail), low, p)
    BY <1>1, <1>3, <1>5, LowSeen
  <2> HIDE DEF low
  <2>2. Kid(Path, 1) \in Thing /\ Sees(Site, Spoilt', Kid(Path, 1), low, low)
    BY <1>1, <1>4, <2>1, PlainKid DEF PassesOn
  <2>3. Shows(Site, Spoilt', things, low, p)
    BY <2>1, <2>2, ShowsTwo
  <2> QED
    BY <2>1, <2>3 DEF low, Flies
<1> HIDE DEF things
<1> QED
  BY <1>1, <1>2, <1>3, <1>5, ExpressionSees

LEMMA BinarySees == ASSUME ScopingInv, BinaryOperation, GeneratorInv' PROVE ScopingInv'
<1> DEFINE things == <<PushIt, LabelIt, Kid(Path, 1), Kid(Path, 2), PopIt, SetTail(tail)>>
<1>1. NextIs("expr") /\ Here.kind = "binary" /\ todo' = things \o Tail(todo) /\ tail' = 0
  BY DEF BinaryOperation, NextNode, Leads
<1>2. UNCHANGED <<prog, globals, table, slots>> /\ UNCHANGED history
  BY DEF BinaryOperation, place
<1>3. Recorded' /\ JumpsMade' /\ Spoilt' = Spoilt /\ Spoilt \subseteq Spoilt'
  BY <1>2, HistoryStays
<1>4. 1 \in DOMAIN Here.kids /\ 2 \in DOMAIN Here.kids
  BY <1>1, KidsHere DEF WellFormed, ScopingInv
<1>5. ASSUME NEW p \in Sight, ReadyFor(p, Path), Flies(p, tail, Spoilt)
      PROVE  \E o \in {p, Claiming(p, <<>>)} : Flies(o, tail', Spoilt') /\ Shows(Site, Spoilt', things, o, p)
  <2> DEFINE low == Claiming(p, <<>>)
             deep == Within(low, View(Path))
  <2>1. /\ Earlier(Path) \subseteq p.known /\ View(Path) \in Views
        /\ low \in Sight /\ IsOpen(low) /\ Now(low) = View(Path) /\ low.known = p.known /\ low.claim = <<>>
        /\ SetTail(tail) \in Thing /\ Sees(Site, Spoilt', SetTail(tail), low, p)
    BY <1>1, <1>3, <1>5, LowSeen
  <2> HIDE DEF low
  <2>2. /\ deep \in Sight /\ IsOpen(deep) /\ Now(deep) = View(Path) /\ deep.known = p.known /\ deep.claim = <<>>
    BY <2>1, WithinTyped
  <2>3. /\ PushIt \in Thing /\ PopIt \in Thing /\ LabelIt \in Thing
        /\ Sees(Site, Spoilt', PushIt, low, deep) /\ Sees(Site, Spoilt', PopIt, deep, low)
    BY <2>1, SightMoves
  <2> HIDE DEF deep
  <2>4. Sees(Site, Spoilt', LabelIt, deep, deep)
    BY <2>2, SightMoves
  <2>5. \A k \in {1, 2} : Kid(Path, k) \in Thing /\ Sees(Site, Spoilt', Kid(Path, k), deep, deep)
    BY <1>1, <1>4, <2>1, <2>2, PlainKid DEF PassesOn
  <2>6. Shows(Site, Spoilt', <<PushIt, LabelIt, Kid(Path, 1)>>, low, deep)
    BY <2>1, <2>2, <2>3, <2>4, <2>5, ShowsThree
  <2>7. Shows(Site, Spoilt', <<Kid(Path, 2), PopIt, SetTail(tail)>>, deep, p)
    BY <1>5, <2>1, <2>2, <2>3, <2>5, ShowsThree
  <2>8. things = <<PushIt, LabelIt, Kid(Path, 1)>> \o <<Kid(Path, 2), PopIt, SetTail(tail)>>
    OBVIOUS
  <2>9. Shows(Site, Spoilt', things, low, p)
    <3> HIDE DEF things
    <3> QED
      BY <2>6, <2>7, <2>8, ShowsBoth
  <2> QED
    BY <2>1, <2>9 DEF low, Flies
<1> HIDE DEF things
<1> QED
  BY <1>1, <1>2, <1>3, <1>5, ExpressionSees

LEMMA IfSees == ASSUME ScopingInv, If, GeneratorInv' PROVE ScopingInv'
<1> DEFINE things == <<Kid(Path, 1), SetTail(tail), Kid(Path, 3), Kid(Path, 2)>>
<1>1. NextIs("expr") /\ Here.kind = "ifexp" /\ todo' = things \o Tail(todo) /\ tail' = 0
  BY DEF If, NextNode, Leads
<1>2. UNCHANGED <<prog, globals, table, slots>> /\ UNCHANGED history
  BY DEF If, place
<1>3. Recorded' /\ JumpsMade' /\ Spoilt' = Spoilt /\ Spoilt \subseteq Spoilt'
  BY <1>2, HistoryStays
<1>4. 1 \in DOMAIN Here.kids /\ 2 \in DOMAIN Here.kids /\ 3 \in DOMAIN Here.kids
  BY <1>1, KidsHere DEF WellFormed, ScopingInv
<1>5. ASSUME NEW p \in Sight, ReadyFor(p, Path), Flies(p, tail, Spoilt)
      PROVE  \E o \in {p, Claiming(p, <<>>)} : Flies(o, tail', Spoilt') /\ Shows(Site, Spoilt', things, o, p)
  <2> DEFINE low == Claiming(p, <<>>)
  <2>1. /\ IsOpen(p) /\ Now(p) = View(Path) /\ Earlier(Path) \subseteq p.known
        /\ p.claim \in {<<>>, UnitOf(Path)} /\ (Path \in TailPlaces => p.claim = UnitOf(Path))
        /\ low \in Sight /\ IsOpen(low) /\ Now(low) = View(Path) /\ low.known = p.known /\ low.claim = <<>>
        /\ SetTail(tail) \in Thing /\ Sees(Site, Spoilt', SetTail(tail), low, p)
    BY <1>1, <1>3, <1>5, LowSeen
  <2> HIDE DEF low
  <2>2. Kid(Path, 1) \in Thing /\ Sees(Site, Spoilt', Kid(Path, 1), low, low)
    BY <1>1, <1>4, <2>1, PlainKid DEF PassesOn
  <2>3. \A k \in {2, 3} : Kid(Path, k) \in Thing /\ Sees(Site, Spoilt', Kid(Path, k), p, p)
    BY <1>1, <1>4, <2>1, PlainKid
  <2>4. Shows(Site, Spoilt', things, low, p)
    BY <2>1, <2>2, <2>3, ShowsFour
  <2> QED
    BY <2>1, <2>4 DEF low, Flies
<1> HIDE DEF things
<1> QED
  BY <1>1, <1>2, <1>3, <1>5, ExpressionSees

LEMMA SequenceSees == ASSUME ScopingInv, Sequence, GeneratorInv' PROVE ScopingInv'
<1> DEFINE things == <<Kid(Path, 1), SetTail(tail), Kid(Path, 2)>>
<1>1. NextIs("expr") /\ Here.kind = "multi" /\ todo' = things \o Tail(todo) /\ tail' = 0
  BY DEF Sequence, NextNode, Leads
<1>2. UNCHANGED <<prog, globals, table, slots>> /\ UNCHANGED history
  BY DEF Sequence, place
<1>3. Recorded' /\ JumpsMade' /\ Spoilt' = Spoilt /\ Spoilt \subseteq Spoilt'
  BY <1>2, HistoryStays
<1>4. 1 \in DOMAIN Here.kids /\ 2 \in DOMAIN Here.kids
  BY <1>1, KidsHere DEF WellFormed, ScopingInv
<1>5. ASSUME NEW p \in Sight, ReadyFor(p, Path), Flies(p, tail, Spoilt)
      PROVE  \E o \in {p, Claiming(p, <<>>)} : Flies(o, tail', Spoilt') /\ Shows(Site, Spoilt', things, o, p)
  <2> DEFINE low == Claiming(p, <<>>)
  <2>1. /\ IsOpen(p) /\ Now(p) = View(Path) /\ Earlier(Path) \subseteq p.known
        /\ p.claim \in {<<>>, UnitOf(Path)} /\ (Path \in TailPlaces => p.claim = UnitOf(Path))
        /\ low \in Sight /\ IsOpen(low) /\ Now(low) = View(Path) /\ low.known = p.known /\ low.claim = <<>>
        /\ SetTail(tail) \in Thing /\ Sees(Site, Spoilt', SetTail(tail), low, p)
    BY <1>1, <1>3, <1>5, LowSeen
  <2> HIDE DEF low
  <2>2. Kid(Path, 1) \in Thing /\ Sees(Site, Spoilt', Kid(Path, 1), low, low)
    BY <1>1, <1>4, <2>1, PlainKid DEF PassesOn
  <2>3. Kid(Path, 2) \in Thing /\ Sees(Site, Spoilt', Kid(Path, 2), p, p)
    BY <1>1, <1>4, <2>1, PlainKid
  <2>4. Shows(Site, Spoilt', things, low, p)
    BY <2>1, <2>2, <2>3, ShowsThree
  <2> QED
    BY <2>1, <2>4 DEF low, Flies
<1> HIDE DEF things
<1> QED
  BY <1>1, <1>2, <1>3, <1>5, ExpressionSees

LEMMA CondSees == ASSUME ScopingInv, CondStep, GeneratorInv' PROVE ScopingInv'
<1> DEFINE Clause(i) == <<SetTail(0), Kid(Path, 2 * i - 1), SetTail(tail), Kid(Path, 2 * i)>>
           clauses == [i \in 1 .. Len(Here.kids) \div 2 |-> Clause(i)]
           last == <<Kid(Path, Len(Here.kids))>>
           things == FlattenSeq(clauses) \o last
<1>1. NextIs("expr") /\ todo' = things \o Tail(todo) /\ Here.kind = "conde"
  BY DEF CondStep, NextNode, Leads
<1>2. UNCHANGED <<prog, globals, table, slots, tail>> /\ UNCHANGED history
  BY DEF CondStep, place
<1>3. Recorded' /\ JumpsMade' /\ Spoilt' = Spoilt /\ Spoilt \subseteq Spoilt'
  BY <1>2, HistoryStays
<1>4. Len(Here.kids) \in Nat /\ Len(Here.kids) % 2 = 1 /\ DOMAIN Here.kids = 1 .. Len(Here.kids)
  BY <1>1, KidsHere DEF WellFormed, ScopingInv
<1> DEFINE n == Len(Here.kids)
           half == n \div 2
<1>5. n \in Nat /\ half \in Nat /\ n \in DOMAIN Here.kids
  BY <1>4, Halves
<1>6. ASSUME NEW i \in 1 .. half
      PROVE  2 * i - 1 \in DOMAIN Here.kids /\ 2 * i \in DOMAIN Here.kids
             /\ ~PassesOn(Here, 2 * i - 1)
  <2>1. 2 * i - 1 \in DOMAIN Here.kids /\ 2 * i \in DOMAIN Here.kids
    BY <1>4, Halves
  <2>2. (2 * i - 1) % 2 # 0 /\ 2 * i - 1 # n
    <3>1. i \in Nat
      BY <1>5
    <3>2. n \in Nat /\ n % 2 = 1
      BY <1>4
    <3> HIDE DEF n
    <3>3. n = 2 * half + 1
      BY <3>2
    <3> HIDE DEF half
    <3> QED
      BY <1>5, <3>1, <3>3
  <2> QED
    BY <1>1, <2>1, <2>2 DEF PassesOn
<1> HIDE DEF n, half
<1>7. ASSUME NEW p \in Sight, ReadyFor(p, Path), Flies(p, tail, Spoilt)
      PROVE  \E o \in {p, Claiming(p, <<>>)} : Flies(o, tail', Spoilt') /\ Shows(Site, Spoilt', things, o, p)
  <2> DEFINE low == Claiming(p, <<>>)
  <2>1. /\ IsOpen(p) /\ Now(p) = View(Path) /\ Earlier(Path) \subseteq p.known
        /\ p.claim \in {<<>>, UnitOf(Path)} /\ (Path \in TailPlaces => p.claim = UnitOf(Path))
        /\ low \in Sight /\ IsOpen(low) /\ Now(low) = View(Path) /\ low.known = p.known /\ low.claim = <<>>
        /\ SetTail(tail) \in Thing /\ Sees(Site, Spoilt', SetTail(tail), low, p)
        /\ SetTail(0) \in Thing /\ Sees(Site, Spoilt', SetTail(0), p, low)
    BY <1>1, <1>3, <1>7, LowSeen
  <2> HIDE DEF low
  <2>2. ASSUME NEW i \in 1 .. half PROVE Shows(Site, Spoilt', Clause(i), p, p)
    <3>1. Kid(Path, 2 * i - 1) \in Thing /\ Sees(Site, Spoilt', Kid(Path, 2 * i - 1), low, low)
      BY <1>1, <1>6, <2>1, PlainKid
    <3>2. Kid(Path, 2 * i) \in Thing /\ Sees(Site, Spoilt', Kid(Path, 2 * i), p, p)
      BY <1>1, <1>6, <1>7, <2>1, PlainKid
    <3> QED
      BY <1>7, <2>1, <3>1, <3>2, ShowsFour
  <2>3. clauses = [i \in 1 .. half |-> clauses[i]] /\ \A i \in 1 .. half : clauses[i] = Clause(i)
    BY DEF half, n
  <2> HIDE DEF clauses, Clause
  <2>4. Shows(Site, Spoilt', FlattenSeq(clauses), p, p)
    <3> DEFINE h == [i \in 0 .. half |-> p]
    <3>1. h \in [0 .. half -> Sight] /\ h[0] = p /\ h[half] = p
      BY <1>5, <1>7
    <3>2. \A i \in 1 .. half : h[i - 1] = p /\ h[i] = p
      BY <1>5
    <3> HIDE DEF h
    <3>3. \A i \in 1 .. half : Shows(Site, Spoilt', clauses[i], h[i - 1], h[i])
      BY <2>2, <2>3, <3>2
    <3>4. Shows(Site, Spoilt', FlattenSeq(clauses), h[0], h[half])
      BY <1>5, <2>3, <3>1, <3>3, ShowsFlat
    <3> QED
      BY <3>1, <3>4
  <2>5. Kid(Path, n) \in Thing /\ Sees(Site, Spoilt', Kid(Path, n), p, p)
    BY <1>1, <1>5, <1>7, <2>1, PlainKid
  <2>6. Shows(Site, Spoilt', last, p, p)
    BY <1>7, <2>5, ShowsOne DEF n
  <2> HIDE DEF last
  <2>7. Shows(Site, Spoilt', things, p, p)
    BY <2>4, <2>6, ShowsBoth
  <2> QED
    BY <1>2, <1>3, <1>7, <2>7
<1> HIDE DEF things
<1> QED
  BY <1>1, <1>2, <1>3, <1>7, ExpressionSees

LEMMA LetSees == ASSUME ScopingInv, LetStep, GeneratorInv' PROVE ScopingInv'
<1> DEFINE Clause(i) == <<BindIt(Path, Here.names[i], i), Kid(Path, i)>>
           clauses == [i \in DOMAIN Here.names |-> Clause(i)]
           ending == <<SetTail(tail), Kid(Path, Len(Here.kids)), PopIt>>
           things == <<PushIt>> \o FlattenSeq(clauses) \o ending
<1>1. NextIs("expr") /\ todo' = things \o Tail(todo) /\ Here.kind = "letex"
  BY DEF LetStep, NextNode, Leads
<1>2. UNCHANGED <<prog, globals, table, slots>> /\ UNCHANGED history /\ tail' = 0
  BY DEF LetStep, place
<1>3. Recorded' /\ JumpsMade' /\ Spoilt' = Spoilt /\ Spoilt \subseteq Spoilt'
  BY <1>2, HistoryStays
<1> DEFINE n == Len(Here.names)
<1>4. /\ Len(Here.kids) = n + 1 /\ DOMAIN Here.kids = 1 .. n + 1
      /\ Here.names \in Seq(Names) /\ Here = NodeAt(Path) /\ Path \in Nodes /\ Path \in Seq(Nat)
      /\ prog \in Programs
  BY <1>1, KidsHere, ExprHere DEF WellFormed, ScopingInv
<1>5. n \in Nat /\ DOMAIN Here.names = 1 .. n /\ Here.names \in Seq(Visible)
  <2>1. Temporary \notin ToSet(Here.names)
    BY <1>4, NodeTyped
  <2>2. n \in Nat /\ DOMAIN Here.names = 1 .. n /\ \A i \in 1 .. n : Here.names[i] \in Names
    BY <1>4, LenProperties, ElementOfSeq
  <2>3. \A i \in 1 .. n : Here.names[i] \in Visible
    BY <2>1, <2>2 DEF Visible, ToSet
  <2> QED
    BY <1>4, <2>2, <2>3
<1> DEFINE V(i) == Binding(Path, Here.names, i, View(Path))
<1>6. \A i \in 0 .. n : V(i) \in Views
  BY <1>4, ViewsTyped, BindingTyped
<1>7. /\ V(0) = View(Path)
      /\ \A i \in 1 .. n : i \in DOMAIN Here.kids /\ i \in Nat /\ View(Append(Path, i)) = V(i)
                           /\ ~PassesOn(Here, i)
      /\ n + 1 \in DOMAIN Here.kids /\ View(Append(Path, n + 1)) = V(n)
  <2>1. View(Path) = [name \in Visible |-> View(Path)[name]]
    BY DEF View
  <2>2. V(0) = View(Path)
    BY <2>1, BindingStarts
  <2>3. ASSUME NEW k \in DOMAIN Here.kids
        PROVE  View(Append(Path, k)) = V(IF k <= n THEN k ELSE n)
    BY <1>1, <1>4, ViewOfKid
  <2>4. ~(n + 1 <= n) /\ n + 1 \in DOMAIN Here.kids
    BY <1>4, <1>5
  <2>5. View(Append(Path, n + 1)) = V(n)
    BY <2>3, <2>4
  <2>6. ASSUME NEW i \in 1 .. n
        PROVE  i \in DOMAIN Here.kids /\ i \in Nat /\ View(Append(Path, i)) = V(i) /\ ~PassesOn(Here, i)
    <3>1. i \in DOMAIN Here.kids /\ i \in Nat /\ i <= n /\ i # Len(Here.kids)
      BY <1>4, <1>5
    <3>2. ~PassesOn(Here, i)
      BY <1>1, <3>1 DEF PassesOn
    <3> QED
      BY <2>3, <3>1, <3>2
  <2> QED
    BY <2>2, <2>4, <2>5, <2>6
<1> HIDE DEF n, V
<1>8. ASSUME NEW p \in Sight, ReadyFor(p, Path), Flies(p, tail, Spoilt)
      PROVE  \E o \in {p, Claiming(p, <<>>)} : Flies(o, tail', Spoilt') /\ Shows(Site, Spoilt', things, o, p)
  <2> DEFINE low == Claiming(p, <<>>)
  <2>1. /\ IsOpen(p) /\ Now(p) = View(Path) /\ Earlier(Path) \subseteq p.known
        /\ p.claim \in {<<>>, UnitOf(Path)} /\ (Path \in TailPlaces => p.claim = UnitOf(Path))
        /\ p.claim \in Seq(Nat) /\ View(Path) \in Views
        /\ low \in Sight /\ IsOpen(low) /\ Now(low) = View(Path) /\ low.known = p.known /\ low.claim = <<>>
        /\ Claiming(low, p.claim) = p /\ tail \in {0, 1} /\ (tail # 1 => p.claim = <<>> \/ p.claim \in Spoilt')
    BY <1>1, <1>3, <1>8, LowSeen
  <2> HIDE DEF low
  <2> DEFINE h == [i \in 0 .. n |-> Within(low, V(i))]
             high == Within(p, V(n))
  <2>2. /\ \A i \in 0 .. n : h[i] = Within(low, V(i)) /\ h[i] \in Sight /\ IsOpen(h[i])
                             /\ Now(h[i]) = V(i) /\ h[i].known = p.known /\ h[i].claim = <<>>
        /\ h \in [0 .. n -> Sight] /\ 0 \in 0 .. n /\ n \in 0 .. n
    <3>1. \A i \in 0 .. n : h[i] = Within(low, V(i))
      OBVIOUS
    <3>2. \A i \in 0 .. n : h[i] \in Sight /\ IsOpen(h[i]) /\ Now(h[i]) = V(i) /\ h[i].known = p.known
                            /\ h[i].claim = <<>>
      <4> HIDE DEF h
      <4> QED
        BY <1>6, <2>1, <3>1, WithinTyped
    <3>3. h \in [0 .. n -> Sight]
      BY <3>2
    <3> QED
      BY <1>5, <3>1, <3>2, <3>3
  <2>3. high \in Sight /\ IsOpen(high) /\ Now(high) = V(n) /\ high.known = p.known /\ high.claim = p.claim
    BY <1>6, <1>8, <2>1, <2>2, WithinTyped
  <2>4. PushIt \in Thing /\ PopIt \in Thing /\ Sees(Site, Spoilt', PushIt, low, h[0])
        /\ Sees(Site, Spoilt', PopIt, high, p)
    BY <1>6, <1>7, <1>8, <2>1, <2>2, SightMoves
  <2>5. SetTail(tail) \in Thing /\ Sees(Site, Spoilt', SetTail(tail), h[n], high)
    <3> DEFINE c == p.claim
               o == h[n]
    <3>1. c \in Seq(Nat) /\ (c = <<>> \/ tail = 1 \/ c \in Spoilt')
      BY <2>1
    <3>2. Claiming(h[n], c) = high
      <4>1. Claiming(Within(low, V(n)), c) = Within(Claiming(low, c), V(n))
        <5> HIDE DEF c
        <5> QED
          BY <1>6, <2>1, <2>2, <3>1, ClaimingWithin
      <4> QED
        BY <2>1, <2>2, <4>1
    <3>3. o \in Sight /\ IsOpen(o)
      BY <2>2
    <3> HIDE DEF c, o
    <3>4. SetTail(tail) \in Thing /\ Sees(Site, Spoilt', SetTail(tail), o, Claiming(o, c))
      BY <2>1, <3>1, <3>3, SightTail
    <3> QED
      BY <3>2, <3>4 DEF o
  <2>6. Kid(Path, n + 1) \in Thing /\ Sees(Site, Spoilt', Kid(Path, n + 1), high, high)
    <3> HIDE DEF high
    <3> QED
      BY <1>1, <1>7, <2>1, <2>3, KidOfHere
  <2> HIDE DEF h, high
  <2>7. Shows(Site, Spoilt', ending, h[n], p)
    <3>1. Kid(Path, n + 1) = Kid(Path, Len(Here.kids))
      BY <1>4 DEF n
    <3> QED
      BY <1>8, <2>2, <2>3, <2>4, <2>5, <2>6, <3>1, ShowsThree
  <2>8. ASSUME NEW i \in 1 .. n PROVE Shows(Site, Spoilt', Clause(i), h[i - 1], h[i])
    <3>1. BindIt(Path, Here.names[i], i) \in Thing
          /\ Sees(Site, Spoilt', BindIt(Path, Here.names[i], i), h[i - 1], h[i])
      <4> DEFINE names == Here.names
                 at == Path
                 view == View(Path)
      <4>1. names \in Seq(Visible) /\ at \in Seq(Nat) /\ view \in Views /\ i \in 1 .. Len(names)
        BY <1>4, <1>5, <2>1 DEF n
      <4>2. /\ h[i - 1] = Within(low, Binding(at, names, i - 1, view))
            /\ h[i] = Within(low, Binding(at, names, i, view))
        <5>1. i - 1 \in 0 .. n /\ i \in 0 .. n
          BY <1>5
        <5> QED
          BY <2>2, <5>1 DEF V
      <4> HIDE DEF names, at, view
      <4>3. LET before == Within(low, Binding(at, names, i - 1, view))
                after  == Within(low, Binding(at, names, i, view))
            IN  /\ BindIt(at, names[i], i) \in Thing /\ before \in Sight /\ after \in Sight
                /\ Sees(Site, Spoilt', BindIt(at, names[i], i), before, after)
        BY <2>1, <4>1, BindingSeen
      <4> QED
        BY <4>2, <4>3 DEF names, at
    <3>2. h[i] \in Sight /\ h[i - 1] \in Sight /\ IsOpen(h[i]) /\ Now(h[i]) = V(i) /\ h[i].known = p.known
          /\ h[i].claim = <<>>
      <4>1. i - 1 \in 0 .. n /\ i \in 0 .. n
        BY <1>5
      <4> QED
        BY <2>2, <4>1
    <3>3. Kid(Path, i) \in Thing /\ Sees(Site, Spoilt', Kid(Path, i), h[i], h[i])
      <4> DEFINE o == h[i]
      <4>1. o \in Sight /\ IsOpen(o) /\ Now(o) = View(Append(Path, i)) /\ Earlier(Path) \subseteq o.known
            /\ o.claim \in {<<>>, UnitOf(Path)}
        BY <1>7, <2>1, <3>2
      <4> HIDE DEF o
      <4>2. Kid(Path, i) \in Thing /\ Sees(Site, Spoilt', Kid(Path, i), o, o)
        BY <1>1, <1>7, <4>1, KidOfHere
      <4> QED
        BY <4>2 DEF o
    <3> QED
      BY <3>1, <3>2, <3>3, ShowsTwo
  <2>9. clauses = [i \in 1 .. n |-> clauses[i]] /\ \A i \in 1 .. n : clauses[i] = Clause(i)
    BY <1>5
  <2> HIDE DEF clauses, Clause, ending
  <2>10. Shows(Site, Spoilt', FlattenSeq(clauses), h[0], h[n])
    BY <1>5, <2>2, <2>8, <2>9, ShowsFlat
  <2>11. Shows(Site, Spoilt', <<PushIt>>, low, h[0])
    BY <2>1, <2>2, <2>4, ShowsOne
  <2>12. Shows(Site, Spoilt', <<PushIt>> \o FlattenSeq(clauses), low, h[n])
    BY <2>10, <2>11, ShowsBoth
  <2>13. Shows(Site, Spoilt', things, low, p)
    BY <2>7, <2>12, ShowsBoth
  <2> QED
    BY <2>1, <2>13 DEF low, Flies
<1> HIDE DEF things
<1> QED
  BY <1>1, <1>2, <1>3, <1>8, ExpressionSees
-----------------------------------------------------------------------------
(* What is found, and recorded.                                            *)

LEMMA SlotIs ==
  ASSUME ScopingInv, NextIs("expr"), NEW name \in Visible
  PROVE  LET slot == Lookup(table, name)
         IN  IF slot = NotFound THEN Local(Path, name) = Unbound
             ELSE \/ slots[slot] = Local(Path, name) /\ Local(Path, name) \in Words
                  \/ name \in Labels /\ slots[slot] = Temp
<1>1. PICK p \in Sight, r \in Sight : Agrees(p) /\ ReadyFor(p, Path)
  BY ExprHere
<1>2. IsOpen(p) /\ Now(p) = View(Path) /\ AllRead(table.scopes, slots, p.seen)
  BY <1>1 DEF ReadyFor, Agrees
<1>3. Now(p)[name] = Local(Path, name)
  BY <1>2, ExprHere, ViewsTyped
<1>4. TableInv
  BY DEF ScopingInv, GeneratorInv
<1> DEFINE slot == Lookup(table, name)
<1>5. IF slot = NotFound THEN Now(p)[name] = Unbound
      ELSE Shown(slots[slot], Now(p), name)
  BY <1>2, <1>4, LookedUp DEF Now
<1> HIDE DEF slot
<1>6. IF slot = NotFound THEN Local(Path, name) = Unbound
      ELSE \/ slots[slot] = Local(Path, name) /\ Local(Path, name) \in Words
           \/ name \in Labels /\ slots[slot] = Temp
  BY <1>3, <1>5 DEF Shown
<1> QED
  BY <1>6 DEF slot

LEMMA ReadIs ==
  ASSUME ScopingInv, NextIs("expr"), NEW name \in Visible, ~(name \in Labels /\ Read(name) = Temp)
  PROVE  /\ Local(Path, name) # Unbound => Read(name) = Local(Path, name) /\ Read(name) \in Words
         /\ Local(Path, name) = Unbound =>
              /\ name \in Defined => Read(name) = Definition
              /\ name \notin Defined /\ name \in globals => Read(name) = Global
              /\ name \notin Defined /\ name \notin globals => Read(name) = Unbound
<1> DEFINE slot == Lookup(table, name)
<1>1. IF slot = NotFound THEN Local(Path, name) = Unbound
      ELSE \/ slots[slot] = Local(Path, name) /\ Local(Path, name) \in Words
           \/ name \in Labels /\ slots[slot] = Temp
  BY SlotIs
<1>2. Read(name) = IF slot # NotFound THEN slots[slot]
                   ELSE IF name \in Defined THEN Definition
                   ELSE IF name \in globals THEN Global ELSE Unbound
  BY Zenon DEF Read
<1> HIDE DEF slot
<1> QED
  BY <1>1, <1>2, WordsAre

(* The name of a reference is one that a program may have.                 *)
LEMMA NameHere ==
  ASSUME ScopingInv, NextIs("expr"), Here.kind \in {"varbl", "callf", "mutst"}
  PROVE  Here.name \in Visible /\ Path \in References
<1>1. Path \in Nodes /\ Here = NodeAt(Path) /\ prog \in Programs
  BY ExprHere
<1>2. Here.name \in Names /\ Here.name # Temporary
  BY <1>1, NodeTyped
<1> QED
  BY <1>1, <1>2 DEF Visible, References, OfKind

(* What is found of a reference is recorded.                               *)
LEMMA FoundAdded ==
  ASSUME ScopingInv, prog' = prog, captured' = captured, NEW p \in References,
         NEW word, Noted(word, p), found' = With(found, p, word)
  PROVE  /\ Recorded' /\ Spoilt \subseteq Spoilt'
         /\ NodeAt(p).kind = "mutst" /\ word = Global => UnitOf(p) \in Spoilt'
<1>1. /\ DOMAIN found' = DOMAIN found \cup {p} /\ found'[p] = word
      /\ \A q \in DOMAIN found : q # p => found'[q] = found[q]
  BY DEF With
<1>2. /\ \A q \in DOMAIN found : q \in References /\ Noted(found[q], q)
      /\ \A l \in DOMAIN captured : l \in ToSet(AllLambdas) /\ Recalls(captured[l], l)
  BY DEF ScopingInv, Recorded
<1>3. \A q \in DOMAIN found' : q \in References /\ Noted(found'[q], q)
  BY <1>1, <1>2
<1>4. /\ References' = References /\ ToSet(AllLambdas)' = ToSet(AllLambdas)
      /\ \A q : NodeAt(q)' = NodeAt(q) /\ UnitOf(q)' = UnitOf(q)
  BY NodesStay, LambdasStay
<1>5. Recorded'
  BY <1>2, <1>3, <1>4, NotedStay DEF Recorded
<1>6. ASSUME NEW q PROVE Spoils(q)' <=> /\ NodeAt(q).kind = "mutst"
                                         /\ \/ found'[q] = Global
                                            \/ NodeAt(q).name \in Labels \cap NamesOf("globl")
  BY <1>4, NamesStay DEF Spoils, Global, Held
<1>7. Spoilt \subseteq Spoilt'
  <2>1. ASSUME NEW q \in DOMAIN found, Spoils(q) PROVE Spoils(q)'
    <3>1. CASE q # p
      BY <1>1, <1>6, <2>1, <3>1 DEF Spoils
    <3>2. CASE q = p /\ found[p] = Global
      <4>1. Noted(Global, p) /\ Global # Temp
        BY <1>2, <3>2, TempIs
      <4>2. Expected(p) = Global /\ NodeAt(p).name \in NamesOf("globl")
        BY <4>1 DEF Noted, MayBeGlobal
      <4>3. found'[p] = Global \/ NodeAt(p).name \in Labels
        BY <1>1, <4>2 DEF Noted
      <4> QED
        BY <1>6, <2>1, <3>2, <4>2, <4>3 DEF Spoils
    <3>3. CASE q = p /\ found[p] # Global
      BY <1>6, <2>1, <3>3 DEF Spoils
    <3> QED
      BY <3>1, <3>2, <3>3
  <2>2. DOMAIN found \subseteq DOMAIN found'
    BY <1>1
  <2> QED
    BY <1>4, <2>1, <2>2 DEF Spoilt
<1>8. NodeAt(p).kind = "mutst" /\ word = Global => UnitOf(p) \in Spoilt'
  <2> SUFFICES ASSUME NodeAt(p).kind = "mutst", word = Global PROVE UnitOf(p) \in Spoilt'
    OBVIOUS
  <2>1. Spoils(p)' /\ p \in DOMAIN found'
    BY <1>1, <1>6
  <2> QED
    BY <1>4, <2>1 DEF Spoilt
<1> QED
  BY <1>5, <1>7, <1>8

(* A procedure is made, or looked at, in a scope of its own.               *)
LEMMA ShowsDetour ==
  ASSUME NEW w, NEW s, NEW p \in Sight, IsOpen(p)
  PROVE  /\ Shows(w, s, <<PushIt, TempIt, PopIt>>, p, p)
         /\ Shows(w, s, <<PushIt, TempIt, TempIt, PopIt>>, p, p)
<1> DEFINE deep == Within(p, Now(p))
<1>1. /\ PushIt \in Thing /\ PopIt \in Thing /\ TempIt \in Thing
      /\ Sees(w, s, PushIt, p, deep) /\ Sees(w, s, PopIt, deep, p) /\ deep \in Sight /\ IsOpen(deep)
  BY SightMoves, OpenParts
<1> HIDE DEF deep
<1>2. Sees(w, s, TempIt, deep, deep)
  BY <1>1, SightMoves
<1> QED
  BY <1>1, <1>2, ShowsThree, ShowsFour

(* Strings: their temporaries change nothing that is seen.                 *)
LEMMA DetourSees ==
  ASSUME ScopingInv, NextIs("expr"), NEW things, todo' = things \o Tail(todo),
         UNCHANGED <<prog, globals, table, slots, tail>>, UNCHANGED history, GeneratorInv',
         \A p \in Sight : \A s : IsOpen(p) => Shows(Site, s, things, p, p)
  PROVE  ScopingInv'
<1>1. Recorded' /\ JumpsMade' /\ Spoilt' = Spoilt /\ Spoilt \subseteq Spoilt'
  BY HistoryStays
<1>2. ASSUME NEW p \in Sight, ReadyFor(p, Path), Flies(p, tail, Spoilt)
      PROVE  \E o \in {p, Claiming(p, <<>>)} : Flies(o, tail', Spoilt') /\ Shows(Site, Spoilt', things, o, p)
  <2>1. Shows(Site, Spoilt', things, p, p) /\ Flies(p, tail', Spoilt')
    BY <1>1, <1>2 DEF ReadyFor
  <2> QED
    BY <2>1
<1> QED
  BY <1>1, <1>2, ExpressionSees

LEMMA StringSees == ASSUME ScopingInv, String, GeneratorInv' PROVE ScopingInv'
<1> DEFINE things == <<PushIt, TempIt, PopIt>>
<1>1. NextIs("expr") /\ todo' = things \o Tail(todo)
  BY DEF String, NextNode, Leads
<1>2. UNCHANGED <<prog, globals, table, slots, tail>> /\ UNCHANGED history
  BY DEF String, place
<1>3. \A p \in Sight : \A s : IsOpen(p) => Shows(Site, s, things, p, p)
  BY ShowsDetour
<1> HIDE DEF things
<1> QED
  BY <1>1, <1>2, <1>3, DetourSees

LEMMA QuotedStringSees == ASSUME ScopingInv, QuotedString, GeneratorInv' PROVE ScopingInv'
<1> DEFINE things == <<PushIt, TempIt, PushIt, TempIt, PopIt, PopIt>>
<1>1. NextIs("expr") /\ todo' = things \o Tail(todo)
  BY DEF QuotedString, NextNode, Leads
<1>2. UNCHANGED <<prog, globals, table, slots, tail>> /\ UNCHANGED history
  BY DEF QuotedString, place
<1>3. ASSUME NEW p \in Sight, NEW s, IsOpen(p) PROVE Shows(Site, s, things, p, p)
  <2> DEFINE deep == Within(p, Now(p))
  <2>1. /\ PushIt \in Thing /\ PopIt \in Thing /\ TempIt \in Thing
        /\ Sees(Site, s, PushIt, p, deep) /\ Sees(Site, s, PopIt, deep, p) /\ deep \in Sight /\ IsOpen(deep)
    BY <1>3, SightMoves, OpenParts
  <2> HIDE DEF deep
  <2>2. Sees(Site, s, TempIt, deep, deep) /\ Shows(Site, s, <<PushIt, TempIt, PopIt>>, deep, deep)
    BY <2>1, SightMoves, ShowsDetour
  <2>3. Shows(Site, s, <<PushIt, TempIt>>, p, deep) /\ Shows(Site, s, <<PopIt>>, deep, p)
    BY <1>3, <2>1, <2>2, ShowsOne, ShowsTwo
  <2>4. Shows(Site, s, <<PushIt, TempIt>> \o <<PushIt, TempIt, PopIt>>, p, deep)
    BY <2>2, <2>3, ShowsBoth
  <2>5. Shows(Site, s, (<<PushIt, TempIt>> \o <<PushIt, TempIt, PopIt>>) \o <<PopIt>>, p, p)
    BY <2>3, <2>4, ShowsBoth
  <2>6. things = (<<PushIt, TempIt>> \o <<PushIt, TempIt, PopIt>>) \o <<PopIt>>
    OBVIOUS
  <2> QED
    BY <2>5, <2>6
<1> HIDE DEF things
<1> QED
  BY <1>1, <1>2, <1>3, DetourSees

LEMMA BoxSees == ASSUME ScopingInv, BoxOperation, GeneratorInv' PROVE ScopingInv'
<1> DEFINE things == <<PushIt, TempIt, Kid(Path, 1), PopIt, SetTail(tail)>>
<1>1. NextIs("expr") /\ Here.kind = "boxop" /\ todo' = things \o Tail(todo) /\ tail' = 0
  BY DEF BoxOperation, NextNode, Leads
<1>2. UNCHANGED <<prog, globals, table, slots>> /\ UNCHANGED history
  BY DEF BoxOperation, place
<1>3. Recorded' /\ JumpsMade' /\ Spoilt' = Spoilt /\ Spoilt \subseteq Spoilt'
  BY <1>2, HistoryStays
<1>4. 1 \in DOMAIN Here.kids
  BY <1>1, KidsHere DEF WellFormed, ScopingInv
<1>5. ASSUME NEW p \in Sight, ReadyFor(p, Path), Flies(p, tail, Spoilt)
      PROVE  \E o \in {p, Claiming(p, <<>>)} : Flies(o, tail', Spoilt') /\ Shows(Site, Spoilt', things, o, p)
  <2> DEFINE low == Claiming(p, <<>>)
             deep == Within(low, View(Path))
  <2>1. /\ Earlier(Path) \subseteq p.known /\ View(Path) \in Views
        /\ low \in Sight /\ IsOpen(low) /\ Now(low) = View(Path) /\ low.known = p.known /\ low.claim = <<>>
        /\ SetTail(tail) \in Thing /\ Sees(Site, Spoilt', SetTail(tail), low, p)
    BY <1>1, <1>3, <1>5, LowSeen
  <2> HIDE DEF low
  <2>2. /\ deep \in Sight /\ IsOpen(deep) /\ Now(deep) = View(Path) /\ deep.known = p.known /\ deep.claim = <<>>
    BY <2>1, WithinTyped
  <2>3. /\ PushIt \in Thing /\ PopIt \in Thing /\ TempIt \in Thing
        /\ Sees(Site, Spoilt', PushIt, low, deep) /\ Sees(Site, Spoilt', PopIt, deep, low)
    BY <2>1, SightMoves
  <2> HIDE DEF deep
  <2>4. Sees(Site, Spoilt', TempIt, deep, deep)
    BY <2>2, SightMoves
  <2>5. Kid(Path, 1) \in Thing /\ Sees(Site, Spoilt', Kid(Path, 1), deep, deep)
    BY <1>1, <1>4, <2>1, <2>2, PlainKid DEF PassesOn
  <2>6. Shows(Site, Spoilt', things, low, p)
    BY <1>5, <2>1, <2>2, <2>3, <2>4, <2>5, ShowsFive
  <2> QED
    BY <2>1, <2>6 DEF low, Flies
<1> HIDE DEF things
<1> QED
  BY <1>1, <1>2, <1>3, <1>5, ExpressionSees

LEMMA ConsSees == ASSUME ScopingInv, ConsOperation, GeneratorInv' PROVE ScopingInv'
<1> DEFINE things == <<PushIt, LabelIt, PushIt, TempIt, Kid(Path, 1), Kid(Path, 2), PopIt, PopIt,
                       SetTail(tail)>>
<1>1. NextIs("expr") /\ Here.kind = "cons" /\ todo' = things \o Tail(todo) /\ tail' = 0
  BY DEF ConsOperation, NextNode, Leads
<1>2. UNCHANGED <<prog, globals, table, slots>> /\ UNCHANGED history
  BY DEF ConsOperation, place
<1>3. Recorded' /\ JumpsMade' /\ Spoilt' = Spoilt /\ Spoilt \subseteq Spoilt'
  BY <1>2, HistoryStays
<1>4. 1 \in DOMAIN Here.kids /\ 2 \in DOMAIN Here.kids
  BY <1>1, KidsHere DEF WellFormed, ScopingInv
<1>5. ASSUME NEW p \in Sight, ReadyFor(p, Path), Flies(p, tail, Spoilt)
      PROVE  \E o \in {p, Claiming(p, <<>>)} : Flies(o, tail', Spoilt') /\ Shows(Site, Spoilt', things, o, p)
  <2> DEFINE low == Claiming(p, <<>>)
             deep == Within(low, View(Path))
             deepest == Within(deep, View(Path))
  <2>1. /\ Earlier(Path) \subseteq p.known /\ View(Path) \in Views
        /\ low \in Sight /\ IsOpen(low) /\ Now(low) = View(Path) /\ low.known = p.known /\ low.claim = <<>>
        /\ SetTail(tail) \in Thing /\ Sees(Site, Spoilt', SetTail(tail), low, p)
    BY <1>1, <1>3, <1>5, LowSeen
  <2> HIDE DEF low
  <2>2. /\ deep \in Sight /\ IsOpen(deep) /\ Now(deep) = View(Path) /\ deep.known = p.known /\ deep.claim = <<>>
    BY <2>1, WithinTyped
  <2>3. /\ PushIt \in Thing /\ PopIt \in Thing /\ TempIt \in Thing /\ LabelIt \in Thing
        /\ Sees(Site, Spoilt', PushIt, low, deep) /\ Sees(Site, Spoilt', PopIt, deep, low)
    BY <2>1, SightMoves
  <2> HIDE DEF deep
  <2>4. /\ deepest \in Sight /\ IsOpen(deepest) /\ Now(deepest) = View(Path) /\ deepest.known = p.known
        /\ deepest.claim = <<>>
    BY <2>1, <2>2, WithinTyped
  <2>5. /\ Sees(Site, Spoilt', PushIt, deep, deepest) /\ Sees(Site, Spoilt', PopIt, deepest, deep)
        /\ Sees(Site, Spoilt', LabelIt, deep, deep)
    BY <2>1, <2>2, SightMoves
  <2> HIDE DEF deepest
  <2>6. Sees(Site, Spoilt', TempIt, deepest, deepest)
    BY <2>4, SightMoves
  <2>7. \A k \in {1, 2} : Kid(Path, k) \in Thing /\ Sees(Site, Spoilt', Kid(Path, k), deepest, deepest)
    BY <1>1, <1>4, <2>1, <2>4, PlainKid DEF PassesOn
  <2>8. Shows(Site, Spoilt', <<PushIt, LabelIt, PushIt, TempIt>>, low, deepest)
    BY <2>1, <2>2, <2>3, <2>4, <2>5, <2>6, ShowsFour
  <2>9. Shows(Site, Spoilt', <<Kid(Path, 1), Kid(Path, 2), PopIt, PopIt, SetTail(tail)>>, deepest, p)
    BY <1>5, <2>1, <2>2, <2>3, <2>4, <2>5, <2>7, ShowsFive
  <2>10. things = <<PushIt, LabelIt, PushIt, TempIt>>
                    \o <<Kid(Path, 1), Kid(Path, 2), PopIt, PopIt, SetTail(tail)>>
    OBVIOUS
  <2>11. Shows(Site, Spoilt', things, low, p)
    <3> HIDE DEF things
    <3> QED
      BY <2>8, <2>9, <2>10, ShowsBoth
  <2> QED
    BY <2>1, <2>11 DEF low, Flies
<1> HIDE DEF things
<1> QED
  BY <1>1, <1>2, <1>3, <1>5, ExpressionSees

LEMMA QuotedListSees == ASSUME ScopingInv, QuotedList, GeneratorInv' PROVE ScopingInv'
<1> DEFINE n == Len(Here.kids)
           Also(i) == IF i = 1 THEN <<Kid(Path, n)>> ELSE <<>>
           Round(i) == <<SetTail(0), Kid(Path, n - i)>> \o Also(i) \o <<SetTail(tail)>>
           rounds == [i \in 1 .. n - 1 |-> Round(i)]
           first == <<PushIt, TempIt, PushIt, TempIt, TempIt>>
           last == <<PopIt, PopIt>>
           things == first \o FlattenSeq(rounds) \o last
<1>1. NextIs("expr") /\ todo' = things \o Tail(todo) /\ Here.kind = "cquot"
  BY DEF QuotedList, NextNode, Leads
<1>2. UNCHANGED <<prog, globals, table, slots, tail>> /\ UNCHANGED history
  BY DEF QuotedList, place
<1>3. Recorded' /\ JumpsMade' /\ Spoilt' = Spoilt /\ Spoilt \subseteq Spoilt'
  BY <1>2, HistoryStays
<1>4. n \in Nat /\ n >= 2 /\ DOMAIN Here.kids = 1 .. n
  BY <1>1, KidsHere DEF WellFormed, ScopingInv
<1> HIDE DEF n
<1>5. n - 1 \in Nat /\ n \in DOMAIN Here.kids /\ \A i \in 1 .. n - 1 : n - i \in DOMAIN Here.kids
  BY <1>4
<1>6. ASSUME NEW p \in Sight, ReadyFor(p, Path), Flies(p, tail, Spoilt)
      PROVE  \E o \in {p, Claiming(p, <<>>)} : Flies(o, tail', Spoilt') /\ Shows(Site, Spoilt', things, o, p)
  <2> DEFINE deep == Within(p, View(Path))
             deepest == Within(deep, View(Path))
             low == Claiming(deepest, <<>>)
  <2>1. /\ IsOpen(p) /\ Now(p) = View(Path) /\ Earlier(Path) \subseteq p.known /\ View(Path) \in Views
        /\ p.claim \in {<<>>, UnitOf(Path)} /\ (Path \in TailPlaces => p.claim = UnitOf(Path))
    BY <1>1, <1>3, <1>6, LowSeen
  <2>2. /\ deep \in Sight /\ IsOpen(deep) /\ Now(deep) = View(Path) /\ deep.known = p.known
        /\ deep.claim = p.claim
    BY <1>6, <2>1, WithinTyped
  <2>3. /\ PushIt \in Thing /\ PopIt \in Thing /\ TempIt \in Thing
        /\ Sees(Site, Spoilt', PushIt, p, deep) /\ Sees(Site, Spoilt', PopIt, deep, p)
    BY <1>6, <2>1, SightMoves
  <2> HIDE DEF deep
  <2>4. /\ deepest \in Sight /\ IsOpen(deepest) /\ Now(deepest) = View(Path) /\ deepest.known = p.known
        /\ deepest.claim = p.claim
    BY <2>1, <2>2, WithinTyped
  <2>5. /\ Sees(Site, Spoilt', PushIt, deep, deepest) /\ Sees(Site, Spoilt', PopIt, deepest, deep)
        /\ Sees(Site, Spoilt', TempIt, deep, deep)
    BY <2>1, <2>2, SightMoves
  <2> HIDE DEF deepest
  <2>6. Sees(Site, Spoilt', TempIt, deepest, deepest)
    BY <2>4, SightMoves
  <2>7. ReadyFor(deepest, Path) /\ Flies(deepest, tail, Spoilt)
    BY <1>6, <2>1, <2>4 DEF ReadyFor, Flies
  <2>8. /\ low \in Sight /\ IsOpen(low) /\ Now(low) = View(Path) /\ low.known = p.known /\ low.claim = <<>>
        /\ SetTail(tail) \in Thing /\ Sees(Site, Spoilt', SetTail(tail), low, deepest)
        /\ SetTail(0) \in Thing /\ Sees(Site, Spoilt', SetTail(0), deepest, low)
    BY <1>1, <1>3, <2>4, <2>7, LowSeen
  <2> HIDE DEF low
  <2>9. Shows(Site, Spoilt', first, p, deepest)
    BY <1>6, <2>2, <2>3, <2>4, <2>5, <2>6, ShowsFive
  <2>10. Shows(Site, Spoilt', last, deepest, p)
    BY <1>6, <2>2, <2>3, <2>4, <2>5, ShowsTwo
  <2>11. \A k \in DOMAIN Here.kids :
           Kid(Path, k) \in Thing /\ Sees(Site, Spoilt', Kid(Path, k), low, low)
    BY <1>1, <2>1, <2>8, PlainKid DEF PassesOn
  <2>12. ASSUME NEW i \in 1 .. n - 1 PROVE Shows(Site, Spoilt', Round(i), deepest, deepest)
    <3>1. Shows(Site, Spoilt', <<SetTail(0), Kid(Path, n - i)>>, deepest, low)
      BY <1>5, <2>4, <2>8, <2>11, ShowsTwo
    <3>2. Shows(Site, Spoilt', Also(i), low, low)
      BY <1>5, <2>8, <2>11, ShowsOne, ShowsNone
    <3>3. Shows(Site, Spoilt', <<SetTail(tail)>>, low, deepest)
      BY <2>4, <2>8, ShowsOne
    <3> HIDE DEF Also
    <3>4. Shows(Site, Spoilt', <<SetTail(0), Kid(Path, n - i)>> \o Also(i), deepest, low)
      BY <3>1, <3>2, ShowsBoth
    <3>5. Shows(Site, Spoilt', (<<SetTail(0), Kid(Path, n - i)>> \o Also(i)) \o <<SetTail(tail)>>,
                deepest, deepest)
      BY <3>3, <3>4, ShowsBoth
    <3> QED
      BY <3>5
  <2>13. rounds = [i \in 1 .. n - 1 |-> rounds[i]] /\ \A i \in 1 .. n - 1 : rounds[i] = Round(i)
    OBVIOUS
  <2> HIDE DEF rounds, Round
  <2>14. Shows(Site, Spoilt', FlattenSeq(rounds), deepest, deepest)
    <3> DEFINE h == [i \in 0 .. n - 1 |-> deepest]
    <3>1. h \in [0 .. n - 1 -> Sight] /\ h[0] = deepest /\ h[n - 1] = deepest
      BY <1>5, <2>4
    <3>2. \A i \in 1 .. n - 1 : h[i - 1] = deepest /\ h[i] = deepest
      BY <1>5
    <3> HIDE DEF h
    <3>3. \A i \in 1 .. n - 1 : Shows(Site, Spoilt', rounds[i], h[i - 1], h[i])
      BY <2>12, <2>13, <3>2
    <3>4. Shows(Site, Spoilt', FlattenSeq(rounds), h[0], h[n - 1])
      BY <1>5, <2>13, <3>1, <3>3, ShowsFlat
    <3> QED
      BY <3>1, <3>4
  <2> HIDE DEF first, last
  <2>15. Shows(Site, Spoilt', first \o FlattenSeq(rounds), p, deepest)
    BY <2>9, <2>14, ShowsBoth
  <2>16. Shows(Site, Spoilt', (first \o FlattenSeq(rounds)) \o last, p, p)
    BY <2>10, <2>15, ShowsBoth
  <2> QED
    BY <1>2, <1>3, <1>6, <2>16
<1> HIDE DEF things
<1> QED
  BY <1>1, <1>2, <1>3, <1>6, ExpressionSees

LEMMA VariableSees == ASSUME ScopingInv, Variable, GeneratorInv' PROVE ScopingInv'
<1>1. CASE Refuse
  BY <1>1, RefuseSees
<1>2. CASE ~Refuse
  <2> DEFINE name == Here.name
             things == IF found'[Path] = Definition THEN <<PushIt, TempIt, PopIt>> ELSE <<>>
  <2>1. NextIs("expr") /\ Here.kind = "varbl" /\ todo' = things \o Tail(todo)
    BY <1>2 DEF Variable, NextNode, Leads
  <2>2. /\ UNCHANGED <<prog, globals, table, slots, tail, captured, jumps>>
        /\ found' = With(found, Path, Read(name)) /\ Read(name) # Unbound
    BY <1>2 DEF Variable, place, Find
  <2>3. name \in Visible /\ Path \in References /\ Here = NodeAt(Path)
    BY <2>1, NameHere, ExprHere
  <2>4. globals \subseteq NamesOf("globl")
    BY DEF ScopingInv
  <2>5. Noted(Read(name), Path)
    <3> SUFFICES ASSUME ~(name \in Labels /\ Read(name) = Temp)
                 PROVE  Expected(Path) = Read(name) /\ (Expected(Path) = Global => MayBeGlobal(Path))
      BY <2>3 DEF Noted
    <3> HIDE DEF name
    <3>0. /\ Local(Path, name) # Unbound => Expected(Path) = Local(Path, name)
          /\ Local(Path, name) = Unbound /\ name \in Defined => Expected(Path) = Definition
          /\ Local(Path, name) = Unbound /\ name \notin Defined => Expected(Path) = Global
      BY <2>1, <2>3 DEF Expected, name
    <3>1. CASE Local(Path, name) # Unbound
      <4>1. Read(name) = Local(Path, name) /\ Read(name) \in Words
        BY <2>1, <2>3, <3>1, ReadIs
      <4> QED
        BY <3>0, <3>1, <4>1, WordsAre
    <3>2. CASE Local(Path, name) = Unbound
      <4>1. /\ name \in Defined => Read(name) = Definition
            /\ name \notin Defined => name \in globals /\ Read(name) = Global
        BY <2>1, <2>2, <2>3, <3>2, ReadIs
      <4>2. name \notin Defined => MayBeGlobal(Path)
        BY <2>1, <2>3, <2>4, <4>1 DEF MayBeGlobal, name
      <4>3. Definition # Global
        BY HolderKinds
      <4> QED
        BY <3>0, <3>2, <4>1, <4>2, <4>3
    <3> QED
      BY <3>1, <3>2
  <2>6. Recorded' /\ Spoilt \subseteq Spoilt'
    <3> DEFINE word == Read(name)
    <3>1. Noted(word, Path) /\ found' = With(found, Path, word)
      BY <2>2, <2>5
    <3> HIDE DEF word
    <3> QED
      BY <2>2, <2>3, <3>1, FoundAdded
  <2>7. JumpsMade'
    BY <2>2, <2>6, MadeStays DEF ScopingInv
  <2>8. ASSUME NEW p \in Sight, ReadyFor(p, Path), Flies(p, tail, Spoilt)
        PROVE  \E o \in {p, Claiming(p, <<>>)} : Flies(o, tail', Spoilt') /\ Shows(Site, Spoilt', things, o, p)
    <3>1. Shows(Site, Spoilt', things, p, p)
      BY <2>8, ShowsDetour, ShowsNone DEF ReadyFor
    <3>2. Flies(p, tail', Spoilt')
      BY <2>2, <2>6, <2>8 DEF Flies
    <3> QED
      BY <3>1, <3>2
  <2> HIDE DEF things
  <2> QED
    BY <2>1, <2>2, <2>6, <2>7, <2>8, ExpressionSees
<1> QED
  BY <1>1, <1>2

LEMMA AssignSees == ASSUME ScopingInv, Assign, GeneratorInv' PROVE ScopingInv'
<1>1. CASE Refuse
  BY <1>1, RefuseSees
<1>2. CASE ~Refuse
  <2> DEFINE name == Here.name
             things == <<Kid(Path, 1)>> \o IF found'[Path] = Global THEN <<>> ELSE <<SetTail(tail)>>
  <2>1. NextIs("expr") /\ Here.kind = "mutst" /\ todo' = things \o Tail(todo)
    BY <1>2 DEF Assign, NextNode, Leads
  <2>2. /\ UNCHANGED <<prog, globals, table, slots, captured, jumps>> /\ tail' = 0
        /\ found' = With(found, Path, Assigned(name)) /\ Assigned(name) # Unbound
    BY <1>2 DEF Assign, place, Find
  <2>3. name \in Visible /\ Path \in References /\ Here = NodeAt(Path)
    BY <2>1, NameHere, ExprHere
  <2>4. globals \subseteq NamesOf("globl")
    BY DEF ScopingInv
  <2>5. Noted(Assigned(name), Path)
    <3> SUFFICES ASSUME ~(name \in Labels /\ Assigned(name) = Temp)
                 PROVE  Expected(Path) = Assigned(name) /\ (Expected(Path) = Global => MayBeGlobal(Path))
      BY <2>3 DEF Noted
    <3> HIDE DEF name
    <3>0. Expected(Path) = IF Local(Path, name) # Unbound THEN Local(Path, name) ELSE Global
      BY <2>1, <2>3 DEF Expected, name
    <3>1. Assigned(name) = Read(name) /\ Read(name) # Definition /\ Read(name) # Unbound
      BY <2>2 DEF Assigned
    <3>2. CASE Local(Path, name) # Unbound
      <4>1. Read(name) = Local(Path, name) /\ Read(name) \in Words
        BY <2>1, <2>3, <3>1, <3>2, ReadIs
      <4> QED
        BY <3>0, <3>1, <3>2, <4>1, WordsAre
    <3>3. CASE Local(Path, name) = Unbound
      <4>1. name \notin Defined /\ name \in globals /\ Read(name) = Global
        BY <2>1, <2>3, <3>1, <3>3, ReadIs
      <4>2. MayBeGlobal(Path)
        BY <2>1, <2>3, <2>4, <4>1 DEF MayBeGlobal, name
      <4> QED
        BY <3>0, <3>1, <3>3, <4>1, <4>2
    <3> QED
      BY <3>2, <3>3
  <2>6. /\ Recorded' /\ Spoilt \subseteq Spoilt'
        /\ found'[Path] = Global => UnitOf(Path) \in Spoilt'
    <3> DEFINE word == Assigned(name)
    <3>1. Noted(word, Path) /\ found' = With(found, Path, word) /\ found'[Path] = word
      BY <2>2, <2>5 DEF With
    <3> HIDE DEF word
    <3>2. /\ Recorded' /\ Spoilt \subseteq Spoilt'
          /\ NodeAt(Path).kind = "mutst" /\ word = Global => UnitOf(Path) \in Spoilt'
      BY <2>2, <2>3, <3>1, FoundAdded
    <3> QED
      BY <2>1, <2>3, <3>1, <3>2
  <2>7. JumpsMade'
    BY <2>2, <2>6, MadeStays DEF ScopingInv
  <2>9. 1 \in DOMAIN Here.kids /\ ~PassesOn(Here, 1)
    BY <2>1, KidsHere DEF WellFormed, ScopingInv, PassesOn
  <2>10. ASSUME NEW p \in Sight, ReadyFor(p, Path), Flies(p, tail, Spoilt)
         PROVE  \E o \in {p, Claiming(p, <<>>)} : Flies(o, tail', Spoilt') /\ Shows(Site, Spoilt', things, o, p)
    <3> DEFINE low == Claiming(p, <<>>)
    <3>1. /\ IsOpen(p) /\ Now(p) = View(Path) /\ Earlier(Path) \subseteq p.known
          /\ p.claim \in {<<>>, UnitOf(Path)}
          /\ low \in Sight /\ IsOpen(low) /\ Now(low) = View(Path) /\ low.known = p.known /\ low.claim = <<>>
          /\ SetTail(tail) \in Thing /\ Sees(Site, Spoilt', SetTail(tail), low, p)
      BY <2>1, <2>6, <2>10, LowSeen
    <3> HIDE DEF low
    <3>2. CASE found'[Path] = Global
      <4>1. Kid(Path, 1) \in Thing /\ Sees(Site, Spoilt', Kid(Path, 1), p, p)
        BY <2>1, <2>9, <2>10, <3>1, PlainKid
      <4>2. Shows(Site, Spoilt', <<Kid(Path, 1)>>, p, p) /\ Shows(Site, Spoilt', <<>>, p, p)
        BY <2>10, <4>1, ShowsOne, ShowsNone
      <4>3. Shows(Site, Spoilt', things, p, p)
        BY <3>2, <4>2, ShowsBoth
      <4>4. Flies(p, tail', Spoilt')
        BY <2>6, <3>1, <3>2 DEF Flies
      <4> QED
        BY <4>3, <4>4
    <3>3. CASE found'[Path] # Global
      <4>1. Kid(Path, 1) \in Thing /\ Sees(Site, Spoilt', Kid(Path, 1), low, low)
        BY <2>1, <2>9, <3>1, PlainKid
      <4>2. Shows(Site, Spoilt', <<Kid(Path, 1)>>, low, low) /\ Shows(Site, Spoilt', <<SetTail(tail)>>, low, p)
        BY <2>10, <3>1, <4>1, ShowsOne
      <4>3. Shows(Site, Spoilt', things, low, p)
        BY <3>3, <4>2, ShowsBoth
      <4> QED
        BY <3>1, <4>3 DEF low, Flies
    <3> QED
      BY <3>2, <3>3
  <2> HIDE DEF things
  <2> QED
    BY <2>1, <2>2, <2>6, <2>7, <2>10, ExpressionSees
<1> QED
  BY <1>1, <1>2

(* The words of an environment are what the free names are read from.      *)
LEMMA EnvironmentIs ==
  ASSUME ScopingInv, NextIs("expr")
  PROVE  Recalls([i \in DOMAIN FreeNames(Here) |->
                    LET slot == Lookup(table, FreeNames(Here)[i])
                    IN  IF slot = NotFound THEN Unbound ELSE slots[slot]], Path)
<1>1. Here \in Trees /\ Here = NodeAt(Path)
  BY KidsHere, ExprHere DEF ScopingInv
<1> DEFINE names == FreeNames(Here)
<1>2. names \in Seq(Visible)
  BY <1>1, FreeVisible
<1> HIDE DEF names
<1>3. ASSUME NEW i \in DOMAIN names
      PROVE  IsOrTemp(LET slot == Lookup(table, names[i])
                      IN  IF slot = NotFound THEN Unbound ELSE slots[slot],
                      Local(Path, names[i]), names[i])
  <2>1. names[i] \in Visible
    BY <1>2
  <2> DEFINE name == names[i]
             slot == Lookup(table, name)
  <2> HIDE DEF name
  <2>2. IF slot = NotFound THEN Local(Path, name) = Unbound
        ELSE \/ slots[slot] = Local(Path, name) /\ Local(Path, name) \in Words
             \/ name \in Labels /\ slots[slot] = Temp
    BY <2>1, SlotIs DEF name
  <2>3. IsOrTemp(IF slot = NotFound THEN Unbound ELSE slots[slot], Local(Path, name), name)
    <3> HIDE DEF slot
    <3> QED
      BY <2>2 DEF IsOrTemp
  <2> QED
    BY <2>3 DEF name
<1>4. \A i \in DOMAIN names : Environment(Path)[i] = Local(Path, names[i])
  BY <1>1 DEF Environment, names
<1> QED
  BY <1>1, <1>3, <1>4 DEF Recalls, names

LEMMA CreateSees == ASSUME ScopingInv, CreateClosure, GeneratorInv' PROVE ScopingInv'
<1>1. CASE Refuse
  BY <1>1, RefuseSees
<1>2. CASE ~Refuse
  <2> DEFINE things == <<PushIt, TempIt, PopIt, PushIt, TempIt, TempIt, PopIt>>
             environment == [i \in DOMAIN FreeNames(Here) |->
                               LET slot == Lookup(table, FreeNames(Here)[i])
                               IN  IF slot = NotFound THEN Unbound ELSE slots[slot]]
  <2>1. NextIs("expr") /\ todo' = things \o Tail(todo) /\ Path \in ToSet(AllLambdas)
    BY <1>2 DEF CreateClosure, NextNode, Leads
  <2>2. UNCHANGED <<prog, globals, table, slots, tail, found, jumps>>
        /\ captured' = With(captured, Path, environment)
    BY <1>2 DEF CreateClosure, place
  <2>3. Recalls(environment, Path)
    BY <2>1, EnvironmentIs
  <2> HIDE DEF environment
  <2>4. Recorded'
    <3>1. /\ \A q \in DOMAIN found : q \in References /\ Noted(found[q], q)
          /\ \A l \in DOMAIN captured : l \in ToSet(AllLambdas) /\ Recalls(captured[l], l)
      BY DEF ScopingInv, Recorded
    <3>2. \A l \in DOMAIN captured' : l \in ToSet(AllLambdas) /\ Recalls(captured'[l], l)
      BY <2>1, <2>2, <2>3, <3>1 DEF With
    <3>3. References' = References /\ ToSet(AllLambdas)' = ToSet(AllLambdas)
      BY <2>2, NodesStay, LambdasStay
    <3> QED
      BY <2>2, <3>1, <3>2, <3>3, NotedStay DEF Recorded
  <2>5. Spoilt' = Spoilt /\ Spoilt \subseteq Spoilt' /\ JumpsMade'
    BY <2>2, SpoiltStays, MadeStays DEF ScopingInv
  <2>6. ASSUME NEW p \in Sight, ReadyFor(p, Path), Flies(p, tail, Spoilt)
        PROVE  \E o \in {p, Claiming(p, <<>>)} : Flies(o, tail', Spoilt') /\ Shows(Site, Spoilt', things, o, p)
    <3>1. /\ Shows(Site, Spoilt', <<PushIt, TempIt, PopIt>>, p, p)
          /\ Shows(Site, Spoilt', <<PushIt, TempIt, TempIt, PopIt>>, p, p)
      BY <2>6, ShowsDetour DEF ReadyFor
    <3>2. things = <<PushIt, TempIt, PopIt>> \o <<PushIt, TempIt, TempIt, PopIt>>
      OBVIOUS
    <3> HIDE DEF things
    <3>3. Shows(Site, Spoilt', things, p, p)
      BY <3>1, <3>2, ShowsBoth
    <3> QED
      BY <2>2, <2>5, <2>6, <3>3
  <2> HIDE DEF things
  <2> QED
    BY <2>1, <2>2, <2>4, <2>5, <2>6, ExpressionSees
<1> QED
  BY <1>1, <1>2
-----------------------------------------------------------------------------
(* Calls.                                                                  *)

(* Where the procedure and the arguments of a call are compiled.           *)
Aside(p) == IF tail = 1 THEN Within(p, Now(p)) ELSE Within(Within(p, Now(p)), Now(p))

LEMMA AsideTyped ==
  ASSUME NEW p \in Sight, IsOpen(p)
  PROVE  /\ Aside(p) \in Sight /\ IsOpen(Aside(p)) /\ Now(Aside(p)) = Now(p)
         /\ Aside(p).known = p.known /\ Aside(p).claim = p.claim
<1> DEFINE v == Now(p)
           deep == Within(p, v)
           deeper == Within(deep, v)
<1>1. v \in Views
  BY OpenParts
<1> HIDE DEF v
<1>2. deep \in Sight /\ IsOpen(deep) /\ Now(deep) = v /\ deep.known = p.known /\ deep.claim = p.claim
  BY <1>1, WithinTyped
<1> HIDE DEF deep
<1>3. deeper \in Sight /\ IsOpen(deeper) /\ Now(deeper) = v /\ deeper.known = p.known /\ deeper.claim = p.claim
  BY <1>1, <1>2, WithinTyped
<1> HIDE DEF deeper
<1>4. Aside(p) = IF tail = 1 THEN deep ELSE deeper
  BY DEF Aside, deep, deeper, v
<1> QED
  BY <1>2, <1>3, <1>4 DEF v

LEMMA SlotsShow ==
  ASSUME NEW w, NEW s, NEW p \in Sight, IsOpen(p), NEW args \in Nat
  PROVE  Shows(w, s, CallSlots(args), p, Aside(p))
<1> DEFINE slots_ == [i \in 1 .. args + 1 |-> TempIt]
           first == IF tail = 1 THEN <<>> ELSE <<PushIt, TempIt, TempIt>>
           deep == Within(p, Now(p))
           outside == IF tail = 1 THEN p ELSE deep
           last == Within(outside, Now(outside))
<1>1. /\ deep \in Sight /\ IsOpen(deep) /\ PushIt \in Thing /\ TempIt \in Thing
      /\ Sees(w, s, PushIt, p, deep)
  BY SightMoves
<1>2. Now(deep) = Now(p)
  BY OpenParts, WithinTyped
<1> HIDE DEF deep
<1>3. Sees(w, s, TempIt, deep, deep)
  BY <1>1, SightMoves
<1>4. outside \in Sight /\ IsOpen(outside) /\ Now(outside) = Now(p)
  BY <1>1, <1>2
<1>5. Shows(w, s, first, p, outside)
  BY <1>1, <1>3, ShowsNone, ShowsThree
<1>6. Aside(p) = last
  BY <1>2 DEF Aside, deep
<1> HIDE DEF outside, first
<1>7. last \in Sight /\ IsOpen(last) /\ Sees(w, s, PushIt, outside, last)
  BY <1>4, SightMoves
<1> HIDE DEF last
<1>8. Sees(w, s, TempIt, last, last)
  BY <1>7, SightMoves
<1>9. Shows(w, s, <<PushIt>>, outside, last)
  BY <1>1, <1>4, <1>7, ShowsOne
<1>10. slots_ \in Seq(Thing) /\ \A i \in 1 .. Len(slots_) : slots_[i] = TempIt
  BY <1>1
<1> HIDE DEF slots_
<1>11. Shows(w, s, slots_, last, last)
  BY <1>7, <1>8, <1>10, ShowsEach
<1>12. Shows(w, s, first \o <<PushIt>>, p, last)
  BY <1>5, <1>9, ShowsBoth
<1>13. Shows(w, s, (first \o <<PushIt>>) \o slots_, p, last)
  BY <1>11, <1>12, ShowsBoth
<1> QED
  BY <1>6, <1>13 DEF CallSlots, first, slots_

LEMMA DoneShows ==
  ASSUME NEW w, NEW s, NEW p \in Sight, NEW q \in Sight, IsOpen(p),
         SetTail(tail) \in Thing, Sees(w, s, SetTail(tail), p, q)
  PROVE  Shows(w, s, CallDone, Aside(p), q)
<1> DEFINE pops == IF tail = 1 THEN <<PopIt>> ELSE <<PopIt, PopIt>>
           v == Now(p)
           deep == Within(p, v)
           deeper == Within(deep, v)
<1>1. v \in Views
  BY OpenParts
<1>2. Aside(p) = IF tail = 1 THEN deep ELSE deeper
  BY DEF Aside
<1> HIDE DEF v
<1>3. deep \in Sight /\ IsOpen(deep) /\ PopIt \in Thing /\ Sees(w, s, PopIt, deep, p)
  BY <1>1, SightMoves, WithinTyped
<1> HIDE DEF deep
<1>4. deeper \in Sight /\ Sees(w, s, PopIt, deeper, deep)
  BY <1>1, <1>3, SightMoves, WithinTyped
<1> HIDE DEF deeper
<1>5. Shows(w, s, pops, Aside(p), p)
  <2>1. Shows(w, s, <<PopIt>>, deep, p) /\ Shows(w, s, <<PopIt, PopIt>>, deeper, p)
    BY <1>3, <1>4, ShowsOne, ShowsTwo
  <2> QED
    BY <1>2, <2>1
<1>6. Shows(w, s, <<SetTail(tail)>>, p, q)
  BY ShowsOne
<1> HIDE DEF pops
<1>7. Shows(w, s, pops \o <<SetTail(tail)>>, Aside(p), q)
  BY <1>5, <1>6, ShowsBoth
<1> QED
  BY <1>7 DEF CallDone, pops

(* The arguments: nothing is claimed of them.                              *)
LEMMA ArgumentsShow ==
  ASSUME ScopingInv, NextIs("expr"), Here.kind \in {"callf", "calle"}, NEW s,
         NEW n \in Nat, n <= Len(Here.kids),
         NEW o \in Sight, IsOpen(o), Now(o) = View(Path), Earlier(Path) \subseteq o.known, o.claim = <<>>
  PROVE  Shows(Site, s, [k \in 1 .. n |-> Kid(Path, k)], o, o)
<1> DEFINE a == [k \in 1 .. n |-> Kid(Path, k)]
<1>1. \A k \in 1 .. n : k \in DOMAIN Here.kids
  BY KidsHere DEF ScopingInv
<1>2. \A k \in 1 .. n : Kid(Path, k) \in Thing /\ Sees(Site, s, Kid(Path, k), o, o)
  BY <1>1, PlainKid DEF PassesOn
<1>3. a \in Seq(Thing) /\ Len(a) = n /\ \A k \in 1 .. n : a[k] = Kid(Path, k)
  BY <1>2
<1> HIDE DEF a
<1>4. Shows(Site, s, a, o, o)
  BY <1>2, <1>3, ShowsEach
<1> QED
  BY <1>4 DEF a

(* A call is a jump where it can be, or else its unit is spoilt.           *)
LEMMA JumpMade ==
  ASSUME ScopingInv, NextIs("expr"), prog' = prog, Spoilt \subseteq Spoilt',
         jumps' = With(jumps, Path, tail = 1)
  PROVE  JumpsMade'
<1>1. \A p \in DOMAIN jumps : (~ jumps[p] /\ InTailPlace(p)) => UnitOf(p) \in Spoilt
  BY DEF ScopingInv, JumpsMade
<1>2. tail # 1 /\ InTailPlace(Path) => UnitOf(Path) \in Spoilt
  <2> SUFFICES ASSUME tail # 1, InTailPlace(Path) PROVE UnitOf(Path) \in Spoilt
    OBVIOUS
  <2>1. PICK p \in Sight : ReadyFor(p, Path) /\ Flies(p, tail, Spoilt)
    BY ExprHere
  <2>2. Path \in TailPlaces
    BY ExprHere DEF TailPlaces
  <2>3. UnitOf(Path) # <<>>
    BY ExprHere, UnitTyped, NodeTyped
  <2> QED
    BY <2>1, <2>2, <2>3 DEF ReadyFor, Flies
<1>3. ASSUME NEW p \in DOMAIN jumps', ~ jumps'[p], InTailPlace(p) PROVE UnitOf(p) \in Spoilt
  <2>1. CASE p = Path
    <3>1. jumps'[p] = (tail = 1)
      BY <2>1 DEF With
    <3> QED
      BY <1>2, <1>3, <2>1, <3>1
  <2>2. CASE p # Path
    <3>1. p \in DOMAIN jumps /\ jumps'[p] = jumps[p]
      BY <2>2 DEF With
    <3> QED
      BY <1>1, <1>3, <3>1
  <2> QED
    BY <2>1, <2>2
<1>4. \A p : UnitOf(p)' = UnitOf(p) /\ (InTailPlace(p)' <=> InTailPlace(p))
  BY NodesStay, TailPlaceStays
<1>5. ASSUME NEW p \in DOMAIN jumps', ~ jumps'[p], InTailPlace(p)' PROVE UnitOf(p)' \in Spoilt'
  BY <1>3, <1>4, <1>5
<1> QED
  BY <1>5 DEF JumpsMade

(* The points around a call.                                               *)
LEMMA CallSeen ==
  ASSUME ScopingInv, NextIs("expr"), NEW s, Spoilt \subseteq s, NEW args \in Nat,
         NEW p \in Sight, ReadyFor(p, Path), Flies(p, tail, Spoilt)
  PROVE  LET low == Claiming(p, <<>>)
         IN  /\ Aside(low) \in Sight /\ IsOpen(Aside(low)) /\ Now(Aside(low)) = View(Path)
             /\ Earlier(Path) \subseteq Aside(low).known /\ Aside(low).claim = <<>> /\ low.claim = <<>>
             /\ Shows(Site, s, CallSlots(args), low, Aside(low))
             /\ Shows(Site, s, CallDone, Aside(low), p)
<1> DEFINE low == Claiming(p, <<>>)
<1>1. /\ Earlier(Path) \subseteq p.known
      /\ low \in Sight /\ IsOpen(low) /\ Now(low) = View(Path) /\ low.known = p.known /\ low.claim = <<>>
      /\ SetTail(tail) \in Thing /\ Sees(Site, s, SetTail(tail), low, p)
  BY LowSeen
<1> HIDE DEF low
<1>2. /\ Aside(low) \in Sight /\ IsOpen(Aside(low)) /\ Now(Aside(low)) = Now(low)
      /\ Aside(low).known = low.known /\ Aside(low).claim = low.claim
  BY <1>1, AsideTyped
<1>3. Shows(Site, s, CallSlots(args), low, Aside(low))
  BY <1>1, SlotsShow
<1>4. Shows(Site, s, CallDone, Aside(low), p)
  BY <1>1, DoneShows
<1> QED
  BY <1>1, <1>2, <1>3, <1>4 DEF low

LEMMA CallNamedSees == ASSUME ScopingInv, CallNamed, GeneratorInv' PROVE ScopingInv'
<1>1. CASE Refuse
  BY <1>1, RefuseSees
<1>2. CASE ~Refuse
  <2> DEFINE name == Here.name
             args == [k \in DOMAIN Here.kids |-> Kid(Path, k)]
             things == CallSlots(Len(Here.kids)) \o args \o CallDone
  <2>1. NextIs("expr") /\ Here.kind = "callf" /\ todo' = things \o Tail(todo)
    BY <1>2 DEF CallNamed, NextNode, Leads
  <2>2. /\ UNCHANGED <<prog, globals, table, slots, captured>> /\ tail' = 0
        /\ found' = With(found, Path, Called(name)) /\ Called(name) # Unbound
        /\ jumps' = With(jumps, Path, tail = 1)
    BY <1>2 DEF CallNamed, place, Find
  <2>3. name \in Visible /\ Path \in References /\ Here = NodeAt(Path)
    BY <2>1, NameHere, ExprHere
  <2>4. Noted(Called(name), Path)
    <3> SUFFICES ASSUME ~(name \in Labels /\ Called(name) = Temp)
                 PROVE  Expected(Path) = Called(name) /\ Expected(Path) # Global
      BY <2>3 DEF Noted
    <3> HIDE DEF name
    <3>0. /\ name \in Defined => Expected(Path) = Definition
          /\ name \notin Defined /\ Local(Path, name) # Unbound => Expected(Path) = Local(Path, name)
      BY <2>1, <2>3 DEF Expected, name
    <3>1. CASE name \in Defined
      BY <3>0, <3>1, HolderKinds DEF Called
    <3>2. CASE name \notin Defined
      <4>1. Called(name) = Read(name) /\ Read(name) # Global /\ Read(name) # Unbound
        BY <2>2, <3>2 DEF Called
      <4>2. Local(Path, name) # Unbound
        BY <2>1, <2>3, <3>2, <4>1, ReadIs
      <4>3. Read(name) = Local(Path, name)
        BY <2>1, <2>3, <4>1, <4>2, ReadIs
      <4> QED
        BY <3>0, <3>2, <4>1, <4>2, <4>3
    <3> QED
      BY <3>1, <3>2
  <2>5. Recorded' /\ Spoilt \subseteq Spoilt'
    <3> DEFINE word == Called(name)
    <3>1. Noted(word, Path) /\ found' = With(found, Path, word)
      BY <2>2, <2>4
    <3> HIDE DEF word
    <3> QED
      BY <2>2, <2>3, <3>1, FoundAdded
  <2>6. JumpsMade'
    BY <2>1, <2>2, <2>5, JumpMade
  <2>7. Len(Here.kids) \in Nat /\ args = [k \in 1 .. Len(Here.kids) |-> Kid(Path, k)]
    BY <2>1, KidsHere DEF ScopingInv
  <2> HIDE DEF args
  <2>8. ASSUME NEW p \in Sight, ReadyFor(p, Path), Flies(p, tail, Spoilt)
        PROVE  \E o \in {p, Claiming(p, <<>>)} : Flies(o, tail', Spoilt') /\ Shows(Site, Spoilt', things, o, p)
    <3> DEFINE low == Claiming(p, <<>>)
               inner == Aside(low)
    <3>1. /\ inner \in Sight /\ IsOpen(inner) /\ Now(inner) = View(Path)
          /\ Earlier(Path) \subseteq inner.known /\ inner.claim = <<>> /\ low.claim = <<>>
          /\ Shows(Site, Spoilt', CallSlots(Len(Here.kids)), low, inner)
          /\ Shows(Site, Spoilt', CallDone, inner, p)
      BY <2>1, <2>5, <2>7, <2>8, CallSeen
    <3> HIDE DEF low, inner
    <3>2. Shows(Site, Spoilt', args, inner, inner)
      <4>1. Len(Here.kids) <= Len(Here.kids)
        BY <2>7
      <4>2. Shows(Site, Spoilt', [k \in 1 .. Len(Here.kids) |-> Kid(Path, k)], inner, inner)
        BY <2>1, <2>7, <3>1, <4>1, ArgumentsShow
      <4> QED
        BY <2>7, <4>2
    <3>3. Shows(Site, Spoilt', CallSlots(Len(Here.kids)) \o args, low, inner)
      BY <3>1, <3>2, ShowsBoth
    <3>4. Shows(Site, Spoilt', things, low, p)
      BY <3>1, <3>3, ShowsBoth
    <3> QED
      BY <3>1, <3>4 DEF low, Flies
  <2> HIDE DEF things
  <2> QED
    BY <2>1, <2>2, <2>5, <2>6, <2>8, ExpressionSees
<1> QED
  BY <1>1, <1>2

LEMMA CallValueSees == ASSUME ScopingInv, CallValue, GeneratorInv' PROVE ScopingInv'
<1> DEFINE n == Len(Here.kids) - 1
           args == [k \in 1 .. n |-> Kid(Path, k)]
           procedure == <<Kid(Path, n + 1)>>
           things == CallSlots(n) \o procedure \o args \o CallDone
<1>1. NextIs("expr") /\ Here.kind = "calle" /\ todo' = things \o Tail(todo)
  BY DEF CallValue, NextNode, Leads
<1>2. /\ UNCHANGED <<prog, globals, table, slots, captured, found>> /\ tail' = 0
      /\ jumps' = With(jumps, Path, tail = 1)
  BY DEF CallValue, place
<1>3. n \in Nat /\ n <= Len(Here.kids) /\ n + 1 \in DOMAIN Here.kids
  BY <1>1, KidsHere DEF WellFormed, ScopingInv
<1>4. Recorded' /\ Spoilt' = Spoilt /\ Spoilt \subseteq Spoilt'
  BY <1>2, SpoiltStays, RecordStays DEF ScopingInv
<1>5. JumpsMade'
  BY <1>1, <1>2, <1>4, JumpMade
<1> HIDE DEF n
<1>6. ASSUME NEW p \in Sight, ReadyFor(p, Path), Flies(p, tail, Spoilt)
      PROVE  \E o \in {p, Claiming(p, <<>>)} : Flies(o, tail', Spoilt') /\ Shows(Site, Spoilt', things, o, p)
  <2> DEFINE low == Claiming(p, <<>>)
             inner == Aside(low)
  <2>1. /\ inner \in Sight /\ IsOpen(inner) /\ Now(inner) = View(Path)
        /\ Earlier(Path) \subseteq inner.known /\ inner.claim = <<>> /\ low.claim = <<>>
        /\ Shows(Site, Spoilt', CallSlots(n), low, inner)
        /\ Shows(Site, Spoilt', CallDone, inner, p)
    BY <1>1, <1>3, <1>4, <1>6, CallSeen
  <2> HIDE DEF low, inner
  <2>2. Shows(Site, Spoilt', procedure, inner, inner)
    <3>1. Kid(Path, n + 1) \in Thing /\ Sees(Site, Spoilt', Kid(Path, n + 1), inner, inner)
      BY <1>1, <1>3, <2>1, PlainKid DEF PassesOn
    <3> QED
      BY <2>1, <3>1, ShowsOne
  <2>3. Shows(Site, Spoilt', args, inner, inner)
    BY <1>1, <1>3, <2>1, ArgumentsShow
  <2> HIDE DEF args, procedure
  <2>4. Shows(Site, Spoilt', CallSlots(n) \o procedure, low, inner)
    BY <2>1, <2>2, ShowsBoth
  <2>5. Shows(Site, Spoilt', (CallSlots(n) \o procedure) \o args, low, inner)
    BY <2>3, <2>4, ShowsBoth
  <2>6. Shows(Site, Spoilt', things, low, p)
    BY <2>1, <2>5, ShowsBoth
  <2> QED
    BY <2>1, <2>6 DEF low, Flies
<1> HIDE DEF things
<1> QED
  BY <1>1, <1>2, <1>4, <1>5, <1>6, ExpressionSees
-----------------------------------------------------------------------------
(* What compile() begins with.                                             *)

LEMMA ForEachShows ==
  ASSUME prog \in Programs, NEW w, NEW s, NEW kind, NEW things, NEW h \in [0 .. Len(prog) -> Sight],
         \A i \in DOMAIN prog : IF prog[i].kind = kind THEN Shows(w, s, things[i], h[i - 1], h[i])
                                ELSE h[i] = h[i - 1]
  PROVE  Shows(w, s, ForEach(kind, things), h[0], h[Len(prog)])
<1> DEFINE n == Len(prog)
           seqs == [i \in DOMAIN prog |-> IF prog[i].kind = kind THEN things[i] ELSE <<>>]
<1>1. n \in Nat /\ DOMAIN prog = 1 .. n
  BY LenProperties, GeneratorAssumption
<1>2. \A i \in 1 .. n : seqs[i] = IF prog[i].kind = kind THEN things[i] ELSE <<>>
  BY <1>1
<1>3. seqs = [i \in 1 .. n |-> seqs[i]]
  BY <1>1
<1> HIDE DEF n, seqs
<1>4. ASSUME NEW i \in 1 .. n PROVE Shows(w, s, seqs[i], h[i - 1], h[i])
  <2>1. CASE prog[i].kind = kind
    BY <1>1, <1>2, <2>1
  <2>2. CASE prog[i].kind # kind
    <3>1. i \in 0 .. n /\ h[i] = h[i - 1] /\ h[i] \in Sight
      BY <1>1, <2>2 DEF n
    <3> QED
      BY <1>2, <2>2, <3>1, ShowsNone
  <2> QED
    BY <2>1, <2>2
<1>5. h \in [0 .. n -> Sight]
  BY DEF n
<1>6. Shows(w, s, FlattenSeq(seqs), h[0], h[n])
  BY <1>1, <1>3, <1>4, <1>5, ShowsFlat
<1> QED
  BY <1>6 DEF ForEach, seqs, n

LEMMA ForEachStays ==
  ASSUME prog \in Programs, NEW w, NEW s, NEW kind, NEW things, NEW p \in Sight,
         \A i \in DOMAIN prog : prog[i].kind = kind => Shows(w, s, things[i], p, p)
  PROVE  Shows(w, s, ForEach(kind, things), p, p)
<1> DEFINE h == [i \in 0 .. Len(prog) |-> p]
<1>1. Len(prog) \in Nat /\ DOMAIN prog = 1 .. Len(prog)
  BY LenProperties, GeneratorAssumption
<1>2. /\ h \in [0 .. Len(prog) -> Sight] /\ h[0] = p /\ h[Len(prog)] = p
      /\ \A i \in DOMAIN prog : h[i - 1] = p /\ h[i] = p
  BY <1>1
<1> HIDE DEF h
<1>3. Shows(w, s, ForEach(kind, things), h[0], h[Len(prog)])
  BY <1>2, ForEachShows
<1> QED
  BY <1>2, <1>3

(* The globals that are defined by the first i items.                      *)
KnownAfter(i) == {prog[j].name : j \in {j \in 1 .. i : prog[j].kind = "globl"}}

LEMMA KnownGrows ==
  ASSUME prog \in Programs
  PROVE  /\ \A i \in 0 .. Len(prog) : KnownAfter(i) \in SUBSET Names
         /\ KnownAfter(0) = {} /\ NamesOf("globl") \in SUBSET Names
         /\ \A i \in DOMAIN prog :
              KnownAfter(i) = IF prog[i].kind = "globl" THEN KnownAfter(i - 1) \cup {prog[i].name}
                              ELSE KnownAfter(i - 1)
         /\ \A i \in DOMAIN prog : KnownAfter(i - 1) \subseteq KnownAfter(Len(prog))
<1>1. Len(prog) \in Nat /\ DOMAIN prog = 1 .. Len(prog)
  BY LenProperties, GeneratorAssumption
<1>2. \A i \in DOMAIN prog : prog[i].kind = "globl" => prog[i].name \in Names
  BY ItemTyped
<1>3. \A i \in 0 .. Len(prog) : 1 .. i \subseteq DOMAIN prog
  BY <1>1
<1>4. \A i \in DOMAIN prog : i \in 1 .. i /\ 1 .. i = (1 .. i - 1) \cup {i} /\ 1 .. i - 1 \subseteq 1 .. Len(prog)
  BY <1>1
<1>5. 1 .. 0 = {}
  OBVIOUS
<1>6. \A i \in DOMAIN prog :
        KnownAfter(i) = IF prog[i].kind = "globl" THEN KnownAfter(i - 1) \cup {prog[i].name}
                        ELSE KnownAfter(i - 1)
  BY <1>4 DEF KnownAfter
<1> QED
  BY <1>2, <1>3, <1>4, <1>5, <1>6 DEF KnownAfter, NamesOf

(* The expression of an item that is no definition is compiled outside.    *)
LEMMA ItemSeen ==
  ASSUME prog \in Programs, NEW s, NEW i \in DOMAIN prog, prog[i].kind # "deffn",
         NEW known \in SUBSET Names, KnownAfter(i - 1) \subseteq known
  PROVE  Expr(<<i>>) \in Thing /\ Sees(Site, s, Expr(<<i>>), Outside(known), Outside(known))
<1> DEFINE path == <<i>>
           p == Outside(known)
<1>1. path \in Nodes /\ path \in Seq(Nat) /\ path[1] = i /\ i \in Nat /\ Len(path) = 1
      /\ UnitOf(path) = path /\ ~InLambda(path)
  BY ItemIsNode, ItemTyped, UnitOfItem
<1>2. View(path) = Nowhere
  BY ViewOfItem
<1>3. path \notin TailPlaces
  <2>1. ~InTailPlace(path)
    <3>1. SubSeq(path, 1, 1) = path
      <4> HIDE DEF path
      <4> QED
        BY <1>1
    <3>2. ~IsBody(path)
      <4> HIDE DEF path
      <4> QED
        BY <1>1 DEF IsBody
    <3> HIDE DEF path
    <3>3. \A n \in 1 .. Len(path) : SubSeq(path, 1, n) = path
      BY <1>1, <3>1
    <3> QED
      BY <3>2, <3>3 DEF InTailPlace
  <2> QED
    BY <2>1 DEF TailPlaces
<1>4. Earlier(path) = KnownAfter(i - 1)
  <2> HIDE DEF path
  <2> QED
    BY <1>1 DEF Earlier, KnownAfter
<1> HIDE DEF path
<1>5. p \in Sight /\ IsOpen(p) /\ p.claim = <<>> /\ p.known = known /\ Now(p) = Nowhere
  BY OutsideParts
<1> HIDE DEF p
<1>6. ReadyFor(p, path)
  BY <1>2, <1>3, <1>4, <1>5 DEF ReadyFor
<1>7. Expr(path) \in Thing /\ Sees(Site, s, Expr(path), p, p)
  BY <1>1, <1>5, <1>6, SightExpr
<1> QED
  BY <1>7 DEF path, p

LEMMA ClosuresSeen ==
  ASSUME prog \in Programs, NEW s, NEW known \in SUBSET Names, NamesOf("globl") \subseteq known
  PROVE  Shows(Site, s, [l \in DOMAIN AllLambdas |-> Todo("closure", AllLambdas[l], NoName, 0)],
               Outside(known), Outside(known))
<1> DEFINE n == Len(AllLambdas)
           a == [l \in DOMAIN AllLambdas |-> Todo("closure", AllLambdas[l], NoName, 0)]
           p == Outside(known)
<1>1. p \in Sight /\ p.known = known
  BY OutsideParts
<1>2. /\ n \in Nat /\ DOMAIN AllLambdas = 1 .. n
      /\ \A l \in 1 .. n : AllLambdas[l] \in LambdaPlaces(prog)
  BY AllLambdasTyped, LenProperties, ElementOfSeq
<1>3. Site.labels = ToSet(AllLambdas) /\ Site.globls = NamesOf("globl")
  BY DEF Site
<1> HIDE DEF n
<1>4. ASSUME NEW l \in 1 .. n
      PROVE  LET thing == Todo("closure", AllLambdas[l], NoName, 0)
             IN  thing \in Thing /\ Sees(Site, s, thing, p, p)
  <2> DEFINE thing == Todo("closure", AllLambdas[l], NoName, 0)
  <2>1. AllLambdas[l] \in Seq(Nat) /\ "closure" \in Doings /\ AllLambdas[l] \in ToSet(AllLambdas)
    BY <1>2 DEF LambdaPlaces, Doings, ToSet
  <2>2. thing \in Thing /\ thing.do = "closure" /\ thing.at = AllLambdas[l]
    <3> HIDE DEF Doings
    <3> QED
      BY <2>1, Nothing DEF Todo, Thing
  <2> HIDE DEF thing
  <2>3. p = Outside(p.known) /\ thing.at \in Site.labels /\ Site.globls \subseteq p.known
    BY <1>1, <1>3, <2>1, <2>2
  <2> HIDE DEF p
  <2>4. Sees(Site, s, thing, p, p)
    BY <2>2, <2>3 DEF Sees
  <2> QED
    BY <2>2, <2>4 DEF thing
<1>5. a \in Seq(Thing) /\ Len(a) = n /\ \A l \in 1 .. n : a[l] = Todo("closure", AllLambdas[l], NoName, 0)
  BY <1>2, <1>4
<1> HIDE DEF a, p
<1>6. Shows(Site, s, a, p, p)
  BY <1>1, <1>4, <1>5, ShowsEach
<1> QED
  BY <1>6 DEF a, p

LEMMA DefinitionSeen ==
  ASSUME prog \in Programs, NEW s, NEW i \in DOMAIN prog, prog[i].kind = "deffn",
         NEW known \in SUBSET Names, NamesOf("globl") \subseteq known
  PROVE  Shows(Site, s, <<Todo("define", <<i>>, NoName, 0)>>, Outside(known), Outside(known))
<1> DEFINE p == Outside(known)
           thing == Todo("define", <<i>>, NoName, 0)
<1>1. p \in Sight /\ p.known = known
  BY OutsideParts
<1>2. <<i>> \in Seq(Nat) /\ "define" \in Doings
  <2>1. "define" \in Doings
    BY DEF Doings
  <2> QED
    BY <2>1, ItemPlace
<1>3. thing \in Thing /\ thing.do = "define" /\ thing.at = <<i>>
  <2> HIDE DEF Doings
  <2> QED
    BY <1>2, Nothing DEF Todo, Thing
<1> HIDE DEF thing
<1>4. p = Outside(p.known)
  BY <1>1
<1> HIDE DEF p
<1>5. Site.items = prog /\ Site.globls = NamesOf("globl")
  BY DEF Site
<1>6. Sees(Site, s, thing, p, p)
  <2>1. \E j \in DOMAIN Site.items : thing.at = <<j>> /\ Site.items[j].kind = "deffn"
    BY <1>3, <1>5
  <2> QED
    BY <1>1, <1>3, <1>4, <1>5, <2>1 DEF Sees
<1>7. Shows(Site, s, <<thing>>, p, p)
  BY <1>1, <1>3, <1>6, ShowsOne
<1> QED
  BY <1>7 DEF p, thing

LEMMA EntrySeen ==
  ASSUME NEW s, NEW known \in SUBSET Names
  PROVE  Shows(Site, s, <<Todo("entry", <<>>, NoName, 0)>>, Outside(known), Outside({}))
<1> DEFINE p == Outside(known)
           q == Outside({})
           thing == Todo("entry", <<>>, NoName, 0)
<1>1. p \in Sight /\ p.known = known /\ q \in Sight
  BY OutsideParts
<1>2. "entry" \in Doings
  BY DEF Doings
<1>3. thing \in Thing /\ thing.do = "entry"
  BY <1>2, PlainTyped
<1> HIDE DEF thing
<1>4. p = Outside(p.known) /\ q = Outside({})
  BY <1>1
<1> HIDE DEF p, q
<1>5. Sees(Site, s, thing, p, q)
  BY <1>3, <1>4 DEF Sees
<1>6. Shows(Site, s, <<thing>>, p, q)
  BY <1>1, <1>3, <1>5, ShowsOne
<1> QED
  BY <1>6 DEF p, q, thing

(* A global is known after its value.                                      *)
LEMMA ValueSeen ==
  ASSUME prog \in Programs, NEW s, NEW i \in DOMAIN prog, prog[i].kind = "globl"
  PROVE  Shows(Site, s, <<Expr(<<i>>), Todo("global", <<i>>, prog[i].name, 0)>>,
               Outside(KnownAfter(i - 1)), Outside(KnownAfter(i)))
<1> DEFINE known == KnownAfter(i - 1)
           name == prog[i].name
           p == Outside(known)
           q == Outside(known \cup {name})
           thing == Todo("global", <<i>>, name, 0)
<1>1. known \in SUBSET Names /\ name \in Names /\ KnownAfter(i) = known \cup {name}
      /\ name \in NamesOf("globl")
  <2>1. i - 1 \in 0 .. Len(prog)
    BY LenProperties, GeneratorAssumption
  <2> QED
    BY <2>1, KnownGrows, ItemTyped DEF NamesOf
<1>2. Expr(<<i>>) \in Thing /\ Sees(Site, s, Expr(<<i>>), Outside(known), Outside(known))
  BY <1>1, ItemSeen
<1> HIDE DEF known, name
<1>3. p \in Sight /\ p.known = known /\ q \in Sight
  BY <1>1, OutsideParts
<1>4. <<i>> \in Seq(Nat) /\ "global" \in Doings
  <2>1. "global" \in Doings
    BY DEF Doings
  <2> QED
    BY <2>1, ItemPlace
<1>5. thing \in Thing /\ thing.do = "global" /\ thing.name = name
  <2> HIDE DEF Doings
  <2> QED
    BY <1>1, <1>4, Nothing DEF Todo, Thing
<1> HIDE DEF thing
<1>6. p = Outside(p.known) /\ q = Outside(p.known \cup {thing.name}) /\ thing.name \in Site.globls
  <2>1. Site.globls = NamesOf("globl")
    BY DEF Site
  <2> QED
    BY <1>1, <1>3, <1>5, <2>1
<1>7. Expr(<<i>>) \in Thing /\ Sees(Site, s, Expr(<<i>>), p, p)
  BY <1>2
<1> HIDE DEF p, q
<1>8. Sees(Site, s, thing, p, q)
  BY <1>5, <1>6 DEF Sees
<1>9. Shows(Site, s, <<Expr(<<i>>), thing>>, p, q)
  BY <1>3, <1>5, <1>7, <1>8, ShowsTwo
<1> QED
  BY <1>1, <1>9 DEF thing, p, q, known, name

LEMMA InitSees == ASSUME Init PROVE ScopingInv
<1> DEFINE closures == [l \in DOMAIN AllLambdas |-> Todo("closure", AllLambdas[l], NoName, 0)]
           define == [i \in DOMAIN prog |-> <<Todo("define", <<i>>, NoName, 0)>>]
           entry == <<Todo("entry", <<>>, NoName, 0)>>
           global == [i \in DOMAIN prog |-> <<Expr(<<i>>), Todo("global", <<i>>, prog[i].name, 0)>>]
           expr == [i \in DOMAIN prog |-> <<Expr(<<i>>)>>]
           definitions == ForEach("deffn", define)
           values == ForEach("globl", global)
           expressions == ForEach("expr", expr)
           n == Len(prog)
           p == Outside(NamesOf("globl"))
           r == Outside(KnownAfter(n))
<1>1. /\ prog \in Programs
      /\ todo = closures \o definitions \o entry \o values \o expressions
      /\ table = NewLexicon /\ globals = NamesOf("globl")
      /\ found = <<>> /\ captured = <<>> /\ jumps = <<>>
  BY DEF Init, TableInit
<1>2. /\ n \in Nat /\ DOMAIN prog = 1 .. n /\ NamesOf("globl") \in SUBSET Names
      /\ \A i \in 0 .. n : KnownAfter(i) \in SUBSET Names
      /\ \A i \in DOMAIN prog : KnownAfter(i - 1) \subseteq KnownAfter(n)
      /\ KnownAfter(0) = {}
  BY <1>1, KnownGrows, LenProperties, GeneratorAssumption
<1>3. /\ p \in Sight /\ IsOpen(p) /\ p.seen = <<Nowhere>> /\ p.claim = <<>> /\ p.known = NamesOf("globl")
      /\ p.stage = "open" /\ r \in Sight
  BY <1>2, OutsideParts
<1>4. Shows(Site, Spoilt, closures, p, p)
  BY <1>1, <1>2, ClosuresSeen
<1>5. Shows(Site, Spoilt, definitions, p, p)
  <2>1. ASSUME NEW i \in DOMAIN prog, prog[i].kind = "deffn" PROVE Shows(Site, Spoilt, define[i], p, p)
    BY <1>1, <1>2, <2>1, DefinitionSeen
  <2> HIDE DEF define, p
  <2> QED
    BY <1>1, <1>3, <2>1, ForEachStays
<1>6. Shows(Site, Spoilt, entry, p, Outside(KnownAfter(0)))
  BY <1>2, EntrySeen
<1>7. Shows(Site, Spoilt, values, Outside(KnownAfter(0)), r)
  <2> DEFINE h == [i \in 0 .. n |-> Outside(KnownAfter(i))]
  <2>1. \A i \in 0 .. n : h[i] = Outside(KnownAfter(i)) /\ Outside(KnownAfter(i)) \in Sight
    BY <1>2, OutsideParts
  <2>2. h \in [0 .. n -> Sight]
    BY <2>1
  <2> HIDE DEF h
  <2>3. ASSUME NEW i \in DOMAIN prog
        PROVE  IF prog[i].kind = "globl" THEN Shows(Site, Spoilt, global[i], h[i - 1], h[i])
               ELSE h[i] = h[i - 1]
    <3>1. i \in 0 .. n /\ i - 1 \in 0 .. n
      BY <1>2
    <3>2. h[i] = Outside(KnownAfter(i)) /\ h[i - 1] = Outside(KnownAfter(i - 1))
      BY <2>1, <3>1
    <3>3. CASE prog[i].kind = "globl"
      BY <1>1, <3>2, <3>3, ValueSeen
    <3>4. CASE prog[i].kind # "globl"
      BY <1>1, <3>2, <3>4, KnownGrows
    <3> QED
      BY <3>3, <3>4
  <2> HIDE DEF global
  <2>4. Shows(Site, Spoilt, ForEach("globl", global), h[0], h[n])
    BY <1>1, <2>2, <2>3, ForEachShows
  <2>5. 0 \in 0 .. n /\ n \in 0 .. n
    BY <1>2
  <2> QED
    BY <2>1, <2>4, <2>5
<1>8. Shows(Site, Spoilt, expressions, r, r)
  <2>1. ASSUME NEW i \in DOMAIN prog, prog[i].kind = "expr" PROVE Shows(Site, Spoilt, expr[i], r, r)
    <3>1. n \in 0 .. n
      BY <1>2
    <3>2. Expr(<<i>>) \in Thing /\ Sees(Site, Spoilt, Expr(<<i>>), r, r)
      BY <1>1, <1>2, <2>1, <3>1, ItemSeen
    <3> HIDE DEF r
    <3>3. Shows(Site, Spoilt, <<Expr(<<i>>)>>, r, r)
      BY <1>3, <3>2, ShowsOne
    <3> QED
      BY <3>3
  <2> HIDE DEF expr, r
  <2> QED
    BY <1>1, <1>3, <2>1, ForEachStays
<1> DEFINE m == Outside(KnownAfter(0))
<1> HIDE DEF closures, definitions, entry, values, expressions, p, r, m
<1>9. Shows(Site, Spoilt, todo, p, r)
  <2>1. Shows(Site, Spoilt, closures \o definitions, p, p)
    BY <1>4, <1>5, ShowsBoth
  <2>2. Shows(Site, Spoilt, (closures \o definitions) \o entry, p, m)
    BY <1>6, <2>1, ShowsBoth DEF m
  <2>3. Shows(Site, Spoilt, ((closures \o definitions) \o entry) \o values, p, r)
    BY <1>7, <2>2, ShowsBoth DEF m
  <2>4. Shows(Site, Spoilt, (((closures \o definitions) \o entry) \o values) \o expressions, p, r)
    BY <1>8, <2>3, ShowsBoth
  <2> QED
    BY <1>1, <2>4
<1>10. Agrees(p)
  <2>1. Len(table.scopes) = 1 /\ table.scopes[1].vars = <<>>
    <3>1. table.scopes = <<NewScope(1)>>
      BY <1>1, NewLexiconHolds
    <3>2. Len(table.scopes) = 1 /\ table.scopes[1] = NewScope(1)
      BY <3>1
    <3> QED
      BY <3>2 DEF NewScope
  <2>2. AllRead(table.scopes, slots, p.seen)
    BY <1>3, <2>1, NothingReads
  <2> QED
    BY <1>1, <1>3, <2>2 DEF Agrees
<1>11. Recorded /\ JumpsMade
  BY <1>1 DEF Recorded, JumpsMade
<1> QED
  BY <1>1, <1>3, <1>9, <1>10, <1>11, InitHolds DEF ScopingInv, Onward
-----------------------------------------------------------------------------
(* Every step keeps the invariant.                                         *)
LEMMA StepSees ==
  ASSUME ScopingInv, [Next]_vars
  PROVE  ScopingInv'
<1>1. GeneratorInv'
  BY StepKeeps DEF ScopingInv
<1>2. CASE Next
  <2>1. CASE PushScopeStep
    BY <1>1, <2>1, PushSees
  <2>2. CASE PopScopeStep
    BY <1>1, <2>2, PopSees
  <2>3. CASE BindStep
    BY <1>1, <2>3, BindSees
  <2>4. CASE BindTemporary
    BY <1>1, <2>4, TemporarySees
  <2>5. CASE SetTailStep
    BY <1>1, <2>5, SetTailSees
  <2>6. CASE BeginClosure
    BY <1>1, <2>6, BeginSees
  <2>7. CASE CaptureStep
    BY <1>1, <2>7, CaptureSees
  <2>8. CASE CountStep
    BY <1>1, <2>8, CountSees
  <2>9. CASE EndClosure
    BY <1>1, <2>9, EndSees
  <2>10. CASE Define
    BY <1>1, <2>10, DefineSees
  <2>11. CASE Entry
    BY <1>1, <2>11, EntrySees
  <2>12. CASE DefineGlobal
    BY <1>1, <2>12, GlobalSees
  <2>13. CASE Constant
    BY <1>1, <2>13, ConstantSees
  <2>14. CASE Variable
    BY <1>1, <2>14, VariableSees
  <2>15. CASE UnaryOperation
    BY <1>1, <2>15, UnarySees
  <2>16. CASE BinaryOperation
    BY <1>1, <2>16, BinarySees
  <2>17. CASE If
    BY <1>1, <2>17, IfSees
  <2>18. CASE CondStep
    BY <1>1, <2>18, CondSees
  <2>19. CASE LetStep
    BY <1>1, <2>19, LetSees
  <2>20. CASE Sequence
    BY <1>1, <2>20, SequenceSees
  <2>21. CASE Assign
    BY <1>1, <2>21, AssignSees
  <2>22. CASE CreateClosure
    BY <1>1, <2>22, CreateSees
  <2>23. CASE CallNamed
    BY <1>1, <2>23, CallNamedSees
  <2>24. CASE CallValue
    BY <1>1, <2>24, CallValueSees
  <2>25. CASE Finish
    BY <1>1, <2>25, FinishSees
  <2>26. CASE BindLabel
    BY <1>1, <2>26, LabelSees
  <2>27. CASE String
    BY <1>1, <2>27, StringSees
  <2>28. CASE QuotedString
    BY <1>1, <2>28, QuotedStringSees
  <2>29. CASE BoxOperation
    BY <1>1, <2>29, BoxSees
  <2>30. CASE ConsOperation
    BY <1>1, <2>30, ConsSees
  <2>31. CASE QuotedList
    BY <1>1, <2>31, QuotedListSees
  <2> QED
    BY <1>2, <2>1, <2>2, <2>3, <2>4, <2>5, <2>6, <2>7, <2>8, <2>9, <2>10, <2>11, <2>12, <2>13,
       <2>14, <2>15, <2>16, <2>17, <2>18, <2>19, <2>20, <2>21, <2>22, <2>23, <2>24, <2>25,
       <2>26, <2>27, <2>28, <2>29, <2>30, <2>31
       DEF Next
<1>3. CASE UNCHANGED vars
  <2>1. UNCHANGED <<prog, globals, todo, table, tail, slots, status>> /\ UNCHANGED history
    BY <1>3 DEF vars, place
  <2>2. NamesOf("globl")' = NamesOf("globl") /\ Site' = Site
    BY <2>1, NamesStay, SiteStays
  <2>3. Recorded' /\ JumpsMade' /\ Spoilt' = Spoilt
    BY <2>1, HistoryStays
  <2>4. ASSUME NEW p \in Sight, Agrees(p) PROVE Agrees(p)'
    <3>1. FrameSlots(p.unit)' = FrameSlots(p.unit) /\ InFrame(p.unit)' = InFrame(p.unit)
      BY <2>1, FramesStay
    <3> QED
      BY <2>1, <2>3, <2>4, <3>1 DEF Agrees
  <2>5. Onward => Onward'
    <3>1. ASSUME NEW p \in Sight, NEW r \in Sight, Shows(Site, Spoilt, todo, p, r)
          PROVE  Shows(Site, Spoilt, todo, p, r)'
      BY <2>1, <2>2, <2>3, <3>1
    <3> QED
      BY <2>4, <3>1 DEF Onward
  <2> QED
    BY <1>1, <2>1, <2>2, <2>3, <2>5 DEF ScopingInv
<1> QED
  BY <1>2, <1>3
-----------------------------------------------------------------------------
(* The theorems.                                                           *)

(* Whatever the program: what the table and the slots give for each name   *)
(* at each step of the walk is what the place in the program says; so is   *)
(* what was recorded of each reference and of each lambda so far.  For a   *)
(* name binary<N> it may be a temporary instead (compile.c:854).           *)
THEOREM ScopingInvariant == Spec => []ScopingInv
<1>1. Init => ScopingInv
  BY InitSees
<1>2. ScopingInv /\ [Next]_vars => ScopingInv'
  BY StepSees
<1> QED
  BY <1>1, <1>2, PTL DEF Spec

(* compile_expr keeps __tail__ as the place in the program is: a call in   *)
(* tail position is made a jump, unless a global was assigned before in    *)
(* the same lambda or definition, after which the flag stays down          *)
(* (compile.c:805).  The program has no global with a name binary<N>.      *)
THEOREM LastCallsAreJumps == Spec => [](Labels \cap NamesOf("globl") = {} => LastCallsJump)
<1>1. ScopingInv => (Labels \cap NamesOf("globl") = {} => LastCallsJump)
  <2> SUFFICES ASSUME ScopingInv, Labels \cap NamesOf("globl") = {},
                      NEW p \in DOMAIN jumps, ~ jumps[p], InTailPlace(p)
               PROVE  \E q \in DOMAIN found : /\ NodeAt(q).kind = "mutst" /\ found[q] = Global
                                              /\ UnitOf(q) = UnitOf(p)
    BY DEF LastCallsJump
  <2>1. UnitOf(p) \in Spoilt
    BY DEF ScopingInv, JumpsMade
  <2> QED
    BY <2>1 DEF Spoilt, Spoils
<1> QED
  BY <1>1, ScopingInvariant, PTL

-----------------------------------------------------------------------------
(* What is in a concatenation.                                             *)

LEMMA JoinedSets ==
  ASSUME NEW S, NEW a \in Seq(S), NEW b \in Seq(S)
  PROVE  a \o b \in Seq(S) /\ ToSet(a \o b) = ToSet(a) \cup ToSet(b)
<1>1. /\ a \o b \in Seq(S) /\ Len(a \o b) = Len(a) + Len(b) /\ Len(a) \in Nat /\ Len(b) \in Nat
      /\ \A i \in 1 .. Len(a) + Len(b) : (a \o b)[i] = IF i <= Len(a) THEN a[i] ELSE b[i - Len(a)]
  BY ConcatProperties, LenProperties
<1>2. DOMAIN (a \o b) = 1 .. Len(a) + Len(b) /\ DOMAIN a = 1 .. Len(a) /\ DOMAIN b = 1 .. Len(b)
  BY <1>1, LenProperties
<1> DEFINE c == a \o b
           n == Len(a)
           m == Len(b)
<1>3. /\ n \in Nat /\ m \in Nat /\ DOMAIN c = 1 .. n + m /\ DOMAIN a = 1 .. n /\ DOMAIN b = 1 .. m
      /\ \A i \in 1 .. n + m : c[i] = IF i <= n THEN a[i] ELSE b[i - n]
  BY <1>1, <1>2
<1> HIDE DEF c, n, m
<1>4. ToSet(c) \subseteq ToSet(a) \cup ToSet(b)
  <2> SUFFICES ASSUME NEW i \in 1 .. n + m PROVE c[i] \in ToSet(a) \cup ToSet(b)
    BY <1>3 DEF ToSet
  <2>1. i <= n => i \in DOMAIN a
    BY <1>3
  <2>2. ~(i <= n) => i - n \in DOMAIN b
    BY <1>3
  <2> QED
    BY <1>3, <2>1, <2>2 DEF ToSet
<1>5. ToSet(a) \subseteq ToSet(c)
  <2> SUFFICES ASSUME NEW i \in 1 .. n PROVE a[i] \in ToSet(c)
    BY <1>3 DEF ToSet
  <2>1. i \in 1 .. n + m /\ i <= n
    BY <1>3
  <2> QED
    BY <1>3, <2>1 DEF ToSet
<1>6. ToSet(b) \subseteq ToSet(c)
  <2> SUFFICES ASSUME NEW i \in 1 .. m PROVE b[i] \in ToSet(c)
    BY <1>3 DEF ToSet
  <2>1. n + i \in 1 .. n + m /\ ~(n + i <= n) /\ (n + i) - n = i
    BY <1>3
  <2> QED
    BY <1>3, <2>1 DEF ToSet
<1> QED
  BY <1>1, <1>4, <1>5, <1>6 DEF c

LEMMA FlatHolds ==
  ASSUME NEW S, NEW n \in Nat, NEW seqs \in [1 .. n -> Seq(S)]
  PROVE  FlattenSeq(seqs) \in Seq(S) /\ \A i \in 1 .. n : ToSet(seqs[i]) \subseteq ToSet(FlattenSeq(seqs))
<1>1. FlattenSeq(seqs) \in Seq(S)
  BY FlattenedAll, EmptySeq, ConcatProperties
<1>2. CASE n = 0
  BY <1>1, <1>2
<1>3. CASE n # 0
  <2>1. PICK flat : Flattening(n, seqs, flat)
    BY <1>3, FlattenSteps
  <2> DEFINE P == {i \in 0 .. n : i > 0 => /\ flat[i] \in Seq(S)
                                           /\ \A j \in 1 .. i : ToSet(seqs[j]) \subseteq ToSet(flat[i])}
  <2>2. 0 \in P
    OBVIOUS
  <2>3. ASSUME NEW i \in 1 .. n, i - 1 \in P PROVE i \in P
    <3>1. seqs[i] \in Seq(S) /\ i \in 0 .. n
      OBVIOUS
    <3>2. CASE i = 1
      <4>1. flat[i] = seqs[i]
        BY <2>1, <3>2 DEF Flattening
      <4>2. \A j \in 1 .. i : j = i
        BY <3>2
      <4> QED
        BY <3>1, <4>1, <4>2
    <3>3. CASE i # 1
      <4>1. flat[i] = flat[i - 1] \o seqs[i]
        BY <2>1, <3>3 DEF Flattening
      <4>2. flat[i - 1] \in Seq(S) /\ \A j \in 1 .. i - 1 : ToSet(seqs[j]) \subseteq ToSet(flat[i - 1])
        BY <2>3, <3>3
      <4>3. flat[i] \in Seq(S) /\ ToSet(flat[i]) = ToSet(flat[i - 1]) \cup ToSet(seqs[i])
        BY <3>1, <4>1, <4>2, JoinedSets
      <4>4. \A j \in 1 .. i : j = i \/ j \in 1 .. i - 1
        OBVIOUS
      <4> QED
        BY <3>1, <4>2, <4>3, <4>4
    <3> QED
      BY <3>2, <3>3
  <2>4. n \in P
    <3> HIDE DEF P
    <3>1. \A i \in 0 .. n : i \in P
      BY <2>2, <2>3, UpTo
    <3> QED
      BY <3>1
  <2> QED
    BY <1>1, <1>3, <2>1, <2>4 DEF Flattening
<1> QED
  BY <1>2, <1>3

(* An item of the kind has what there is for it.                           *)
LEMMA ForEachHolds ==
  ASSUME prog \in Programs, NEW S, NEW kind, NEW things,
         \A i \in DOMAIN prog : prog[i].kind = kind => things[i] \in Seq(S)
  PROVE  /\ ForEach(kind, things) \in Seq(S)
         /\ \A i \in DOMAIN prog : prog[i].kind = kind => ToSet(things[i]) \subseteq ToSet(ForEach(kind, things))
<1> DEFINE seqs == [i \in DOMAIN prog |-> IF prog[i].kind = kind THEN things[i] ELSE <<>>]
<1>1. Len(prog) \in Nat /\ DOMAIN prog = 1 .. Len(prog)
  BY LenProperties, GeneratorAssumption
<1>2. seqs \in [1 .. Len(prog) -> Seq(S)]
  BY <1>1
<1>3. \A i \in DOMAIN prog : prog[i].kind = kind => seqs[i] = things[i]
  OBVIOUS
<1>4. ForEach(kind, things) = FlattenSeq(seqs)
  BY DEF ForEach
<1> HIDE DEF seqs
<1> QED
  BY <1>1, <1>2, <1>3, <1>4, FlatHolds
-----------------------------------------------------------------------------
(* No node is left out: each has been compiled or is below something that  *)
(* is still to be done.                                                    *)

(* A thing to do that will compile the node of a path.                     *)
Starts(thing, q) ==
  \/ thing.do \in {"expr", "define"} /\ q = thing.at
  \/ thing.do = "closure" /\ q = Append(thing.at, 1)
Awaits(things, q) == \E thing \in ToSet(things) : Starts(thing, q)

(* What is recorded of a node that has been compiled.                      *)
Handled(p) ==
  /\ p \in References => p \in DOMAIN found
  /\ IsLambda(p) => p \in DOMAIN captured

(* With some nodes, those they lead to have been compiled, or will be: the *)
(* kids, but that the body of a lambda is compiled where the lambda has    *)
(* its label.                                                              *)
Walked(seen) ==
  /\ \A p \in seen :
       /\ Handled(p)
       /\ ~IsLambda(p) => \A k \in DOMAIN NodeAt(p).kids :
                            Append(p, k) \in seen \/ Awaits(todo, Append(p, k))
  /\ \A i \in DOMAIN prog : <<i>> \in seen \/ Awaits(todo, <<i>>)
  /\ \A l \in ToSet(AllLambdas) : Append(l, 1) \in seen \/ Awaits(todo, Append(l, 1))

Covered == \E seen \in SUBSET Nodes : Walked(seen)

SafetyInv == ScopingInv /\ (status # "refused" => Covered)

LEMMA AwaitsMore ==
  ASSUME NEW a \in Seq(Thing), NEW b \in Seq(Thing), NEW q
  PROVE  Awaits(a \o b, q) <=> Awaits(a, q) \/ Awaits(b, q)
<1>1. ToSet(a \o b) = ToSet(a) \cup ToSet(b)
  BY JoinedSets
<1> QED
  BY <1>1 DEF Awaits

LEMMA AwaitsFirst ==
  ASSUME NEW a \in Seq(Thing), a # <<>>, NEW q
  PROVE  /\ Tail(a) \in Seq(Thing) /\ Head(a) \in Thing
         /\ Awaits(a, q) => Starts(Head(a), q) \/ Awaits(Tail(a), q)
<1>1. /\ Tail(a) \in Seq(Thing) /\ Len(a) \in Nat \ {0} /\ Len(Tail(a)) = Len(a) - 1 /\ Head(a) = a[1]
      /\ \A i \in 1 .. Len(a) - 1 : Tail(a)[i] = a[i + 1]
      /\ Head(a) \in Thing
  BY HeadTailProperties, LenProperties, EmptySeq, ElementOfSeq
<1>2. DOMAIN a = 1 .. Len(a) /\ DOMAIN Tail(a) = 1 .. Len(a) - 1
  BY <1>1, LenProperties
<1>3. ASSUME NEW i \in DOMAIN a, Starts(a[i], q), i # 1 PROVE Awaits(Tail(a), q)
  <2>1. i - 1 \in 1 .. Len(a) - 1 /\ (i - 1) + 1 = i
    BY <1>1, <1>2, <1>3
  <2>2. Tail(a)[i - 1] = a[i]
    BY <1>1, <2>1
  <2>3. Tail(a)[i - 1] \in ToSet(Tail(a))
    BY <1>2, <2>1 DEF ToSet
  <2> QED
    BY <1>3, <2>2, <2>3 DEF Awaits
<1>4. Awaits(a, q) => \E i \in DOMAIN a : Starts(a[i], q)
  BY DEF Awaits, ToSet
<1> QED
  BY <1>1, <1>3, <1>4

(* What is to be done is a sequence of things.                             *)
LEMMA AllThings ==
  ASSUME ScopingInv, status # "refused"
  PROVE  todo \in Seq(Thing)
<1>1. Onward
  BY DEF ScopingInv
<1>2. PICK p \in Sight, r \in Sight : Agrees(p) /\ Shows(Site, Spoilt, todo, p, r)
  BY <1>1, Zenon DEF Onward
<1>3. Shows(Site, Spoilt, todo, p, r)
  BY <1>2
<1> HIDE <1>2
<1> QED
  BY <1>3, Zenon DEF Shows, Runs

LEMMA HandledStays ==
  ASSUME prog' = prog, DOMAIN found \subseteq DOMAIN found', DOMAIN captured \subseteq DOMAIN captured',
         NEW p, Handled(p)
  PROVE  Handled(p)'
<1>1. References' = References /\ NodeAt(p)' = NodeAt(p)
  BY NodesStay
<1> QED
  BY <1>1 DEF Handled, IsLambda

(* The first of the things is replaced by what it leads to, and some nodes *)
(* have been met.                                                          *)
LEMMA CoversOn ==
  ASSUME ScopingInv, status # "refused", Covered, todo # <<>>,
         prog' = prog, DOMAIN found \subseteq DOMAIN found', DOMAIN captured \subseteq DOMAIN captured',
         NEW things \in Seq(Thing), todo' = things \o Tail(todo),
         NEW met \in SUBSET Nodes,
         \A q : Starts(Head(todo), q) => q \in met \/ Awaits(things, q),
         \A p \in met : Handled(p)' /\ (~IsLambda(p) => \A k \in DOMAIN NodeAt(p).kids :
                                                           Awaits(things, Append(p, k)))
  PROVE  Covered'
<1>1. todo \in Seq(Thing) /\ Tail(todo) \in Seq(Thing)
  <2>1. todo \in Seq(Thing)
    BY AllThings
  <2> QED
    BY <2>1, HeadTailProperties
<1>2. PICK seen \in SUBSET Nodes : Walked(seen)
  BY DEF Covered
<1> DEFINE new == seen \cup met
<1>3. ASSUME NEW q, q \in seen \/ Awaits(todo, q) PROVE q \in new \/ Awaits(todo', q)
  BY <1>1, <1>3, AwaitsFirst, AwaitsMore
<1>4. \A q : Awaits(things, q) => Awaits(todo', q)
  BY <1>1, AwaitsMore
<1>5. /\ Nodes' = Nodes /\ ToSet(AllLambdas)' = ToSet(AllLambdas)
      /\ \A p : NodeAt(p)' = NodeAt(p) /\ (IsLambda(p)' <=> IsLambda(p))
  <2>1. Nodes' = Nodes /\ \A p : NodeAt(p)' = NodeAt(p)
    BY NodesStay
  <2>2. \A p : IsLambda(p)' <=> IsLambda(p)
    BY <2>1 DEF IsLambda
  <2> QED
    BY <2>1, <2>2, LambdasStay
<1>6. new \in SUBSET Nodes
  OBVIOUS
<1>7. ASSUME NEW p \in new
      PROVE  /\ Handled(p)'
             /\ ~IsLambda(p) => \A k \in DOMAIN NodeAt(p).kids :
                                  Append(p, k) \in new \/ Awaits(todo', Append(p, k))
  <2>1. CASE p \in seen
    <3>1. Handled(p) /\ (~IsLambda(p) => \A k \in DOMAIN NodeAt(p).kids :
                                           Append(p, k) \in seen \/ Awaits(todo, Append(p, k)))
      BY <1>2, <2>1 DEF Walked
    <3>2. Handled(p)'
      BY <3>1, HandledStays
    <3> HIDE DEF new
    <3> QED
      BY <1>3, <3>1, <3>2
  <2>2. CASE p \in met
    <3> HIDE DEF new
    <3> QED
      BY <1>4, <2>2
  <2> QED
    BY <2>1, <2>2
<1>8. /\ \A i \in DOMAIN prog : <<i>> \in new \/ Awaits(todo', <<i>>)
      /\ \A l \in ToSet(AllLambdas) : Append(l, 1) \in new \/ Awaits(todo', Append(l, 1))
  <2> HIDE DEF new
  <2> QED
    BY <1>2, <1>3 DEF Walked
<1> HIDE DEF new
<1>9. Walked(new)'
  <2>1. \A q : Awaits(todo, q)' <=> Awaits(todo', q)
    BY DEF Awaits, Starts, ToSet
  <2> QED
    BY <1>5, <1>7, <1>8, <2>1 DEF Walked
<1> QED
  BY <1>5, <1>6, <1>9 DEF Covered

(* The first thing leads to nothing, and it compiles no node.              *)
LEMMA CoversAlone ==
  ASSUME ScopingInv, Covered, NEW do, NextIs(do), do \notin {"expr", "define", "closure"},
         UNCHANGED <<prog, found, captured>>, todo' = <<>> \o Tail(todo)
  PROVE  Covered'
<1> DEFINE none == <<>>
           met == {}
<1>1. none \in Seq(Thing) /\ todo' = none \o Tail(todo) /\ met \in SUBSET Nodes
  OBVIOUS
<1>2. status # "refused" /\ todo # <<>> /\ Head(todo).do = do
  BY DEF NextIs
<1>3. \A q : ~Starts(Head(todo), q)
  BY <1>2 DEF Starts
<1>4. \A p \in met : Handled(p)' /\ (~IsLambda(p) => \A k \in DOMAIN NodeAt(p).kids :
                                                        Awaits(none, Append(p, k)))
  OBVIOUS
<1> HIDE DEF none, met
<1> QED
  BY <1>1, <1>2, <1>3, <1>4, CoversOn

(* The node is compiled, and with it, in time, its kids.                   *)
LEMMA ExpressionCovers ==
  ASSUME ScopingInv, NextIs("expr"), Covered, NEW path, path = Path,
         prog' = prog, DOMAIN found \subseteq DOMAIN found', DOMAIN captured \subseteq DOMAIN captured',
         NEW things \in Seq(Thing), todo' = things \o Tail(todo), Handled(path)',
         Here.kind # "close" => \A k \in DOMAIN Here.kids : Kid(Path, k) \in ToSet(things)
  PROVE  Covered'
<1>1. status # "refused" /\ todo # <<>> /\ Head(todo).do = "expr"
  BY DEF NextIs
<1>2. path \in Nodes /\ Here = NodeAt(path)
  BY ExprHere
<1> DEFINE met == {path}
<1>3. met \in SUBSET Nodes
  BY <1>2
<1>4. \A q : Starts(Head(todo), q) => q \in met
  BY <1>1 DEF Starts, Path
<1>5. \A k : Starts(Kid(path, k), Append(path, k))
  BY DEF Starts, Kid, Expr, Todo
<1>6. ~IsLambda(path) => \A k \in DOMAIN NodeAt(path).kids : Awaits(things, Append(path, k))
  BY <1>2, <1>5 DEF Awaits, IsLambda
<1>7. \A p \in met : p = path
  OBVIOUS
<1>8. ASSUME NEW p \in met
      PROVE  Handled(p)' /\ (~IsLambda(p) => \A k \in DOMAIN NodeAt(p).kids :
                                                Awaits(things, Append(p, k)))
  <2>1. p = path
    BY <1>7
  <2> QED
    BY <1>6, <2>1
<1> HIDE DEF met
<1> QED
  BY <1>1, <1>3, <1>4, <1>8, CoversOn

(* A node of which nothing is to be recorded.                              *)
LEMMA PlainHandled ==
  ASSUME ScopingInv, NextIs("expr"), NEW path, path = Path, prog' = prog,
         Here.kind \notin {"varbl", "callf", "mutst", "close"}
  PROVE  Handled(path)'
<1>1. Here = NodeAt(path)
  BY ExprHere
<1>2. References' = References /\ NodeAt(path)' = NodeAt(path)
  BY NodesStay
<1>3. path \notin References /\ ~IsLambda(path)
  BY <1>1 DEF References, OfKind, IsLambda
<1> QED
  BY <1>2, <1>3 DEF Handled, IsLambda
-----------------------------------------------------------------------------
(* The kinds of expressions: each leads to all its kids.                   *)

LEMMA TailTyped == ASSUME NEW t \in {0, 1} PROVE SetTail(t) \in Thing
<1>1. "tail" \in Doings /\ t \in Nat
  BY DEF Doings
<1> QED
  BY <1>1, Nothing, TodoTyped DEF SetTail

LEMMA ExprTyped == ASSUME NEW path \in Seq(Nat) PROVE Expr(path) \in Thing
<1>1. "expr" \in Doings /\ 0 \in Nat
  BY DEF Doings
<1> QED
  BY <1>1, Nothing, TodoTyped DEF Expr

LEMMA PushTyped == PushIt \in Thing /\ PopIt \in Thing /\ TempIt \in Thing /\ LabelIt \in Thing
  BY Nothing, TodoTyped DEF PushIt, PopIt, TempIt, LabelIt, Doings

LEMMA BindTyped ==
  ASSUME NEW path \in Seq(Nat), NEW name \in Names, NEW i \in Nat
  PROVE  BindIt(path, name, i) \in Thing
<1>1. "bind" \in Doings
  BY DEF Doings
<1> QED
  BY <1>1, TodoTyped DEF BindIt

LEMMA ThingsHere ==
  ASSUME ScopingInv, NextIs("expr")
  PROVE  /\ SetTail(tail) \in Thing /\ SetTail(0) \in Thing
         /\ \A k \in DOMAIN Here.kids : Kid(Path, k) \in Thing
         /\ \A i \in DOMAIN Here.names : BindIt(Path, Here.names[i], i) \in Thing
         /\ Len(Here.kids) \in Nat /\ DOMAIN Here.kids = 1 .. Len(Here.kids)
         /\ Len(Here.names) \in Nat /\ DOMAIN Here.names = 1 .. Len(Here.names) /\ WellFormed(Here)
<1>1. Path \in Seq(Nat) /\ tail \in {0, 1}
  BY ExprHere
<1>2. /\ Here.names \in Seq(Names) /\ WellFormed(Here)
      /\ Len(Here.kids) \in Nat /\ DOMAIN Here.kids = 1 .. Len(Here.kids)
  BY KidsHere DEF ScopingInv
<1>3. Len(Here.names) \in Nat /\ DOMAIN Here.names = 1 .. Len(Here.names)
  BY <1>2, LenProperties
<1>4. ASSUME NEW k \in DOMAIN Here.kids PROVE Kid(Path, k) \in Thing
  <2>1. Append(Path, k) \in Seq(Nat)
    BY <1>1, <1>2, AppendProperties
  <2> QED
    BY <2>1, ExprTyped DEF Kid
<1>5. ASSUME NEW i \in DOMAIN Here.names PROVE BindIt(Path, Here.names[i], i) \in Thing
  <2>1. Here.names[i] \in Names /\ i \in Nat
    BY <1>2, <1>3, ElementOfSeq
  <2> QED
    BY <1>1, <2>1, BindTyped
<1> QED
  BY <1>1, <1>2, <1>3, <1>4, <1>5, TailTyped

(* Nothing is recorded of the node that is compiled.                       *)
LEMMA PlainCovers ==
  ASSUME ScopingInv, NextIs("expr"), Covered, prog' = prog, found' = found, captured' = captured,
         Here.kind \notin {"varbl", "callf", "mutst", "close"},
         NEW things \in Seq(Thing), todo' = things \o Tail(todo),
         \A k \in DOMAIN Here.kids : Kid(Path, k) \in ToSet(things)
  PROVE  Covered'
<1>1. PICK path : path = Path
  OBVIOUS
<1>2. Handled(path)'
  BY <1>1, PlainHandled
<1> QED
  BY <1>1, <1>2, ExpressionCovers

LEMMA ConstantCovers == ASSUME ScopingInv, Covered, Constant PROVE Covered'
<1> DEFINE none == <<>>
<1>1. /\ NextIs("expr") /\ todo' = none \o Tail(todo) /\ Here.kind = "integ"
      /\ prog' = prog /\ found' = found /\ captured' = captured
  BY DEF Constant, NextNode, Leads, place, history
<1>2. none \in Seq(Thing)
  OBVIOUS
<1>3. \A k : k \notin DOMAIN Here.kids
  BY <1>1, ThingsHere DEF WellFormed
<1> HIDE DEF none
<1> QED
  BY <1>1, <1>2, <1>3, PlainCovers

LEMMA StringCovers == ASSUME ScopingInv, Covered, String PROVE Covered'
<1> DEFINE things == <<PushIt, TempIt, PopIt>>
<1>1. /\ NextIs("expr") /\ todo' = things \o Tail(todo) /\ Here.kind = "strng"
      /\ prog' = prog /\ found' = found /\ captured' = captured
  BY DEF String, NextNode, Leads, place, history
<1>2. things \in Seq(Thing)
  BY PushTyped
<1>3. \A k : k \notin DOMAIN Here.kids
  BY <1>1, ThingsHere DEF WellFormed
<1> HIDE DEF things
<1> QED
  BY <1>1, <1>2, <1>3, PlainCovers

LEMMA QuotedStringCovers == ASSUME ScopingInv, Covered, QuotedString PROVE Covered'
<1> DEFINE things == <<PushIt, TempIt, PushIt, TempIt, PopIt, PopIt>>
<1>1. /\ NextIs("expr") /\ todo' = things \o Tail(todo) /\ Here.kind = "lqstr"
      /\ prog' = prog /\ found' = found /\ captured' = captured
  BY DEF QuotedString, NextNode, Leads, place, history
<1>2. things \in Seq(Thing)
  BY PushTyped
<1>3. \A k : k \notin DOMAIN Here.kids
  BY <1>1, ThingsHere DEF WellFormed
<1> HIDE DEF things
<1> QED
  BY <1>1, <1>2, <1>3, PlainCovers

LEMMA UnaryCovers == ASSUME ScopingInv, Covered, UnaryOperation PROVE Covered'
<1> DEFINE things == <<Kid(Path, 1), SetTail(tail)>>
<1>1. /\ NextIs("expr") /\ todo' = things \o Tail(todo) /\ Here.kind \in {"unary", "fileop"}
      /\ prog' = prog /\ found' = found /\ captured' = captured
  BY DEF UnaryOperation, NextNode, Leads, place, history
<1>2. DOMAIN Here.kids = {1}
  BY <1>1, ThingsHere DEF WellFormed
<1>3. Kid(Path, 1) \in Thing /\ SetTail(tail) \in Thing
  BY <1>1, <1>2, ThingsHere
<1>4. things \in Seq(Thing) /\ Kid(Path, 1) \in ToSet(things)
  <2> HIDE DEF Kid, SetTail
  <2>1. things \in Seq(Thing) /\ 1 \in DOMAIN things /\ things[1] = Kid(Path, 1)
    BY <1>3
  <2> QED
    BY <2>1 DEF ToSet
<1> HIDE DEF things
<1> QED
  BY <1>1, <1>2, <1>4, PlainCovers

LEMMA BoxCovers == ASSUME ScopingInv, Covered, BoxOperation PROVE Covered'
<1> DEFINE things == <<PushIt, TempIt, Kid(Path, 1), PopIt, SetTail(tail)>>
<1>1. /\ NextIs("expr") /\ todo' = things \o Tail(todo) /\ Here.kind = "boxop"
      /\ prog' = prog /\ found' = found /\ captured' = captured
  BY DEF BoxOperation, NextNode, Leads, place, history
<1>2. DOMAIN Here.kids = {1}
  BY <1>1, ThingsHere DEF WellFormed
<1>3. Kid(Path, 1) \in Thing /\ SetTail(tail) \in Thing
  BY <1>1, <1>2, ThingsHere
<1>4. things \in Seq(Thing) /\ 3 \in DOMAIN things /\ things[3] = Kid(Path, 1)
  BY <1>3, PushTyped
<1> HIDE DEF things
<1>5. Kid(Path, 1) \in ToSet(things)
  BY <1>4 DEF ToSet
<1> QED
  BY <1>1, <1>2, <1>4, <1>5, PlainCovers

LEMMA ConsCovers == ASSUME ScopingInv, Covered, ConsOperation PROVE Covered'
<1> DEFINE things == <<PushIt, LabelIt, PushIt, TempIt, Kid(Path, 1), Kid(Path, 2), PopIt, PopIt,
                       SetTail(tail)>>
<1>1. /\ NextIs("expr") /\ todo' = things \o Tail(todo) /\ Here.kind = "cons"
      /\ prog' = prog /\ found' = found /\ captured' = captured
  BY DEF ConsOperation, NextNode, Leads, place, history
<1>2. DOMAIN Here.kids = {1, 2}
  BY <1>1, ThingsHere DEF WellFormed
<1>3. Kid(Path, 1) \in Thing /\ Kid(Path, 2) \in Thing /\ SetTail(tail) \in Thing
  BY <1>1, <1>2, ThingsHere
<1>4. /\ things \in Seq(Thing) /\ 5 \in DOMAIN things /\ 6 \in DOMAIN things
      /\ things[5] = Kid(Path, 1) /\ things[6] = Kid(Path, 2)
  BY <1>3, PushTyped
<1> HIDE DEF things
<1>5. Kid(Path, 1) \in ToSet(things) /\ Kid(Path, 2) \in ToSet(things)
  BY <1>4 DEF ToSet
<1> QED
  BY <1>1, <1>2, <1>4, <1>5, PlainCovers

LEMMA QuotedListCovers == ASSUME ScopingInv, Covered, QuotedList PROVE Covered'
<1> DEFINE n == Len(Here.kids)
           Also(i) == IF i = 1 THEN <<Kid(Path, n)>> ELSE <<>>
           Begun(i) == <<SetTail(0), Kid(Path, n - i)>>
           Round(i) == Begun(i) \o Also(i) \o <<SetTail(tail)>>
           rounds == [i \in 1 .. n - 1 |-> Round(i)]
           first == <<PushIt, TempIt, PushIt, TempIt, TempIt>>
           last == <<PopIt, PopIt>>
           most == first \o FlattenSeq(rounds)
           things == most \o last
<1>1. /\ NextIs("expr") /\ todo' = things \o Tail(todo) /\ Here.kind = "cquot"
      /\ prog' = prog /\ found' = found /\ captured' = captured
  BY DEF QuotedList, NextNode, Leads, place, history
<1>2. n \in Nat /\ n >= 2 /\ DOMAIN Here.kids = 1 .. n
  BY <1>1, ThingsHere DEF WellFormed
<1> HIDE DEF n
<1>3. /\ n - 1 \in Nat /\ n \in DOMAIN Here.kids /\ 1 \in 1 .. n - 1
      /\ \A i \in 1 .. n - 1 : n - i \in DOMAIN Here.kids
      /\ \A k \in DOMAIN Here.kids : k # n => n - k \in 1 .. n - 1 /\ k = n - (n - k)
  BY <1>2
<1>4. ASSUME NEW i \in 1 .. n - 1
      PROVE  /\ Round(i) \in Seq(Thing) /\ Kid(Path, n - i) \in ToSet(Round(i))
             /\ i = 1 => Kid(Path, n) \in ToSet(Round(i))
  <2>1. Kid(Path, n - i) \in Thing /\ Kid(Path, n) \in Thing /\ SetTail(0) \in Thing /\ SetTail(tail) \in Thing
    BY <1>1, <1>3, ThingsHere
  <2> DEFINE begun == Begun(i)
             also == Also(i)
             ended == <<SetTail(tail)>>
  <2>2. begun \in Seq(Thing) /\ 2 \in DOMAIN begun /\ begun[2] = Kid(Path, n - i)
    BY <2>1
  <2>3. also \in Seq(Thing) /\ (i = 1 => 1 \in DOMAIN also /\ also[1] = Kid(Path, n)) /\ ended \in Seq(Thing)
    BY <2>1
  <2> HIDE DEF begun, also, ended
  <2>4. Kid(Path, n - i) \in ToSet(begun) /\ (i = 1 => Kid(Path, n) \in ToSet(also))
    BY <2>2, <2>3 DEF ToSet
  <2> DEFINE both == begun \o also
  <2>5. both \in Seq(Thing) /\ ToSet(both) = ToSet(begun) \cup ToSet(also)
    BY <2>2, <2>3, JoinedSets
  <2>6. Round(i) = both \o ended
    BY DEF begun, also, ended
  <2> HIDE DEF both
  <2>7. both \o ended \in Seq(Thing) /\ ToSet(both \o ended) = ToSet(both) \cup ToSet(ended)
    BY <2>3, <2>5, JoinedSets
  <2> QED
    BY <2>4, <2>5, <2>6, <2>7
<1>5. rounds \in [1 .. n - 1 -> Seq(Thing)] /\ \A i \in 1 .. n - 1 : rounds[i] = Round(i)
  <2> HIDE DEF Round
  <2> QED
    BY <1>4
<1>6. first \in Seq(Thing) /\ last \in Seq(Thing)
  BY PushTyped
<1> HIDE DEF first, last, rounds, Round
<1>7. /\ FlattenSeq(rounds) \in Seq(Thing)
      /\ \A i \in 1 .. n - 1 : ToSet(rounds[i]) \subseteq ToSet(FlattenSeq(rounds))
  BY <1>3, <1>5, FlatHolds
<1>8. most \in Seq(Thing) /\ ToSet(FlattenSeq(rounds)) \subseteq ToSet(most)
  BY <1>6, <1>7, JoinedSets
<1> HIDE DEF most
<1>9. things \in Seq(Thing) /\ ToSet(FlattenSeq(rounds)) \subseteq ToSet(things)
  BY <1>6, <1>8, JoinedSets
<1> HIDE DEF things
<1>10. ASSUME NEW i \in 1 .. n - 1
       PROVE  Kid(Path, n - i) \in ToSet(things) /\ (i = 1 => Kid(Path, n) \in ToSet(things))
  BY <1>4, <1>5, <1>7, <1>9
<1>11. \A k \in DOMAIN Here.kids : Kid(Path, k) \in ToSet(things)
  BY <1>3, <1>10
<1> QED
  BY <1>1, <1>9, <1>11, PlainCovers

LEMMA BinaryCovers == ASSUME ScopingInv, Covered, BinaryOperation PROVE Covered'
<1> DEFINE things == <<PushIt, LabelIt, Kid(Path, 1), Kid(Path, 2), PopIt, SetTail(tail)>>
<1>1. /\ NextIs("expr") /\ todo' = things \o Tail(todo) /\ Here.kind = "binary"
      /\ prog' = prog /\ found' = found /\ captured' = captured
  BY DEF BinaryOperation, NextNode, Leads, place, history
<1>2. DOMAIN Here.kids = {1, 2}
  BY <1>1, ThingsHere DEF WellFormed
<1>3. Kid(Path, 1) \in Thing /\ Kid(Path, 2) \in Thing /\ SetTail(tail) \in Thing
  BY <1>1, <1>2, ThingsHere
<1>4. /\ things \in Seq(Thing) /\ 3 \in DOMAIN things /\ 4 \in DOMAIN things
      /\ things[3] = Kid(Path, 1) /\ things[4] = Kid(Path, 2)
  BY <1>3, PushTyped
<1> HIDE DEF things
<1>5. Kid(Path, 1) \in ToSet(things) /\ Kid(Path, 2) \in ToSet(things)
  BY <1>4 DEF ToSet
<1> QED
  BY <1>1, <1>2, <1>4, <1>5, PlainCovers

LEMMA IfCovers == ASSUME ScopingInv, Covered, If PROVE Covered'
<1> DEFINE things == <<Kid(Path, 1), SetTail(tail), Kid(Path, 3), Kid(Path, 2)>>
<1>1. /\ NextIs("expr") /\ todo' = things \o Tail(todo) /\ Here.kind = "ifexp"
      /\ prog' = prog /\ found' = found /\ captured' = captured
  BY DEF If, NextNode, Leads, place, history
<1>2. DOMAIN Here.kids = {1, 2, 3}
  BY <1>1, ThingsHere DEF WellFormed
<1>3. Kid(Path, 1) \in Thing /\ Kid(Path, 2) \in Thing /\ Kid(Path, 3) \in Thing /\ SetTail(tail) \in Thing
  BY <1>1, <1>2, ThingsHere
<1>4. /\ things \in Seq(Thing) /\ 1 \in DOMAIN things /\ 3 \in DOMAIN things /\ 4 \in DOMAIN things
      /\ things[1] = Kid(Path, 1) /\ things[3] = Kid(Path, 3) /\ things[4] = Kid(Path, 2)
  BY <1>3
<1> HIDE DEF things
<1>5. Kid(Path, 1) \in ToSet(things) /\ Kid(Path, 2) \in ToSet(things) /\ Kid(Path, 3) \in ToSet(things)
  BY <1>4 DEF ToSet
<1> QED
  BY <1>1, <1>2, <1>4, <1>5, PlainCovers

LEMMA SequenceCovers == ASSUME ScopingInv, Covered, Sequence PROVE Covered'
<1> DEFINE things == <<Kid(Path, 1), SetTail(tail), Kid(Path, 2)>>
<1>1. /\ NextIs("expr") /\ todo' = things \o Tail(todo) /\ Here.kind = "multi"
      /\ prog' = prog /\ found' = found /\ captured' = captured
  BY DEF Sequence, NextNode, Leads, place, history
<1>2. DOMAIN Here.kids = {1, 2}
  BY <1>1, ThingsHere DEF WellFormed
<1>3. Kid(Path, 1) \in Thing /\ Kid(Path, 2) \in Thing /\ SetTail(tail) \in Thing
  BY <1>1, <1>2, ThingsHere
<1>4. /\ things \in Seq(Thing) /\ 1 \in DOMAIN things /\ 3 \in DOMAIN things
      /\ things[1] = Kid(Path, 1) /\ things[3] = Kid(Path, 2)
  BY <1>3
<1> HIDE DEF things
<1>5. Kid(Path, 1) \in ToSet(things) /\ Kid(Path, 2) \in ToSet(things)
  BY <1>4 DEF ToSet
<1> QED
  BY <1>1, <1>2, <1>4, <1>5, PlainCovers

(* A number up to an odd one is the last, or one of a pair.                *)
LEMMA PairOf ==
  ASSUME NEW n \in Nat, n % 2 = 1, NEW k \in 1 .. n, k # n
  PROVE  \E i \in 1 .. n \div 2 : k = 2 * i - 1 \/ k = 2 * i
<1> DEFINE half == n \div 2
           i == (k + 1) \div 2
<1>1. half \in Nat /\ n = 2 * half + 1
  OBVIOUS
<1>2. i \in Nat /\ (k + 1 = 2 * i \/ k + 1 = 2 * i + 1)
  <2> DEFINE m == k + 1
  <2>1. m \in Nat
    OBVIOUS
  <2> HIDE DEF m
  <2>2. m \div 2 \in Nat /\ (m = 2 * (m \div 2) \/ m = 2 * (m \div 2) + 1)
    BY <2>1
  <2> QED
    BY <2>2 DEF m
<1> HIDE DEF half, i
<1>3. i \in 1 .. half
  BY <1>1, <1>2
<1>4. k = 2 * i - 1 \/ k = 2 * i
  BY <1>2
<1> QED
  BY <1>3, <1>4 DEF half

LEMMA CondCovers == ASSUME ScopingInv, Covered, CondStep PROVE Covered'
<1> DEFINE Clause(i) == <<SetTail(0), Kid(Path, 2 * i - 1), SetTail(tail), Kid(Path, 2 * i)>>
           n == Len(Here.kids)
           half == n \div 2
           clauses == [i \in 1 .. Len(Here.kids) \div 2 |-> Clause(i)]
           last == <<Kid(Path, Len(Here.kids))>>
           things == FlattenSeq(clauses) \o last
<1>1. /\ NextIs("expr") /\ todo' = things \o Tail(todo) /\ Here.kind = "conde"
      /\ prog' = prog /\ found' = found /\ captured' = captured
  BY DEF CondStep, NextNode, Leads, place, history
<1>2. n \in Nat /\ n % 2 = 1 /\ DOMAIN Here.kids = 1 .. n
  BY <1>1, ThingsHere DEF WellFormed
<1>3. /\ half \in Nat /\ n \in DOMAIN Here.kids
      /\ \A i \in 1 .. half : 2 * i - 1 \in DOMAIN Here.kids /\ 2 * i \in DOMAIN Here.kids
  BY <1>2, Halves
<1>4. \A k \in DOMAIN Here.kids : k = n \/ \E i \in 1 .. half : k = 2 * i - 1 \/ k = 2 * i
  <2> HIDE DEF n
  <2> QED
    BY <1>2, PairOf
<1> HIDE DEF half, n
<1>5. ASSUME NEW i \in 1 .. half
      PROVE  /\ Clause(i) \in Seq(Thing)
             /\ Kid(Path, 2 * i - 1) \in ToSet(Clause(i)) /\ Kid(Path, 2 * i) \in ToSet(Clause(i))
  <2> DEFINE c == Clause(i)
  <2>1. Kid(Path, 2 * i - 1) \in Thing /\ Kid(Path, 2 * i) \in Thing /\ SetTail(0) \in Thing /\ SetTail(tail) \in Thing
    BY <1>1, <1>3, ThingsHere
  <2>2. c \in Seq(Thing) /\ 2 \in DOMAIN c /\ 4 \in DOMAIN c /\ c[2] = Kid(Path, 2 * i - 1) /\ c[4] = Kid(Path, 2 * i)
    BY <2>1
  <2> HIDE DEF c, Clause
  <2>3. Kid(Path, 2 * i - 1) \in ToSet(c) /\ Kid(Path, 2 * i) \in ToSet(c)
    BY <2>2 DEF ToSet
  <2> QED
    BY <2>2, <2>3 DEF c
<1>6. clauses \in [1 .. half -> Seq(Thing)] /\ \A i \in 1 .. half : clauses[i] = Clause(i)
  <2>1. clauses = [i \in 1 .. half |-> Clause(i)]
    BY DEF half, n
  <2> HIDE DEF clauses, Clause
  <2> QED
    BY <1>5, <2>1
<1>7. last \in Seq(Thing) /\ Kid(Path, n) \in ToSet(last)
  <2>1. Kid(Path, n) \in Thing
    BY <1>1, <1>3, ThingsHere
  <2>2. last \in Seq(Thing) /\ 1 \in DOMAIN last /\ last[1] = Kid(Path, n)
    BY <2>1 DEF n
  <2> HIDE DEF last
  <2> QED
    BY <2>2 DEF ToSet
<1> HIDE DEF last, clauses, Clause
<1>8. /\ FlattenSeq(clauses) \in Seq(Thing)
      /\ \A i \in 1 .. half : ToSet(clauses[i]) \subseteq ToSet(FlattenSeq(clauses))
  BY <1>3, <1>6, FlatHolds
<1>9. things \in Seq(Thing) /\ ToSet(things) = ToSet(FlattenSeq(clauses)) \cup ToSet(last)
  BY <1>7, <1>8, JoinedSets
<1>10. \A k \in DOMAIN Here.kids : Kid(Path, k) \in ToSet(things)
  <2> HIDE DEF things
  <2>1. ASSUME NEW i \in 1 .. half, NEW k, k = 2 * i - 1 \/ k = 2 * i PROVE Kid(Path, k) \in ToSet(things)
    <3>1. Kid(Path, k) \in ToSet(Clause(i))
      BY <1>5, <2>1
    <3> QED
      BY <1>6, <1>8, <1>9, <3>1
  <2> QED
    BY <1>4, <1>7, <1>9, <2>1
<1> HIDE DEF things
<1> QED
  BY <1>1, <1>9, <1>10, PlainCovers

LEMMA LetCovers == ASSUME ScopingInv, Covered, LetStep PROVE Covered'
<1> DEFINE Clause(i) == <<BindIt(Path, Here.names[i], i), Kid(Path, i)>>
           clauses == [i \in DOMAIN Here.names |-> Clause(i)]
           ending == <<SetTail(tail), Kid(Path, Len(Here.kids)), PopIt>>
           first == <<PushIt>>
           most == first \o FlattenSeq(clauses)
           things == most \o ending
           n == Len(Here.names)
<1>1. /\ NextIs("expr") /\ todo' = things \o Tail(todo) /\ Here.kind = "letex"
      /\ prog' = prog /\ found' = found /\ captured' = captured
  BY DEF LetStep, NextNode, Leads, place, history
<1>2. n \in Nat /\ DOMAIN Here.names = 1 .. n /\ DOMAIN Here.kids = 1 .. n + 1 /\ Len(Here.kids) = n + 1
  BY <1>1, ThingsHere DEF WellFormed
<1> HIDE DEF n
<1>3. ASSUME NEW i \in 1 .. n PROVE Clause(i) \in Seq(Thing) /\ Kid(Path, i) \in ToSet(Clause(i))
  <2> DEFINE c == Clause(i)
  <2>1. i \in DOMAIN Here.kids /\ i \in DOMAIN Here.names
    BY <1>2
  <2>2. Kid(Path, i) \in Thing /\ BindIt(Path, Here.names[i], i) \in Thing
    BY <1>1, <2>1, ThingsHere
  <2>3. c \in Seq(Thing) /\ 2 \in DOMAIN c /\ c[2] = Kid(Path, i)
    BY <2>2
  <2> HIDE DEF c, Clause
  <2>4. Kid(Path, i) \in ToSet(c)
    BY <2>3 DEF ToSet
  <2> QED
    BY <2>3, <2>4 DEF c
<1>4. clauses \in [1 .. n -> Seq(Thing)] /\ \A i \in 1 .. n : clauses[i] = Clause(i)
  <2>1. clauses = [i \in 1 .. n |-> Clause(i)]
    BY <1>2
  <2> HIDE DEF clauses, Clause
  <2> QED
    BY <1>3, <2>1
<1>5. ending \in Seq(Thing) /\ Kid(Path, n + 1) \in ToSet(ending) /\ first \in Seq(Thing)
  <2>1. n + 1 \in DOMAIN Here.kids
    BY <1>2
  <2>2. Kid(Path, n + 1) \in Thing /\ SetTail(tail) \in Thing
    BY <1>1, <2>1, ThingsHere
  <2>3. ending \in Seq(Thing) /\ 2 \in DOMAIN ending /\ ending[2] = Kid(Path, n + 1) /\ first \in Seq(Thing)
    BY <1>2, <2>2, PushTyped
  <2> HIDE DEF ending
  <2> QED
    BY <2>3 DEF ToSet
<1> HIDE DEF ending, clauses, Clause, first
<1>6. /\ FlattenSeq(clauses) \in Seq(Thing)
      /\ \A i \in 1 .. n : ToSet(clauses[i]) \subseteq ToSet(FlattenSeq(clauses))
  BY <1>2, <1>4, FlatHolds
<1>7. most \in Seq(Thing) /\ ToSet(most) = ToSet(first) \cup ToSet(FlattenSeq(clauses))
  BY <1>5, <1>6, JoinedSets
<1> HIDE DEF most
<1>8. things \in Seq(Thing) /\ ToSet(things) = ToSet(most) \cup ToSet(ending)
  BY <1>5, <1>7, JoinedSets
<1> HIDE DEF things
<1>9. \A k \in DOMAIN Here.kids : Kid(Path, k) \in ToSet(things)
  <2>1. ASSUME NEW k \in 1 .. n PROVE Kid(Path, k) \in ToSet(things)
    BY <1>3, <1>4, <1>6, <1>7, <1>8
  <2>2. \A k \in DOMAIN Here.kids : k = n + 1 \/ k \in 1 .. n
    BY <1>2
  <2> QED
    BY <1>5, <1>8, <2>1, <2>2
<1> QED
  BY <1>1, <1>8, <1>9, PlainCovers

(* What is found of a reference is recorded.                               *)
LEMMA ReferenceCovers ==
  ASSUME ScopingInv, Covered, NextIs("expr"), Here.kind \in {"varbl", "callf", "mutst"},
         prog' = prog, captured' = captured, NEW holder, found' = With(found, Path, holder),
         NEW things \in Seq(Thing), todo' = things \o Tail(todo),
         \A k \in DOMAIN Here.kids : Kid(Path, k) \in ToSet(things)
  PROVE  Covered'
<1>1. PICK path : path = Path
  OBVIOUS
<1>2. Here = NodeAt(path)
  BY <1>1, ExprHere
<1>3. path \in DOMAIN found' /\ DOMAIN found \subseteq DOMAIN found'
  BY <1>1 DEF With
<1>4. NodeAt(path)' = NodeAt(path)
  BY NodesStay
<1>5. ~IsLambda(path)'
  BY <1>2, <1>4 DEF IsLambda
<1>6. Handled(path)'
  BY <1>3, <1>5 DEF Handled
<1> QED
  BY <1>1, <1>3, <1>6, ExpressionCovers

LEMMA VariableCovers == ASSUME ScopingInv, Covered, Variable, ~Refuse PROVE Covered'
<1> DEFINE detour == <<PushIt, TempIt, PopIt>>
           none == <<>>
           things == IF found'[Path] = Definition THEN detour ELSE none
<1>1. /\ NextIs("expr") /\ Here.kind = "varbl" /\ todo' = things \o Tail(todo)
      /\ prog' = prog /\ captured' = captured
      /\ found' = With(found, Path, Read(Here.name))
  BY DEF Variable, NextNode, Leads, place, Find
<1>2. detour \in Seq(Thing) /\ none \in Seq(Thing)
  BY PushTyped
<1> HIDE DEF detour, none
<1>3. things \in Seq(Thing)
  BY <1>2
<1>4. \A k : k \notin DOMAIN Here.kids
  BY <1>1, ThingsHere DEF WellFormed
<1> HIDE DEF things
<1> QED
  BY <1>1, <1>3, <1>4, ReferenceCovers

LEMMA AssignCovers == ASSUME ScopingInv, Covered, Assign, ~Refuse PROVE Covered'
<1> DEFINE first == <<Kid(Path, 1)>>
           after == IF found'[Path] = Global THEN <<>> ELSE <<SetTail(tail)>>
           things == first \o after
<1>1. /\ NextIs("expr") /\ Here.kind = "mutst" /\ todo' = things \o Tail(todo)
      /\ prog' = prog /\ captured' = captured
      /\ found' = With(found, Path, Assigned(Here.name))
  BY DEF Assign, NextNode, Leads, place, Find
<1>2. DOMAIN Here.kids = {1}
  BY <1>1, ThingsHere DEF WellFormed
<1>3. Kid(Path, 1) \in Thing /\ SetTail(tail) \in Thing
  BY <1>1, <1>2, ThingsHere
<1>4. after \in Seq(Thing)
  BY <1>3
<1>5. first \in Seq(Thing) /\ 1 \in DOMAIN first /\ first[1] = Kid(Path, 1)
  BY <1>3
<1> HIDE DEF first, after
<1>6. Kid(Path, 1) \in ToSet(first)
  BY <1>5 DEF ToSet
<1>7. things \in Seq(Thing) /\ ToSet(things) = ToSet(first) \cup ToSet(after)
  BY <1>4, <1>5, JoinedSets
<1> HIDE DEF things
<1> QED
  BY <1>1, <1>2, <1>6, <1>7, ReferenceCovers

LEMMA CreateCovers == ASSUME ScopingInv, Covered, CreateClosure, ~Refuse PROVE Covered'
<1> DEFINE things == <<PushIt, TempIt, PopIt, PushIt, TempIt, TempIt, PopIt>>
<1>1. /\ NextIs("expr") /\ todo' = things \o Tail(todo) /\ Here.kind = "close"
      /\ prog' = prog /\ found' = found /\ \E holders : captured' = With(captured, Path, holders)
  BY DEF CreateClosure, NextNode, Leads, place
<1>2. things \in Seq(Thing)
  BY PushTyped
<1>3. PICK path : path = Path
  OBVIOUS
<1>4. path \in DOMAIN captured' /\ DOMAIN captured \subseteq DOMAIN captured'
  BY <1>1, <1>3 DEF With
<1>5. Here = NodeAt(path)
  BY <1>3, ExprHere, <1>1
<1>6. NodeAt(path)' = NodeAt(path) /\ References' = References
  BY <1>1, NodesStay
<1>7. path \notin References
  BY <1>1, <1>5 DEF References, OfKind
<1>8. Handled(path)'
  BY <1>4, <1>6, <1>7 DEF Handled
<1> HIDE DEF things
<1> QED
  BY <1>1, <1>2, <1>3, <1>4, <1>8, ExpressionCovers

(* What is around the procedure and the arguments of a call.               *)
LEMMA CallTyped ==
  ASSUME ScopingInv, NextIs("expr"), NEW args \in Nat
  PROVE  CallSlots(args) \in Seq(Thing) /\ CallDone \in Seq(Thing)
<1>1. SetTail(tail) \in Thing
  BY ThingsHere
<1> DEFINE first == IF tail = 1 THEN <<>> ELSE <<PushIt, TempIt, TempIt>>
           push == <<PushIt>>
           temps == [i \in 1 .. args + 1 |-> TempIt]
           pops == IF tail = 1 THEN <<PopIt>> ELSE <<PopIt, PopIt>>
           up == <<SetTail(tail)>>
<1>2. first \in Seq(Thing) /\ push \in Seq(Thing) /\ pops \in Seq(Thing) /\ up \in Seq(Thing)
  BY <1>1, PushTyped
<1>3. temps \in Seq(Thing)
  BY PushTyped
<1>4. CallSlots(args) = (first \o push) \o temps /\ CallDone = pops \o up
  BY DEF CallSlots, CallDone
<1> HIDE DEF first, push, temps, pops, up
<1> QED
  BY <1>2, <1>3, <1>4, ConcatProperties

LEMMA CallNamedCovers == ASSUME ScopingInv, Covered, CallNamed, ~Refuse PROVE Covered'
<1> DEFINE before == CallSlots(Len(Here.kids))
           args == [k \in DOMAIN Here.kids |-> Kid(Path, k)]
           most == before \o args
           things == most \o CallDone
<1>1. /\ NextIs("expr") /\ Here.kind = "callf" /\ todo' = things \o Tail(todo)
      /\ prog' = prog /\ captured' = captured
      /\ found' = With(found, Path, Called(Here.name))
  BY DEF CallNamed, NextNode, Leads, place, Find
<1>2. /\ Len(Here.kids) \in Nat /\ DOMAIN Here.kids = 1 .. Len(Here.kids)
      /\ \A k \in DOMAIN Here.kids : Kid(Path, k) \in Thing
  BY <1>1, ThingsHere
<1>3. before \in Seq(Thing) /\ CallDone \in Seq(Thing)
  BY <1>1, <1>2, CallTyped
<1>4. args \in Seq(Thing) /\ \A k \in DOMAIN Here.kids : k \in DOMAIN args /\ args[k] = Kid(Path, k)
  BY <1>2
<1> HIDE DEF before, args
<1>5. \A k \in DOMAIN Here.kids : Kid(Path, k) \in ToSet(args)
  BY <1>4 DEF ToSet
<1>6. most \in Seq(Thing) /\ ToSet(most) = ToSet(before) \cup ToSet(args)
  BY <1>3, <1>4, JoinedSets
<1> HIDE DEF most
<1>7. things \in Seq(Thing) /\ ToSet(things) = ToSet(most) \cup ToSet(CallDone)
  BY <1>3, <1>6, JoinedSets
<1> HIDE DEF things
<1> QED
  BY <1>1, <1>5, <1>6, <1>7, ReferenceCovers

LEMMA CallValueCovers == ASSUME ScopingInv, Covered, CallValue PROVE Covered'
<1> DEFINE n == Len(Here.kids) - 1
           before == CallSlots(n)
           procedure == <<Kid(Path, n + 1)>>
           args == [k \in 1 .. n |-> Kid(Path, k)]
           start == before \o procedure
           most == start \o args
           things == most \o CallDone
<1>1. /\ NextIs("expr") /\ Here.kind = "calle" /\ todo' = things \o Tail(todo)
      /\ prog' = prog /\ found' = found /\ captured' = captured
  BY DEF CallValue, NextNode, Leads, place
<1>2. /\ n \in Nat /\ DOMAIN Here.kids = 1 .. n + 1
      /\ \A k \in DOMAIN Here.kids : Kid(Path, k) \in Thing
  BY <1>1, ThingsHere DEF WellFormed
<1> HIDE DEF n
<1>3. before \in Seq(Thing) /\ CallDone \in Seq(Thing)
  BY <1>1, <1>2, CallTyped
<1>4. \A k \in 1 .. n : k \in DOMAIN Here.kids
  BY <1>2
<1>5. args \in Seq(Thing) /\ \A k \in 1 .. n : k \in DOMAIN args /\ args[k] = Kid(Path, k)
  BY <1>2, <1>4
<1>6. procedure \in Seq(Thing) /\ 1 \in DOMAIN procedure /\ procedure[1] = Kid(Path, n + 1)
  <2>1. n + 1 \in DOMAIN Here.kids
    BY <1>2
  <2>2. Kid(Path, n + 1) \in Thing
    BY <1>2, <2>1
  <2> QED
    BY <2>2
<1> HIDE DEF before, args, procedure
<1>7. \A k \in 1 .. n : Kid(Path, k) \in ToSet(args)
  BY <1>5 DEF ToSet
<1>8. Kid(Path, n + 1) \in ToSet(procedure)
  BY <1>6 DEF ToSet
<1>9. start \in Seq(Thing) /\ ToSet(start) = ToSet(before) \cup ToSet(procedure)
  BY <1>3, <1>6, JoinedSets
<1> HIDE DEF start
<1>10. most \in Seq(Thing) /\ ToSet(most) = ToSet(start) \cup ToSet(args)
  BY <1>5, <1>9, JoinedSets
<1> HIDE DEF most
<1>11. things \in Seq(Thing) /\ ToSet(things) = ToSet(most) \cup ToSet(CallDone)
  BY <1>3, <1>10, JoinedSets
<1> HIDE DEF things
<1>12. ASSUME NEW k \in DOMAIN Here.kids PROVE Kid(Path, k) \in ToSet(things)
  <2>1. k = n + 1 \/ k \in 1 .. n
    BY <1>2
  <2> QED
    BY <1>7, <1>8, <1>9, <1>10, <1>11, <2>1
<1> QED
  BY <1>1, <1>11, <1>12, PlainCovers
-----------------------------------------------------------------------------
(* Units.                                                                  *)

(* A unit leads to its body.                                               *)
LEMMA UnitCovers ==
  ASSUME ScopingInv, Covered, NEW do \in {"closure", "define"}, NextIs(do),
         UNCHANGED <<prog, found, captured>>,
         NEW things \in Seq(Thing), todo' = things \o Tail(todo),
         NEW body, Expr(body) \in ToSet(things),
         body = IF do = "define" THEN Head(todo).at ELSE Append(Head(todo).at, 1)
  PROVE  Covered'
<1> DEFINE met == {}
<1>1. status # "refused" /\ todo # <<>> /\ Head(todo).do = do
  BY DEF NextIs
<1>2. Starts(Expr(body), body)
  BY DEF Starts, Expr, Todo
<1>3. Awaits(things, body)
  BY <1>2 DEF Awaits
<1>4. \A q : Starts(Head(todo), q) => q = body
  BY <1>1 DEF Starts
<1>5. /\ met \in SUBSET Nodes
      /\ \A p \in met : Handled(p)' /\ (~IsLambda(p) => \A k \in DOMAIN NodeAt(p).kids :
                                                           Awaits(things, Append(p, k)))
  OBVIOUS
<1> HIDE DEF met
<1> QED
  BY <1>1, <1>3, <1>4, <1>5, CoversOn

LEMMA CapturesTyped ==
  ASSUME NEW names \in Seq(Names)
  PROVE  [i \in DOMAIN names |-> Todo("capture", <<>>, names[i], 0)] \in Seq(Thing)
<1>1. Len(names) \in Nat /\ DOMAIN names = 1 .. Len(names) /\ \A i \in 1 .. Len(names) : names[i] \in Names
  BY LenProperties, ElementOfSeq
<1>2. "capture" \in Doings /\ 0 \in Nat
  BY DEF Doings
<1>3. \A i \in 1 .. Len(names) : Todo("capture", <<>>, names[i], 0) \in Thing
  BY <1>1, <1>2, Nothing, TodoTyped
<1> DEFINE a == [i \in 1 .. Len(names) |-> Todo("capture", <<>>, names[i], 0)]
<1>4. a \in Seq(Thing)
  BY <1>1, <1>3
<1> QED
  BY <1>1, <1>4

LEMMA BeginCovers == ASSUME ScopingInv, Covered, BeginClosure PROVE Covered'
<1>0. PICK path : path = Head(todo).at
  OBVIOUS
<1> DEFINE node == NodeAt(path)
           Capture(names) == [i \in DOMAIN names |-> Todo("capture", <<>>, names[i], 0)]
           count == Todo("count", <<>>, NoName, 0)
           closed == Todo("closed", <<>>, NoName, 0)
           ending == <<count, SetTail(1), Kid(path, 1), SetTail(0), closed>>
           free == FreeNames(node.kids[1])
           push == <<PushIt>>
           start == push \o Capture(node.names)
           most == start \o Capture(free)
           things == most \o ending
<1>1. /\ NextIs("closure") /\ Head(todo).do = "closure" /\ todo' = things \o Tail(todo)
      /\ UNCHANGED <<prog, found, captured>>
  BY <1>0 DEF BeginClosure, NextIs, Leads, history
<1>2. PICK p \in Sight, q \in Sight, r \in Sight :
        /\ Agrees(p) /\ Sees(Site, Spoilt, Head(todo), p, q)
        /\ Shows(Site, Spoilt, Tail(todo), q, r)
  BY <1>1, FirstSeen
<1>3. path \in ToSet(AllLambdas)
  BY <1>0, <1>1, <1>2 DEF Sees, Site
<1>4. prog \in Programs /\ path \in Nodes /\ IsLambda(path)
  BY <1>3, LabelsAre DEF Labelled, ScopingInv, GeneratorInv
<1>5. node.names \in Seq(Names) /\ free \in Seq(Names) /\ path \in Seq(Nat)
  BY <1>4, InFrameTyped, NodeTyped
<1> HIDE DEF node, free
<1>6. Capture(node.names) \in Seq(Thing) /\ Capture(free) \in Seq(Thing) /\ push \in Seq(Thing)
  BY <1>5, CapturesTyped, PushTyped
<1>7. ending \in Seq(Thing) /\ 3 \in DOMAIN ending /\ ending[3] = Expr(Append(path, 1))
  <2>1. count \in Thing /\ closed \in Thing
    BY PlainTyped DEF Doings
  <2>2. Kid(path, 1) = Expr(Append(path, 1))
    BY DEF Kid
  <2>3. Append(path, 1) \in Seq(Nat)
    BY <1>5, AppendProperties
  <2>4. Kid(path, 1) \in Thing /\ SetTail(0) \in Thing /\ SetTail(1) \in Thing
    BY <2>2, <2>3, ExprTyped, TailTyped
  <2> HIDE DEF count, closed
  <2> QED
    BY <2>1, <2>2, <2>4
<1> HIDE DEF Capture, push, ending
<1>8. Expr(Append(path, 1)) \in ToSet(ending)
  BY <1>7 DEF ToSet
<1>9. start \in Seq(Thing)
  BY <1>6, ConcatProperties
<1> HIDE DEF start
<1>10. most \in Seq(Thing)
  BY <1>6, <1>9, ConcatProperties
<1> HIDE DEF most
<1>11. things \in Seq(Thing) /\ ToSet(things) = ToSet(most) \cup ToSet(ending)
  BY <1>7, <1>10, JoinedSets
<1> HIDE DEF things
<1> QED
  BY <1>0, <1>1, <1>8, <1>11, UnitCovers

LEMMA DefineCovers == ASSUME ScopingInv, Covered, Define PROVE Covered'
<1>0. PICK path : path = Head(todo).at
  OBVIOUS
<1> DEFINE params == prog[path[1]].params
           binding == [i \in DOMAIN params |-> BindIt(path \o <<0>>, params[i], i)]
           ending == <<SetTail(1), Expr(path), SetTail(0), PopIt>>
           push == <<PushIt>>
           most == push \o binding
           things == most \o ending
<1>1. /\ NextIs("define") /\ Head(todo).do = "define" /\ todo' = things \o Tail(todo)
      /\ UNCHANGED <<prog, found, captured>>
  BY <1>0 DEF Define, NextIs, Leads, place, history
<1>2. PICK p \in Sight, q \in Sight, r \in Sight :
        /\ Agrees(p) /\ Sees(Site, Spoilt, Head(todo), p, q)
        /\ Shows(Site, Spoilt, Tail(todo), q, r)
  BY <1>1, FirstSeen
<1>3. PICK i \in DOMAIN prog : path = <<i>>
  <2>1. \E i \in DOMAIN prog : path = <<i>> /\ prog[i].kind = "deffn"
    BY <1>0, <1>1, <1>2 DEF Sees, Site
  <2> QED
    BY <2>1
<1>4. prog \in Programs
  BY DEF ScopingInv, GeneratorInv
<1>5. path \in Seq(Nat) /\ path[1] = i /\ params \in Seq(Names)
  <2>1. <<i>>[1] = i
    OBVIOUS
  <2> QED
    BY <1>3, <1>4, <2>1, ItemPlace, ItemTyped
<1> HIDE DEF params
<1>6. binding \in Seq(Thing)
  <2> DEFINE at == path \o <<0>>
  <2>1. at \in Seq(Nat)
    BY <1>5
  <2>2. Len(params) \in Nat /\ DOMAIN params = 1 .. Len(params) /\ \A j \in 1 .. Len(params) : params[j] \in Names
    BY <1>5, LenProperties, ElementOfSeq
  <2> HIDE DEF at
  <2>3. \A j \in 1 .. Len(params) : BindIt(at, params[j], j) \in Thing
    BY <2>1, <2>2, BindTyped
  <2>4. [j \in 1 .. Len(params) |-> BindIt(at, params[j], j)] \in Seq(Thing)
    BY <2>2, <2>3
  <2> QED
    BY <2>2, <2>4 DEF at
<1>7. push \in Seq(Thing) /\ ending \in Seq(Thing) /\ 2 \in DOMAIN ending /\ ending[2] = Expr(path)
  BY <1>5, PushTyped, ExprTyped, TailTyped
<1> HIDE DEF binding, push, ending
<1>8. Expr(path) \in ToSet(ending)
  BY <1>7 DEF ToSet
<1>9. most \in Seq(Thing)
  BY <1>6, <1>7, ConcatProperties
<1> HIDE DEF most
<1>10. things \in Seq(Thing) /\ ToSet(things) = ToSet(most) \cup ToSet(ending)
  BY <1>7, <1>9, JoinedSets
<1> HIDE DEF things
<1> QED
  BY <1>0, <1>1, <1>8, <1>10, UnitCovers
-----------------------------------------------------------------------------
(* From the beginning to the end.                                          *)

(* What compile() begins with leads to every item and to every lambda that *)
(* has a label.                                                            *)
LEMMA InitCovers == ASSUME Init PROVE Covered
<1> DEFINE closures == [l \in DOMAIN AllLambdas |-> Todo("closure", AllLambdas[l], NoName, 0)]
           define == [i \in DOMAIN prog |-> <<Todo("define", <<i>>, NoName, 0)>>]
           entry == <<Todo("entry", <<>>, NoName, 0)>>
           global == [i \in DOMAIN prog |-> <<Expr(<<i>>), Todo("global", <<i>>, prog[i].name, 0)>>]
           expr == [i \in DOMAIN prog |-> <<Expr(<<i>>)>>]
           definitions == ForEach("deffn", define)
           values == ForEach("globl", global)
           expressions == ForEach("expr", expr)
           first == closures \o definitions
           second == first \o entry
           third == second \o values
           all == third \o expressions
<1>1. prog \in Programs /\ todo = all
  BY DEF Init
<1>2. closures \in Seq(Thing) /\ \A l \in ToSet(AllLambdas) : Awaits(closures, Append(l, 1))
  <2>1. /\ Len(AllLambdas) \in Nat /\ DOMAIN AllLambdas = 1 .. Len(AllLambdas)
        /\ \A l \in DOMAIN AllLambdas : AllLambdas[l] \in Seq(Nat)
    BY <1>1, AllLambdasTyped, LenProperties, ElementOfSeq DEF LambdaPlaces
  <2>2. "closure" \in Doings /\ 0 \in Nat
    BY DEF Doings
  <2>3. ASSUME NEW l \in DOMAIN AllLambdas
        PROVE  /\ Todo("closure", AllLambdas[l], NoName, 0) \in Thing
               /\ Starts(Todo("closure", AllLambdas[l], NoName, 0), Append(AllLambdas[l], 1))
    <3>1. PICK at \in Seq(Nat) : at = AllLambdas[l]
      BY <2>1
    <3> DEFINE thing == Todo("closure", at, NoName, 0)
    <3>2. thing \in Thing /\ thing.do = "closure" /\ thing.at = at
      <4>1. thing.do = "closure" /\ thing.at = at
        BY DEF Todo
      <4>2. NoName \in Names \cup {NoName}
        BY Nothing
      <4>3. thing \in Thing
        BY <2>2, <4>2, TodoTyped
      <4> QED
        BY <4>1, <4>3
    <3> HIDE DEF thing
    <3>3. Starts(thing, Append(at, 1))
      BY <3>2 DEF Starts
    <3> QED
      BY <3>1, <3>2, <3>3 DEF thing
  <2>4. closures \in Seq(Thing)
    BY <2>1, <2>3
  <2>5. ASSUME NEW l \in DOMAIN AllLambdas PROVE Awaits(closures, Append(AllLambdas[l], 1))
    <3>1. Todo("closure", AllLambdas[l], NoName, 0) \in ToSet(closures)
      BY DEF ToSet
    <3> HIDE DEF closures
    <3> QED
      BY <2>3, <3>1 DEF Awaits
  <2> HIDE DEF closures
  <2> QED
    BY <2>4, <2>5 DEF ToSet
<1>3. ASSUME NEW i \in DOMAIN prog
      PROVE  /\ <<i>> \in Seq(Nat) /\ Expr(<<i>>) \in Thing /\ Starts(Expr(<<i>>), <<i>>)
             /\ Todo("define", <<i>>, NoName, 0) \in Thing /\ Starts(Todo("define", <<i>>, NoName, 0), <<i>>)
             /\ prog[i].kind = "globl" => Todo("global", <<i>>, prog[i].name, 0) \in Thing
  <2> DEFINE path == <<i>>
  <2>1. path \in Seq(Nat)
    BY <1>1, ItemPlace
  <2>2. "define" \in Doings /\ "global" \in Doings /\ 0 \in Nat
    BY DEF Doings
  <2>3. prog[i].kind = "globl" => prog[i].name \in Names \cup {NoName}
    BY <1>1, ItemTyped
  <2> HIDE DEF path
  <2>4. Expr(path).do = "expr" /\ Expr(path).at = path
    BY DEF Expr, Todo
  <2>5. /\ Todo("define", path, NoName, 0) \in Thing
        /\ Starts(Todo("define", path, NoName, 0), path)
    <3> DEFINE thing == Todo("define", path, NoName, 0)
    <3>1. thing \in Thing /\ thing.do = "define" /\ thing.at = path
      <4>1. thing.do = "define" /\ thing.at = path
        BY DEF Todo
      <4>2. NoName \in Names \cup {NoName}
        BY Nothing
      <4>3. thing \in Thing
        BY <2>1, <2>2, <4>2, TodoTyped
      <4> QED
        BY <4>1, <4>3
    <3> HIDE DEF thing
    <3>2. Starts(thing, path)
      BY <3>1 DEF Starts
    <3> QED
      BY <3>1, <3>2 DEF thing
  <2>6. prog[i].kind = "globl" => Todo("global", path, prog[i].name, 0) \in Thing
    BY <2>1, <2>2, <2>3, TodoTyped
  <2>7. Expr(path) \in Thing /\ Starts(Expr(path), path)
    BY <2>1, <2>4, ExprTyped DEF Starts
  <2> QED
    BY <2>1, <2>5, <2>6, <2>7 DEF path
<1>4. ASSUME NEW i \in DOMAIN prog
      PROVE  /\ define[i] \in Seq(Thing) /\ Awaits(define[i], <<i>>)
             /\ prog[i].kind = "globl" => global[i] \in Seq(Thing) /\ Awaits(global[i], <<i>>)
             /\ expr[i] \in Seq(Thing) /\ Awaits(expr[i], <<i>>)
  <2> DEFINE path == <<i>>
             d == Todo("define", path, NoName, 0)
             g == Todo("global", path, prog[i].name, 0)
             e == Expr(path)
             ds == <<d>>
             gs == <<e, g>>
             es == <<e>>
  <2>1. /\ d \in Thing /\ e \in Thing /\ (prog[i].kind = "globl" => g \in Thing)
        /\ Starts(d, path) /\ Starts(e, path)
    BY <1>3
  <2>2. define[i] = ds /\ global[i] = gs /\ expr[i] = es
    OBVIOUS
  <2> HIDE DEF d, g, e, define, global, expr
  <2>3. /\ ds \in Seq(Thing) /\ es \in Seq(Thing) /\ (prog[i].kind = "globl" => gs \in Seq(Thing))
        /\ 1 \in DOMAIN ds /\ ds[1] = d /\ 1 \in DOMAIN es /\ es[1] = e /\ 1 \in DOMAIN gs /\ gs[1] = e
    BY <2>1
  <2> HIDE DEF ds, gs, es
  <2>4. d \in ToSet(ds) /\ e \in ToSet(es) /\ e \in ToSet(gs)
    BY <2>3 DEF ToSet
  <2>5. Awaits(ds, path) /\ Awaits(es, path) /\ Awaits(gs, path)
    BY <2>1, <2>4 DEF Awaits
  <2> QED
    BY <2>2, <2>3, <2>5 DEF path
<1> HIDE DEF closures, define, global, expr
<1>5. /\ definitions \in Seq(Thing)
      /\ \A i \in DOMAIN prog : prog[i].kind = "deffn" => ToSet(define[i]) \subseteq ToSet(definitions)
  BY <1>1, <1>4, ForEachHolds
<1>6. /\ values \in Seq(Thing)
      /\ \A i \in DOMAIN prog : prog[i].kind = "globl" => ToSet(global[i]) \subseteq ToSet(values)
  BY <1>1, <1>4, ForEachHolds
<1>7. /\ expressions \in Seq(Thing)
      /\ \A i \in DOMAIN prog : prog[i].kind = "expr" => ToSet(expr[i]) \subseteq ToSet(expressions)
  BY <1>1, <1>4, ForEachHolds
<1>8. entry \in Seq(Thing)
  <2> DEFINE e == Todo("entry", <<>>, NoName, 0)
  <2>1. e \in Thing
    BY PlainTyped DEF Doings
  <2> HIDE DEF e
  <2>2. <<e>> \in Seq(Thing)
    BY <2>1
  <2> QED
    BY <2>2 DEF e
<1> HIDE DEF definitions, values, expressions, entry
<1>9. first \in Seq(Thing) /\ ToSet(first) = ToSet(closures) \cup ToSet(definitions)
  BY <1>2, <1>5, JoinedSets
<1> HIDE DEF first
<1>10. second \in Seq(Thing) /\ ToSet(second) = ToSet(first) \cup ToSet(entry)
  BY <1>8, <1>9, JoinedSets
<1> HIDE DEF second
<1>11. third \in Seq(Thing) /\ ToSet(third) = ToSet(second) \cup ToSet(values)
  BY <1>6, <1>10, JoinedSets
<1> HIDE DEF third
<1>12. ToSet(all) = ToSet(third) \cup ToSet(expressions)
  BY <1>7, <1>11, JoinedSets
<1> HIDE DEF all
<1>13. /\ ToSet(closures) \subseteq ToSet(all) /\ ToSet(definitions) \subseteq ToSet(all)
       /\ ToSet(values) \subseteq ToSet(all) /\ ToSet(expressions) \subseteq ToSet(all)
  BY <1>9, <1>10, <1>11, <1>12
<1>14. ASSUME NEW i \in DOMAIN prog PROVE Awaits(all, <<i>>)
  <2>1. prog[i].kind \in {"expr", "deffn", "globl"}
    BY <1>1, ItemTyped DEF Item
  <2>2. CASE prog[i].kind = "deffn"
    BY <1>4, <1>5, <1>13, <2>2 DEF Awaits
  <2>3. CASE prog[i].kind = "globl"
    BY <1>4, <1>6, <1>13, <2>3 DEF Awaits
  <2>4. CASE prog[i].kind = "expr"
    BY <1>4, <1>7, <1>13, <2>4 DEF Awaits
  <2> QED
    BY <2>1, <2>2, <2>3, <2>4
<1>15. \A l \in ToSet(AllLambdas) : Awaits(all, Append(l, 1))
  BY <1>2, <1>13 DEF Awaits
<1>16. Walked({})
  BY <1>1, <1>14, <1>15 DEF Walked
<1> QED
  BY <1>16 DEF Covered

LEMMA SameCovers ==
  ASSUME Covered, UNCHANGED <<prog, todo, found, captured>>
  PROVE  Covered'
<1>1. PICK seen \in SUBSET Nodes : Walked(seen)
  BY DEF Covered
<1>2. /\ Nodes' = Nodes /\ References' = References /\ ToSet(AllLambdas)' = ToSet(AllLambdas)
      /\ \A p : NodeAt(p)' = NodeAt(p)
  BY NodesStay, LambdasStay
<1>3. \A p : (IsLambda(p)' <=> IsLambda(p)) /\ (Handled(p) => Handled(p)')
  BY <1>2 DEF IsLambda, Handled
<1>4. \A q : Awaits(todo, q)' <=> Awaits(todo, q)
  BY DEF Awaits, Starts, ToSet
<1>5. Walked(seen)'
  BY <1>1, <1>2, <1>3, <1>4 DEF Walked
<1> QED
  BY <1>1, <1>2, <1>5 DEF Covered

LEMMA StepCovers ==
  ASSUME ScopingInv, status # "refused" => Covered, [Next]_vars, status' # "refused"
  PROVE  Covered'
<1>1. CASE Next
  <2>0. status # "refused" /\ ~Refuse
    BY <1>1 DEF Next, Refuse, PushScopeStep, PopScopeStep, BindStep, BindTemporary, BindLabel,
       SetTailStep, BeginClosure, CaptureStep, CountStep, EndClosure, Define, Entry, DefineGlobal, Constant,
       String, QuotedString, Variable, UnaryOperation, BoxOperation, BinaryOperation, ConsOperation,
       QuotedList, If, CondStep, LetStep, Sequence, Assign, CreateClosure,
       CallNamed, CallValue, Finish, NextNode, NextIs
  <2>1. CASE PushScopeStep
    <3>1. /\ NextIs("push") /\ todo' = <<>> \o Tail(todo) /\ UNCHANGED <<prog, found, captured>>
      BY <2>1 DEF PushScopeStep, Leads, place, history
    <3> QED
      BY <2>0, <3>1, CoversAlone
  <2>2. CASE PopScopeStep
    <3>1. /\ NextIs("pop") /\ todo' = <<>> \o Tail(todo) /\ UNCHANGED <<prog, found, captured>>
      BY <2>2 DEF PopScopeStep, Leads, place, history
    <3> QED
      BY <2>0, <3>1, CoversAlone
  <2>3. CASE BindStep
    <3>1. /\ NextIs("bind") /\ todo' = <<>> \o Tail(todo) /\ UNCHANGED <<prog, found, captured>>
      BY <2>3 DEF BindStep, Leads, place, history
    <3> QED
      BY <2>0, <3>1, CoversAlone
  <2>4. CASE BindTemporary
    <3>1. /\ NextIs("temp") /\ todo' = <<>> \o Tail(todo) /\ UNCHANGED <<prog, found, captured>>
      BY <2>4 DEF BindTemporary, Leads, place, history
    <3> QED
      BY <2>0, <3>1, CoversAlone
  <2>5. CASE SetTailStep
    <3>1. /\ NextIs("tail") /\ todo' = <<>> \o Tail(todo) /\ UNCHANGED <<prog, found, captured>>
      BY <2>5 DEF SetTailStep, Leads, place, history
    <3> QED
      BY <2>0, <3>1, CoversAlone
  <2>6. CASE BeginClosure
    BY <2>0, <2>6, BeginCovers
  <2>7. CASE CaptureStep
    <3>1. /\ NextIs("capture") /\ todo' = <<>> \o Tail(todo) /\ UNCHANGED <<prog, found, captured>>
      BY <2>7 DEF CaptureStep, Leads, place, history
    <3> QED
      BY <2>0, <3>1, CoversAlone
  <2>8. CASE CountStep
    <3>1. /\ NextIs("count") /\ todo' = <<>> \o Tail(todo) /\ UNCHANGED <<prog, found, captured>>
      BY <2>8 DEF CountStep, Leads, place, history
    <3> QED
      BY <2>0, <3>1, CoversAlone
  <2>9. CASE EndClosure
    <3>1. /\ NextIs("closed") /\ todo' = <<>> \o Tail(todo) /\ UNCHANGED <<prog, found, captured>>
      BY <2>9 DEF EndClosure, Leads, history
    <3> QED
      BY <2>0, <3>1, CoversAlone
  <2>10. CASE Define
    BY <2>0, <2>10, DefineCovers
  <2>11. CASE Entry
    <3>1. /\ NextIs("entry") /\ todo' = <<>> \o Tail(todo) /\ UNCHANGED <<prog, found, captured>>
      BY <2>11 DEF Entry, Leads, history
    <3> QED
      BY <2>0, <3>1, CoversAlone
  <2>12. CASE DefineGlobal
    <3>1. /\ NextIs("global") /\ todo' = <<>> \o Tail(todo) /\ UNCHANGED <<prog, found, captured>>
      BY <2>12 DEF DefineGlobal, Leads, history
    <3> QED
      BY <2>0, <3>1, CoversAlone
  <2>13. CASE Constant
    BY <2>0, <2>13, ConstantCovers
  <2>14. CASE Variable
    BY <2>0, <2>14, VariableCovers
  <2>15. CASE UnaryOperation
    BY <2>0, <2>15, UnaryCovers
  <2>16. CASE BinaryOperation
    BY <2>0, <2>16, BinaryCovers
  <2>17. CASE If
    BY <2>0, <2>17, IfCovers
  <2>18. CASE CondStep
    BY <2>0, <2>18, CondCovers
  <2>19. CASE LetStep
    BY <2>0, <2>19, LetCovers
  <2>20. CASE Sequence
    BY <2>0, <2>20, SequenceCovers
  <2>21. CASE Assign
    BY <2>0, <2>21, AssignCovers
  <2>22. CASE CreateClosure
    BY <2>0, <2>22, CreateCovers
  <2>23. CASE CallNamed
    BY <2>0, <2>23, CallNamedCovers
  <2>24. CASE CallValue
    BY <2>0, <2>24, CallValueCovers
  <2>25. CASE Finish
    <3>1. UNCHANGED <<prog, todo, found, captured>>
      BY <2>25 DEF Finish, place, history
    <3> QED
      BY <2>0, <3>1, SameCovers
  <2>26. CASE BindLabel
    <3>1. /\ NextIs("label") /\ todo' = <<>> \o Tail(todo) /\ UNCHANGED <<prog, found, captured>>
      BY <2>26 DEF BindLabel, Leads, place, history
    <3> QED
      BY <2>0, <3>1, CoversAlone
  <2>27. CASE String
    BY <2>0, <2>27, StringCovers
  <2>28. CASE QuotedString
    BY <2>0, <2>28, QuotedStringCovers
  <2>29. CASE BoxOperation
    BY <2>0, <2>29, BoxCovers
  <2>30. CASE ConsOperation
    BY <2>0, <2>30, ConsCovers
  <2>31. CASE QuotedList
    BY <2>0, <2>31, QuotedListCovers
  <2> QED
    BY <1>1, <2>1, <2>2, <2>3, <2>4, <2>5, <2>6, <2>7, <2>8, <2>9, <2>10, <2>11, <2>12, <2>13,
       <2>14, <2>15, <2>16, <2>17, <2>18, <2>19, <2>20, <2>21, <2>22, <2>23, <2>24, <2>25, <2>26,
       <2>27, <2>28, <2>29, <2>30, <2>31
       DEF Next
<1>2. CASE UNCHANGED vars
  <2>1. UNCHANGED <<prog, todo, found, captured, status>>
    BY <1>2 DEF vars, place, history
  <2> QED
    BY <2>1, SameCovers
<1> QED
  BY <1>1, <1>2

-----------------------------------------------------------------------------
(* What is proved of every run.                                            *)

(* Until a program is refused, what has been compiled and what is still to *)
(* be done make up the whole of it.                                        *)
THEOREM SafetyInvariant == Spec => []SafetyInv
<1>1. Init => SafetyInv
  BY InitSees, InitCovers DEF SafetyInv
<1>2. SafetyInv /\ [Next]_vars => SafetyInv'
  <2> SUFFICES ASSUME SafetyInv, [Next]_vars PROVE SafetyInv'
    OBVIOUS
  <2>1. ScopingInv' /\ (status' # "refused" => Covered')
    BY StepSees, StepCovers DEF SafetyInv
  <2> QED
    BY <2>1 DEF SafetyInv
<1> QED
  BY <1>1, <1>2, PTL DEF Spec

(* At the end all of it has been compiled.                                 *)
LEMMA AllSeen ==
  ASSUME SafetyInv, status = "done"
  PROVE  \A p \in Nodes : Handled(p)
<1>1. prog \in Programs /\ todo = <<>> /\ Recorded
  BY DEF SafetyInv, ScopingInv, GeneratorInv
<1>2. PICK seen \in SUBSET Nodes : Walked(seen)
  BY DEF SafetyInv, Covered
<1>3. ASSUME NEW q PROVE ~ Awaits(todo, q)
  BY <1>1 DEF Awaits, ToSet
<1>4. ASSUME NEW i \in DOMAIN prog PROVE <<i>> \in seen
  BY <1>2, <1>3 DEF Walked
<1>5. ASSUME NEW p \in Nodes, p \in seen, NEW k \in DOMAIN NodeAt(p).kids PROVE Append(p, k) \in seen
  <2>1. CASE ~IsLambda(p)
    BY <1>2, <1>3, <1>5, <2>1 DEF Walked
  <2>2. CASE IsLambda(p)
    <3>1. p \in ToSet(AllLambdas)
      BY <1>1, <1>2, <1>5, <2>2 DEF Walked, Handled, Recorded
    <3>2. k = 1
      <4>1. Len(NodeAt(p).kids) = 1 /\ NodeAt(p).kids \in Seq(Trees)
        BY <1>1, <2>2, NodeTyped DEF WellFormed, IsLambda
      <4> QED
        BY <4>1, LenProperties
    <3> QED
      BY <1>2, <1>3, <3>1, <3>2 DEF Walked
  <2> QED
    BY <2>1, <2>2
<1>6. Nodes \subseteq seen
  BY <1>4, <1>5, NodesFromTop
<1> QED
  BY <1>2, <1>6 DEF Walked

(* Two walks over a lambda, one where it is made and one where its body is *)
(* compiled, number its environment alike, a slot of the table stands for  *)
(* the variable that scoping means, and no name is passed over: in a       *)
(* program that has been compiled each name is read from what it means     *)
(* (compile.c:1654, 1696), if it is plain.  The exception is a name        *)
(* binary<N>: an operation with two operands may bind its temporary by     *)
(* that name (compile.c:854), and hide the variable.                       *)
THEOREM NamesReadTheirBinding == Spec => []ReadsItsBinding
<1>1. SafetyInv => ReadsItsBinding
  <2> SUFFICES ASSUME SafetyInv, status = "done", Plain, NEW p \in References
               PROVE  \/ Resolved(found[p]) = Meaning(p)
                      \/ NodeAt(p).name \in Labels /\ Resolved(found[p]) = Temp
    BY DEF ReadsItsBinding
  <2>1. prog \in Programs /\ Recorded
    BY DEF SafetyInv, ScopingInv, GeneratorInv
  <2>2. \A q \in Nodes : Handled(q)
    BY AllSeen
  <2>3. LambdasRecorded
    <3> SUFFICES ASSUME NEW l \in OfKind({"close"}) PROVE Recalls(captured[l], l) /\ Unskipped(l)
      BY DEF LambdasRecorded
    <3>1. l \in Nodes /\ IsLambda(l)
      BY DEF OfKind, IsLambda
    <3>2. l \in DOMAIN captured
      BY <2>2, <3>1 DEF Handled
    <3> QED
      BY <2>1, <3>2, LabelsAre DEF Recorded, Labelled
  <2>4. p \in Nodes /\ p \in DOMAIN found
    BY <2>2 DEF References, OfKind, Handled
  <2>5. Noted(found[p], p)
    BY <2>1, <2>4 DEF Recorded
  <2>6. CASE found[p] = Expected(p) /\ (Expected(p) = Global => MayBeGlobal(p))
    BY <2>1, <2>3, <2>6, FoundIsMeant DEF IsOrTemp
  <2>7. CASE NodeAt(p).name \in Labels /\ found[p] = Temp
    BY <2>7, Unmoved
  <2> QED
    BY <2>5, <2>6, <2>7 DEF Noted
<1> QED
  BY <1>1, SafetyInvariant, PTL

-----------------------------------------------------------------------------
(* Why a program is refused.                                               *)

(* What no part of a program can be read as.                               *)
MeansNothing(p) ==
  \/ Meaning(p) = Unbound
  \/ Meaning(p) = Global /\ prog[p[1]].kind # "deffn"
       /\ ~ \E i \in 1 .. p[1] - 1 : prog[i].kind = "globl" /\ prog[i].name = NodeAt(p).name

Guilty == (Plain /\ Simple) => \E p \in References : MeansNothing(p)

(* A lambda that has no label is where no walk looks.                      *)
LEMMA LabelsReach ==
  ASSUME prog \in Programs
  PROVE  Labelled \subseteq ToSet(AllLambdas)
<1> DEFINE all == ToSet(AllLambdas)
           here(p) == Lambdas[NodeAt(p)][p]
           P == {p \in Nodes : (Unskipped(p) /\ prog[p[1]].kind # "globl") => ToSet(here(p)) \subseteq all}
           S == Seq(Nat)
           items == [i \in DOMAIN prog |-> IF prog[i].kind = "globl" THEN <<>> ELSE Lambdas[prog[i].body][<<i>>]]
<1>1. /\ <<>> \in Seq(S) /\ ToSet(<<>>) = {}
      /\ \A p \in Nodes : p \in S /\ NodeAt(p) \in Trees /\ here(p) \in Seq(S)
  <2>1. <<>> \in Seq(S) /\ ToSet(<<>>) = {}
    BY EmptySeq DEF ToSet
  <2>2. ASSUME NEW p \in Nodes PROVE p \in S /\ NodeAt(p) \in Trees /\ here(p) \in Seq(S)
    <3>1. p \in S /\ p # <<>> /\ NodeAt(p) \in Trees
      BY NodeTyped
    <3>2. here(p) \in Seq(LambdaPlaces(prog))
      BY <3>1, LambdasTyped DEF NodeAt
    <3>3. LambdaPlaces(prog) \subseteq S
      BY DEF LambdaPlaces
    <3>4. here(p) \in Seq(S)
      <4> HIDE DEF S
      <4> QED
        BY <3>2, <3>3, SeqMonotonic
    <3> QED
      BY <3>1, <3>4
  <2> QED
    BY <2>1, <2>2
<1>2. Len(prog) \in Nat /\ DOMAIN prog = 1 .. Len(prog)
  BY LenProperties, GeneratorAssumption
<1>3. ASSUME NEW i \in DOMAIN prog
      PROVE  <<i>> \in Nodes /\ NodeAt(<<i>>) = prog[i].body /\ <<i>>[1] = i
  BY ItemIsNode, ItemTyped DEF NodeAt
<1>4. items \in [1 .. Len(prog) -> Seq(S)]
  <2>1. ASSUME NEW i \in DOMAIN prog PROVE Lambdas[prog[i].body][<<i>>] \in Seq(S)
    BY <1>1, <1>3
  <2> HIDE DEF S
  <2> QED
    BY <1>1, <1>2, <2>1
<1>5. \A i \in 1 .. Len(prog) : ToSet(items[i]) \subseteq all
  <2> HIDE DEF items
  <2>1. \A i \in 1 .. Len(prog) : ToSet(items[i]) \subseteq ToSet(FlattenSeq(items))
    BY <1>2, <1>4, FlatHolds
  <2> QED
    BY <2>1 DEF AllLambdas, items
<1>6. ASSUME NEW i \in DOMAIN prog PROVE <<i>> \in P
  <2>1. prog[i].kind # "globl" => items[i] = here(<<i>>)
    BY <1>3
  <2> HIDE DEF items, here, all
  <2> QED
    BY <1>2, <1>3, <1>5, <2>1
<1>7. ASSUME NEW p \in Nodes, p \in P, NEW k \in DOMAIN NodeAt(p).kids PROVE Append(p, k) \in P
  <2> DEFINE kid == Append(p, k)
             node == NodeAt(p)
             seqs == [j \in DOMAIN node.kids |-> Lambdas[node.kids[j]][Append(p, j)]]
             own == IF node.kind = "close" THEN <<p>> ELSE <<>>
  <2>1. kid \in Nodes /\ NodeAt(kid) = node.kids[k]
    BY KidIsNode
  <2> SUFFICES ASSUME Unskipped(kid), prog[kid[1]].kind # "globl" PROVE ToSet(here(kid)) \subseteq all
    BY <2>1
  <2>2. Unskipped(p) /\ node.kind \notin Skipped /\ kid[1] = p[1]
    BY UnskippedKid
  <2>3. ToSet(here(p)) \subseteq all
    BY <1>7, <2>2
  <2>4. p \in S /\ node \in Trees /\ Len(node.kids) \in Nat /\ DOMAIN node.kids = 1 .. Len(node.kids)
    BY NodeTyped, LenProperties
  <2>5. here(p) = own \o FlattenSeq(seqs)
    BY <2>2, <2>4, LambdasOf DEF LambdasHere
  <2>6. ASSUME NEW j \in DOMAIN node.kids PROVE seqs[j] \in Seq(S)
    BY <1>1, KidIsNode
  <2>7. seqs \in [1 .. Len(node.kids) -> Seq(S)]
    <3> HIDE DEF S
    <3> QED
      BY <2>4, <2>6
  <2>8. own \in Seq(S)
    BY <1>1, <2>4
  <2>9. seqs[k] = here(kid)
    BY <2>1
  <2> HIDE DEF seqs, own, S
  <2>10. FlattenSeq(seqs) \in Seq(S) /\ ToSet(seqs[k]) \subseteq ToSet(FlattenSeq(seqs))
    BY <2>4, <2>7, FlatHolds
  <2>11. ToSet(own \o FlattenSeq(seqs)) = ToSet(own) \cup ToSet(FlattenSeq(seqs))
    BY <2>8, <2>10, JoinedSets
  <2> QED
    BY <2>3, <2>5, <2>9, <2>10, <2>11
<1>8. Nodes \subseteq P
  <2> HIDE DEF P
  <2> QED
    BY <1>6, <1>7, NodesFromTop
<1>9. ASSUME NEW l \in Labelled PROVE l \in all
  <2>1. /\ l \in Nodes /\ NodeAt(l).kind = "close" /\ ToSet(here(l)) \subseteq all
        /\ l \in S /\ NodeAt(l) \in Trees
    BY <1>1, <1>8 DEF Labelled, IsLambda
  <2> DEFINE node == NodeAt(l)
             seqs == [j \in DOMAIN node.kids |-> Lambdas[node.kids[j]][Append(l, j)]]
             own == <<l>>
  <2>2. node.kind \notin Skipped
    BY <2>1 DEF Skipped
  <2>3. here(l) = own \o FlattenSeq(seqs)
    BY <2>1, <2>2, LambdasOf DEF LambdasHere
  <2>4. Len(node.kids) \in Nat /\ DOMAIN node.kids = 1 .. Len(node.kids)
    BY <2>1, NodeTyped, LenProperties
  <2>5. ASSUME NEW j \in DOMAIN node.kids PROVE seqs[j] \in Seq(S)
    BY <1>1, <2>1, KidIsNode
  <2>6. seqs \in [1 .. Len(node.kids) -> Seq(S)]
    <3> HIDE DEF S
    <3> QED
      BY <2>4, <2>5
  <2>7. own \in Seq(S) /\ l \in ToSet(own)
    BY <2>1 DEF ToSet
  <2> HIDE DEF seqs, own, S
  <2>8. FlattenSeq(seqs) \in Seq(S)
    BY <2>4, <2>6, FlatHolds
  <2>9. l \in ToSet(own \o FlattenSeq(seqs))
    BY <2>7, <2>8, JoinedSets
  <2> QED
    BY <2>1, <2>3, <2>9
<1> QED
  BY <1>9

(* A call of what is no definition leaves its name free, whatever the      *)
(* arguments do.                                                           *)
LEMMA CallSets ==
  ASSUME prog \in Programs, NEW p \in Nodes, NodeAt(p).kind = "callf", NodeAt(p).name \notin Defined
  PROVE  Sets(NodeAt(p).name, p)
<1> SUFFICES ASSUME NEW scope \in Scope PROVE NodeAt(p).name \in In(LFree[NodeAt(p)][scope])
  BY DEF Sets
<1> DEFINE t == NodeAt(p)
<1>1. t \in Trees
  BY NodeTyped
<1>2. PICK walk : /\ WalksThrough(LFree, t.kids, scope, walk)
                  /\ \A k \in 0 .. Len(t.kids) : walk[k] \in Scope
                  /\ LFree[t][scope] = LeavesFree(t, scope, walk[Len(t.kids)])
                  /\ Len(t.kids) \in Nat /\ DOMAIN t.kids = 1 .. Len(t.kids)
  BY <1>1, KidsWalk
<1>3. walk[Len(t.kids)] \in Scope
  BY <1>2
<1>4. t.kind \notin Skipped
  BY DEF Skipped
<1> QED
  BY <1>1, <1>2, <1>3, <1>4, LeavesNames

(* A name that has no slot is bound nowhere, unless it was skipped.        *)
LEMMA NoSlotNoBinder ==
  ASSUME prog \in Programs, Plain, Simple, NEW p \in References,
         ~ (NodeAt(p).kind = "callf" /\ NodeAt(p).name \in Defined),
         Local(p, NodeAt(p).name) = Unbound
  PROVE  Binders(p, NodeAt(p).name) = {}
<1> DEFINE name == NodeAt(p).name
           kind == NodeAt(p).kind
           u == UnitOf(p)
<1>1. p \in Nodes /\ kind \in {"varbl", "callf", "mutst"}
  BY DEF References, OfKind
<1>2. Nearest(p, name) = {}
  BY <1>1, LocalIs
<1>3. CASE ~InLambda(p)
  BY <1>1, <1>2, <1>3, LocalIs
<1>4. CASE InLambda(p)
  <2>1. u \in Above(p) /\ IsLambda(u) /\ u \in Nodes /\ NodeAt(u) \in Trees
    BY <1>1, <1>4, UnitTyped, AboveIs, NodeTyped
  <2>2. Frame(u, name) = Unbound
    BY <1>1, <1>2, <1>4, LocalIs
  <2>3. name \notin ToSet(NodeAt(u).names) \cup ToSet(FreeNames(NodeAt(u)))
    <3>1. Unbound[1] \notin {"variable", "captured"}
      BY DEF Unbound, Held
    <3> QED
      BY <2>1, <2>2, <3>1, FrameIs
  <2>4. \A n \in Binders(p, name) : n < Len(u)
    BY <1>1, <1>2, <1>4, <2>3, FormalsBind
  <2>5. p \in FreeIn(u) /\ u \in OfKind({"close"}) /\ p \in Below(u)
    BY <2>1, <2>4, IsFree
  <2>6. ~ Skips(u, p)
    BY <2>5 DEF Simple, Hides
  <2>7. kind \notin Skipped
    BY <2>5, <2>6 DEF Skips
  <2>8. Sets(name, p)
    <3>1. kind = "varbl" \/ (kind = "callf" /\ name \notin Defined)
      BY <1>1, <2>7 DEF Skipped
    <3> QED
      BY <1>1, <3>1, VarblSets, CallSets
  <2>9. \A q \in Above(p) \cap Below(u) : NodeAt(q).kind \notin Skipped
    BY <2>6 DEF Skips
  <2>10. \A q \in Below(u) : ~BindsName(q, name)
    BY <2>1, <2>4, PlainMeans DEF Apart
  <2>11. ~BindsName(u, name)
    BY <2>3 DEF BindsName
  <2>12. NodeAt(u).kind \notin Skipped
    BY <2>1 DEF IsLambda, Skipped
  <2>13. Sets(name, u)
    BY <1>1, <2>1, <2>5, <2>8, <2>9, <2>10, <2>11, <2>12, Presence
  <2> QED
    BY <2>1, <2>3, <2>13, SetsFree
<1> QED
  BY <1>3, <1>4

(* A name that nothing was found for means nothing there.                  *)
LEMMA UnreadMeansNothing ==
  ASSUME ScopingInv, NextIs("expr"), Here.kind \in {"varbl", "callf", "mutst"}, Plain, Simple,
         IF Here.kind = "varbl" THEN Read(Here.name) = Unbound
         ELSE IF Here.kind = "callf" THEN Called(Here.name) = Unbound
         ELSE Assigned(Here.name) = Unbound
  PROVE  Path \in References /\ MeansNothing(Path)
<1>0. PICK path : path = Path
  OBVIOUS
<1> DEFINE name == NodeAt(path).name
           kind == NodeAt(path).kind
<1>1. prog \in Programs /\ path \in Nodes /\ Here = NodeAt(path) /\ path \in Seq(Nat) /\ Earlier(path) \subseteq globals
  <2>1. PICK p \in Sight : Agrees(p) /\ ReadyFor(p, Path)
    BY ExprHere
  <2> QED
    BY <1>0, <2>1, ExprHere DEF Agrees, ReadyFor
<1>2. name \in Visible /\ path \in References /\ kind \in {"varbl", "callf", "mutst"}
  BY <1>0, <1>1, NameHere
<1>3. /\ kind = "varbl" => Read(name) = Unbound
      /\ kind = "callf" => Called(name) = Unbound
      /\ kind = "mutst" => Assigned(name) = Unbound
  BY <1>1, <1>2
<1>4. Definition # Unbound /\ Global # Unbound /\ Definition # Global
  BY HolderKinds
<1>5. kind = "callf" => name \notin Defined
  BY <1>3, <1>4 DEF Called
<1>6. Read(name) \in {Unbound, Definition, Global} /\ (kind # "callf" => Read(name) # Global)
  BY <1>2, <1>3, <1>4, <1>5 DEF Called, Assigned
<1>12. Read(name) # Temp
  BY <1>6, TempIs
<1>7. Local(path, name) = Unbound
  BY <1>0, <1>1, <1>2, <1>6, <1>12, ReadIs, WordsAre
<1>8. Binders(path, name) = {}
  BY <1>1, <1>2, <1>5, <1>7, NoSlotNoBinder
<1>9. kind = "varbl" => name \notin Defined
  BY <1>0, <1>2, <1>3, <1>4, <1>7, <1>12, ReadIs
<1>10. kind # "callf" /\ name \notin Defined => name \notin globals
  BY <1>0, <1>2, <1>6, <1>7, <1>12, ReadIs
<1>11. Meaning(path) \in {Unbound, Global} /\ (Meaning(path) = Global => MayBeGlobal(path))
  BY <1>4, <1>5, <1>8, <1>9 DEF Meaning, MayBeGlobal
<1>13. ASSUME Meaning(path) = Global PROVE MeansNothing(path)
  <2>1. name \notin Earlier(path) /\ name \in NamesOf("globl")
    BY <1>1, <1>10, <1>11, <1>13 DEF MayBeGlobal
  <2>2. prog[path[1]].kind # "deffn" /\ Earlier(path) = {prog[j].name : j \in {j \in 1 .. path[1] - 1 : prog[j].kind = "globl"}}
    BY <2>1 DEF Earlier
  <2> QED
    BY <1>13, <2>1, <2>2 DEF MeansNothing
<1> QED
  BY <1>0, <1>2, <1>11, <1>13 DEF MeansNothing

LEMMA RefuseGuilty ==
  ASSUME ScopingInv, Next, status' = "refused"
  PROVE  Guilty /\ prog' = prog
<1>1. /\ Variable \/ Assign \/ CallNamed \/ CreateClosure
      /\ Refuse
  BY DEF Next, ScopingInv, GeneratorInv, Refuse, PushScopeStep, PopScopeStep, BindStep, BindTemporary, BindLabel,
     SetTailStep, BeginClosure, CaptureStep, CountStep, EndClosure, Define, Entry, DefineGlobal, Constant,
     String, QuotedString, Variable, UnaryOperation, BoxOperation, BinaryOperation, ConsOperation,
     QuotedList, If, CondStep, LetStep, Sequence, Assign, CreateClosure,
     CallNamed, CallValue, Finish, NextNode, NextIs
<1>2. prog' = prog
  BY <1>1 DEF Refuse, place
<1> SUFFICES ASSUME Plain, Simple PROVE \E p \in References : MeansNothing(p)
  BY <1>2 DEF Guilty
<1>3. status # "refused" /\ status' = "refused"
  BY <1>1 DEF Variable, Assign, CallNamed, CreateClosure, NextNode, NextIs
<1>4. CASE Variable
  <2>1. NextIs("expr") /\ Here.kind = "varbl" /\ Read(Here.name) = Unbound
    BY <1>3, <1>4 DEF Variable, NextNode
  <2> QED
    BY <2>1, UnreadMeansNothing
<1>5. CASE Assign
  <2>1. NextIs("expr") /\ Here.kind = "mutst" /\ Assigned(Here.name) = Unbound
    BY <1>3, <1>5 DEF Assign, NextNode
  <2> QED
    BY <2>1, UnreadMeansNothing
<1>6. CASE CallNamed
  <2>1. NextIs("expr") /\ Here.kind = "callf" /\ Called(Here.name) = Unbound
    BY <1>3, <1>6 DEF CallNamed, NextNode
  <2> QED
    BY <2>1, UnreadMeansNothing
<1>7. CASE CreateClosure
  <2>1. NextIs("expr") /\ Here.kind = "close" /\ Path \notin ToSet(AllLambdas)
    BY <1>3, <1>7 DEF CreateClosure, NextNode
  <2>2. prog \in Programs /\ Path \in Nodes /\ IsLambda(Path) /\ Path \in OfKind({"close"})
    BY <2>1, ExprHere DEF IsLambda, OfKind
  <2>3. Path \notin Labelled
    BY <2>1, <2>2, LabelsReach
  <2>4. Hides(Path)
    BY <2>2, <2>3 DEF Hides, Labelled, Unskipped
  <2> QED
    BY <2>2, <2>4 DEF Simple
<1> QED
  BY <1>1, <1>4, <1>5, <1>6, <1>7

(* What a program means is in the tree.                                    *)
LEMMA GuiltStays == ASSUME prog' = prog PROVE Guilty' <=> Guilty
<1>1. /\ Nodes' = Nodes /\ References' = References
      /\ \A p : NodeAt(p)' = NodeAt(p)
      /\ Defined' = Defined /\ NamesOf("globl")' = NamesOf("globl")
  BY NodesStay, NamesStay
<1>2. ASSUME NEW p, NEW n PROVE BoundBy(p, n)' = BoundBy(p, n)
  BY DEF BoundBy, NodeAt
<1>3. ASSUME NEW p, NEW name PROVE Binders(p, name)' = Binders(p, name)
  BY <1>2 DEF Binders
<1>4. ASSUME NEW p, NEW name PROVE Innermost(p, name)' = Innermost(p, name)
  BY <1>2, <1>3 DEF Innermost
<1>5. ASSUME NEW p PROVE Meaning(p)' = Meaning(p)
  <2> DEFINE name == NodeAt(p).name
  <2>1. NodeAt(p)' = NodeAt(p) /\ name' = name
    BY <1>1
  <2>2. Binders(p, name)' = Binders(p, name) /\ Innermost(p, name)' = Innermost(p, name)
    <3>1. \A x : Binders(p, x)' = Binders(p, x) /\ Innermost(p, x)' = Innermost(p, x)
      BY <1>3, <1>4
    <3> QED
      BY <2>1, <3>1
  <2> QED
    BY <1>1, <2>1, <2>2 DEF Meaning
<1>6. ASSUME NEW l PROVE Below(l)' = Below(l)
  BY <1>1 DEF Below
<1>7. ASSUME NEW kinds PROVE OfKind(kinds)' = OfKind(kinds)
  BY <1>1 DEF OfKind
<1>8. ASSUME NEW l PROVE FreeIn(l)' = FreeIn(l)
  <2>1. \A p : Binders(p, NodeAt(p).name)' = Binders(p, NodeAt(p).name)
    <3>1. \A p, x : Binders(p, x)' = Binders(p, x)
      BY <1>3
    <3> QED
      BY <1>1, <3>1
  <2> QED
    BY <1>1, <1>6, <2>1 DEF FreeIn
<1>9. ASSUME NEW l, NEW p PROVE Skips(l, p)' <=> Skips(l, p)
  BY <1>1, <1>6 DEF Skips
<1>10. ASSUME NEW l PROVE (Rebinds(l)' <=> Rebinds(l)) /\ (Repeats(l)' <=> Repeats(l))
  BY <1>1, <1>6, <1>7, <1>8 DEF Rebinds, Repeats
<1>11. ASSUME NEW l PROVE ReadsTop(l)' <=> ReadsTop(l)
  BY <1>1, <1>5, <1>8, <1>9 DEF ReadsTop
<1>12. ASSUME NEW l PROVE Hides(l)' <=> Hides(l)
  BY <1>1, <1>8, <1>9 DEF Hides
<1>13. (Plain' <=> Plain) /\ (Simple' <=> Simple)
  BY <1>7, <1>10, <1>11, <1>12 DEF Plain, Simple
<1>14. ASSUME NEW p PROVE MeansNothing(p)' <=> MeansNothing(p)
  BY <1>1, <1>5 DEF MeansNothing
<1> QED
  BY <1>1, <1>13, <1>14 DEF Guilty

(* The generator gives up only for a name that means nothing where it      *)
(* stands, or for a global that has no value yet (compile_error), if each  *)
(* lambda is where lambdas() finds it: no name that is bound is missing    *)
(* from the table, and no lambda from the labels.                          *)
THEOREM RefusalsHaveCause == Spec => []RefusesOnlyUnbound
<1> DEFINE Inv == ScopingInv /\ (status = "refused" => Guilty)
<1>1. Init => Inv
  BY InitSees DEF Init
<1>2. Inv /\ [Next]_vars => Inv'
  <2> SUFFICES ASSUME Inv, [Next]_vars PROVE Inv'
    OBVIOUS
  <2>1. ScopingInv'
    BY StepSees
  <2>2. ASSUME status' = "refused" PROVE Guilty'
    <3>1. CASE Next
      BY <2>2, <3>1, RefuseGuilty, GuiltStays
    <3>2. CASE UNCHANGED vars
      <4>1. status' = status /\ prog' = prog
        BY <3>2 DEF vars, place
      <4> QED
        BY <2>2, <4>1, GuiltStays
    <3> QED
      BY <3>1, <3>2
  <2> QED
    BY <2>1, <2>2
<1>3. Inv => RefusesOnlyUnbound
  BY DEF Guilty, RefusesOnlyUnbound, MeansNothing
<1> HIDE DEF Inv
<1> QED
  BY <1>1, <1>2, <1>3, PTL DEF Spec
=============================================================================
