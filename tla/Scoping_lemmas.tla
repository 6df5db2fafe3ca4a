--------------------------- MODULE Scoping_lemmas ---------------------------
(***************************************************************************)
(* What is so of every program before any of it is compiled: of the paths  *)
(* to its nodes, of the variables that are bound on the way down a path,   *)
(* and of the names that lfree() finds free in a lambda.                   *)
(***************************************************************************)
EXTENDS Scoping, Generator_proofs

-----------------------------------------------------------------------------
(* The paths to the nodes.                                                 *)

(* The paths of the items, and those one longer than given ones.           *)
Shortest == {<<i>> : i \in DOMAIN prog}
Longer(paths) == UNION {{Append(p, k) : k \in DOMAIN NodeAt(p).kids} : p \in paths}

PathsEquation(f, m) ==
  f = [n \in 0 .. m |-> IF n = 0 THEN {} ELSE IF n = 1 THEN Shortest ELSE Longer(f[n - 1])]

LEMMA PathsExist == ASSUME NEW m \in Nat PROVE \E f : PathsEquation(f, m)
<1> DEFINE Next_(n, f) ==
             IF n = 1 THEN Shortest ELSE Longer(f[n - 1])
           Good == {n \in 0 .. m : \E f : PathsEquation(f, n)}
<1>1. 0 \in Good
  <2>1. PathsEquation([n \in 0 .. 0 |-> {}], 0)
    BY DEF PathsEquation
  <2> QED
    BY <2>1
<1>2. ASSUME NEW n \in 1 .. m, n - 1 \in Good PROVE n \in Good
  <2>1. PICK f : PathsEquation(f, n - 1)
    BY <1>2
  <2> DEFINE g == [i \in 0 .. n |-> IF i = n THEN Next_(n, f) ELSE f[i]]
  <2>2. \A i \in 0 .. n - 1 : g[i] = f[i]
    OBVIOUS
  <2>3. g[n] = Next_(n, f)
    OBVIOUS
  <2>4. g = [i \in 0 .. n |-> g[i]]
    OBVIOUS
  <2> HIDE DEF g
  <2>5. ASSUME NEW i \in 0 .. n PROVE g[i] = IF i = 0 THEN {} ELSE Next_(i, g)
    <3>1. i # 0 => i - 1 \in 0 .. n - 1 /\ g[i - 1] = f[i - 1]
      BY <2>2
    <3>2. CASE i = n
      BY <2>3, <3>1, <3>2
    <3>3. CASE i # n
      <4>1. i \in 0 .. n - 1 /\ g[i] = f[i]
        BY <2>2, <3>3
      <4>2. f[i] = IF i = 0 THEN {} ELSE Next_(i, f)
        BY <2>1, <4>1 DEF PathsEquation
      <4> QED
        BY <3>1, <4>1, <4>2
    <3> QED
      BY <3>2, <3>3
  <2>6. PathsEquation(g, n)
    BY <2>4, <2>5 DEF PathsEquation
  <2> QED
    BY <2>6
<1>3. \A n \in 0 .. m : n \in Good
  <2> HIDE DEF Good
  <2> QED
    BY <1>1, <1>2, UpTo
<1> QED
  BY <1>3

LEMMA PathsAre ==
  /\ Paths[0] = {}
  /\ \A n \in 1 .. Len(Levels) :
       Paths[n] = IF n = 1 THEN Shortest ELSE Longer(Paths[n - 1])
<1> DEFINE m == Len(Levels)
<1>1. m \in Nat
  BY Heights
<1>2. Paths = CHOOSE f : PathsEquation(f, m)
  BY DEF Paths, PathsEquation, Shortest, Longer
<1> HIDE DEF m
<1>3. PathsEquation(Paths, m)
  BY <1>1, <1>2, PathsExist
<1>4. /\ Paths[0] = {}
      /\ \A n \in 1 .. m :
           Paths[n] = IF n = 1 THEN Shortest ELSE Longer(Paths[n - 1])
  BY <1>1, <1>3 DEF PathsEquation
<1> QED
  BY <1>4 DEF m

LEMMA PathsStart ==
  ASSUME NEW q, 1 \in 1 .. Len(Levels)
  PROVE  q \in Paths[1] <=> \E i \in DOMAIN prog : q = <<i>>
<1>1. Paths[1] = Shortest
  BY PathsAre
<1> QED
  BY <1>1 DEF Shortest

LEMMA PathsGrow ==
  ASSUME NEW n \in 1 .. Len(Levels), n # 1, NEW q
  PROVE  q \in Paths[n] <=> \E p \in Paths[n - 1] : \E k \in DOMAIN NodeAt(p).kids : q = Append(p, k)
<1>1. Paths[n] = Longer(Paths[n - 1])
  BY PathsAre
<1> DEFINE paths == Paths[n - 1]
<1> HIDE DEF paths
<1>2. q \in Longer(paths) <=> \E p \in paths : \E k \in DOMAIN NodeAt(p).kids : q = Append(p, k)
  BY DEF Longer
<1> QED
  BY <1>1, <1>2 DEF paths

(* A path as long as n, to a node that leaves room for it.                 *)
PathOf(n, p) ==
  /\ p \in Seq(Nat) /\ p # <<>> /\ Len(p) = n /\ p[1] \in DOMAIN prog
  /\ NodeAt(p) \in UpToHeight(Len(Levels) + 1 - n)

LEMMA PathsTyped ==
  ASSUME prog \in Programs, NEW n \in 0 .. Len(Levels), NEW p \in Paths[n]
  PROVE  PathOf(n, p)
<1> DEFINE L == Len(Levels)
           Good == {m \in 0 .. L : \A q \in Paths[m] : PathOf(m, q)}
<1>1. L \in Nat /\ UpToHeight(L) = Trees
  BY Heights
<1>2. 0 \in Good
  BY <1>1, PathsAre
<1>3. ASSUME NEW m \in 1 .. L, m - 1 \in Good PROVE m \in Good
  <2> SUFFICES ASSUME NEW q \in Paths[m] PROVE PathOf(m, q)
    OBVIOUS
  <2>1. CASE m = 1
    <3>1. PICK i \in DOMAIN prog : q = <<i>>
      BY <2>1, PathsStart
    <3>2. /\ i \in Nat /\ NodeAt(<<i>>) \in Trees
          /\ <<i>> \in Seq(Nat) /\ <<i>> # <<>> /\ Len(<<i>>) = 1 /\ <<i>>[1] = i
      BY ItemTyped DEF NodeAt
    <3>3. L + 1 - m = L
      BY <1>1, <2>1
    <3> HIDE DEF L
    <3> QED
      BY <1>1, <2>1, <3>1, <3>2, <3>3 DEF PathOf, L
  <2>2. CASE m # 1
    <3>9. PICK o \in Paths[m - 1] : \E k \in DOMAIN NodeAt(o).kids : q = Append(o, k)
      BY <2>2, PathsGrow
    <3>1. PICK k \in DOMAIN NodeAt(o).kids : q = Append(o, k)
      BY <3>9
    <3>2. PathOf(m - 1, o)
      BY <1>3
    <3>3. /\ m - 1 \in Nat /\ L + 1 - (m - 1) \in 1 .. L /\ L + 1 - m = (L + 1 - (m - 1)) - 1
      BY <1>1, <2>2
    <3> DEFINE node == NodeAt(o)
    <3>4. node \in Trees /\ node.kids[k] \in UpToHeight(L + 1 - m)
      BY <3>2, <3>3, Heights DEF PathOf
    <3>5. k \in Nat
      <4>1. node.kids \in Seq(Trees)
        BY <3>4, TreeTyped
      <4> QED
        BY <4>1, LenProperties
    <3>6. /\ q \in Seq(Nat) /\ q # <<>> /\ Len(q) = (m - 1) + 1 /\ q[1] = o[1]
      <4>1. Len(o) \in Nat /\ Len(o) > 0
        BY <3>2, LenProperties, EmptySeq DEF PathOf
      <4> QED
        BY <3>1, <3>2, <3>5, <4>1, AppendProperties DEF PathOf
    <3>7. NodeAt(q) = node.kids[k]
      BY <3>1, <3>2, <3>5, NodeOfKid DEF NodeAt, PathOf
    <3> QED
      BY <3>2, <3>3, <3>4, <3>6, <3>7 DEF PathOf
  <2> QED
    BY <2>1, <2>2
<1>4. \A m \in 0 .. L : m \in Good
  <2> HIDE DEF Good
  <2> QED
    BY <1>1, <1>2, <1>3, UpTo
<1> QED
  BY <1>4

LEMMA NodeTyped ==
  ASSUME prog \in Programs, NEW p \in Nodes
  PROVE  /\ p \in Seq(Nat) /\ p # <<>> /\ Len(p) \in Nat \ {0} /\ p[1] \in DOMAIN prog
         /\ NodeAt(p) \in Trees
         /\ NodeAt(p).kids \in Seq(Trees) /\ NodeAt(p).names \in Seq(Names)
         /\ NodeAt(p).name # Temporary /\ Temporary \notin ToSet(NodeAt(p).names)
         /\ NodeAt(p).kind \in {"varbl", "callf", "mutst"} => NodeAt(p).name \in Names
         /\ WellFormed(NodeAt(p))
<1>1. PICK n \in 1 .. Len(Levels) : p \in Paths[n]
  BY DEF Nodes
<1>2. PathOf(n, p) /\ n \in Nat \ {0}
  BY <1>1, PathsTyped, Heights
<1>3. Len(Levels) + 1 - n \in 1 .. Len(Levels)
  BY <1>1, Heights
<1>4. NodeAt(p) \in Trees
  BY <1>2, <1>3, Heights DEF PathOf
<1> QED
  BY <1>2, <1>4, TreeTyped, ScopingAssumption DEF PathOf

LEMMA ItemIsNode == ASSUME NEW i \in DOMAIN prog PROVE <<i>> \in Nodes
<1>1. 1 \in 1 .. Len(Levels)
  <2>1. Levels \in Seq(SUBSET Trees) /\ Levels # <<>>
    BY GeneratorAssumption
  <2> HIDE DEF Trees
  <2> QED
    BY <2>1, LenProperties, EmptySeq
<1>2. <<i>> \in Paths[1]
  BY <1>1, PathsStart
<1> QED
  BY <1>1, <1>2 DEF Nodes

LEMMA KidIsNode ==
  ASSUME prog \in Programs, NEW p \in Nodes, NEW k \in DOMAIN NodeAt(p).kids
  PROVE  /\ Append(p, k) \in Nodes /\ k \in Nat \ {0}
         /\ NodeAt(Append(p, k)) = NodeAt(p).kids[k]
<1>1. PICK n \in 1 .. Len(Levels) : p \in Paths[n]
  BY DEF Nodes
<1>2. PathOf(n, p) /\ Len(Levels) \in Nat
  BY <1>1, PathsTyped, Heights
<1> DEFINE h == Len(Levels) + 1 - n
<1>3. h \in 1 .. Len(Levels)
  BY <1>1, <1>2
<1>4. NodeAt(p).kids[k] \in UpToHeight(h - 1) /\ NodeAt(p) \in Trees
  BY <1>2, <1>3, Heights DEF PathOf
<1>5. h - 1 # 0
  BY <1>4, Heights
<1>6. n + 1 \in 1 .. Len(Levels) /\ n + 1 # 1 /\ (n + 1) - 1 = n
  BY <1>1, <1>2, <1>5
<1>7. Append(p, k) \in Paths[n + 1]
  BY <1>1, <1>6, PathsGrow
<1>8. k \in Nat \ {0}
  <2>1. NodeAt(p).kids \in Seq(Trees)
    BY <1>4, TreeTyped
  <2> QED
    BY <2>1, LenProperties
<1>9. NodeAt(Append(p, k)) = NodeAt(p).kids[k]
  BY <1>2, <1>8, NodeOfKid DEF NodeAt, PathOf
<1> QED
  BY <1>6, <1>7, <1>8, <1>9 DEF Nodes

(* From the items down, kid by kid, one comes to every node.               *)
LEMMA NodesFromTop ==
  ASSUME NEW P, \A i \in DOMAIN prog : <<i>> \in P,
         \A p \in Nodes : p \in P => \A k \in DOMAIN NodeAt(p).kids : Append(p, k) \in P
  PROVE  Nodes \subseteq P
<1> DEFINE Good == {n \in 0 .. Len(Levels) : Paths[n] \subseteq P}
<1>1. 0 \in Good
  BY PathsAre, Heights
<1>2. ASSUME NEW n \in 1 .. Len(Levels), n - 1 \in Good PROVE n \in Good
  <2>1. CASE n = 1
    BY <2>1, PathsStart
  <2>2. CASE n # 1
    <3>1. n - 1 \in 1 .. Len(Levels)
      BY <2>2, Heights
    <3>2. Paths[n - 1] \subseteq Nodes /\ Paths[n - 1] \subseteq P
      BY <1>2, <3>1 DEF Nodes
    <3>3. \A q \in Paths[n] : \E p \in Paths[n - 1] : \E k \in DOMAIN NodeAt(p).kids : q = Append(p, k)
      BY <2>2, PathsGrow
    <3>4. \A q \in Paths[n] : q \in P
      BY <3>2, <3>3
    <3> QED
      BY <3>4
  <2> QED
    BY <2>1, <2>2
<1>3. \A n \in 0 .. Len(Levels) : n \in Good
  <2> HIDE DEF Good
  <2> QED
    BY <1>1, <1>2, UpTo, Heights
<1> QED
  BY <1>3, Heights DEF Nodes

(* A node is that of an item or a kid.                                     *)
LEMMA NodeIsKid ==
  ASSUME prog \in Programs, NEW p \in Nodes
  PROVE  \/ \E i \in DOMAIN prog : p = <<i>>
         \/ \E q \in Nodes : \E k \in DOMAIN NodeAt(q).kids : p = Append(q, k)
<1> DEFINE P == {q \in Nodes : \/ \E i \in DOMAIN prog : q = <<i>>
                               \/ \E o \in Nodes : \E k \in DOMAIN NodeAt(o).kids : q = Append(o, k)}
<1>1. \A i \in DOMAIN prog : <<i>> \in P
  BY ItemIsNode
<1>2. \A q \in Nodes : q \in P => \A k \in DOMAIN NodeAt(q).kids : Append(q, k) \in P
  BY KidIsNode
<1> HIDE DEF P
<1>3. Nodes \subseteq P
  BY <1>1, <1>2, NodesFromTop
<1> QED
  BY <1>3 DEF P
-----------------------------------------------------------------------------
(* What is above a node.                                                   *)

LEMMA KidPath ==
  ASSUME NEW p \in Seq(Nat), p # <<>>, NEW k \in Nat
  PROVE  /\ Append(p, k) \in Seq(Nat) /\ Append(p, k) # <<>>
         /\ Len(Append(p, k)) = Len(p) + 1 /\ Append(p, k)[Len(p) + 1] = k
         /\ \A n \in 1 .. Len(p) : Append(p, k)[n] = p[n] /\ SubSeq(Append(p, k), 1, n) = SubSeq(p, 1, n)
         /\ SubSeq(Append(p, k), 1, Len(p)) = p
         /\ Len(p) \in Nat \ {0} /\ Append(p, k)[1] = p[1]
<1>1. Len(p) \in Nat \ {0}
  BY EmptySeq
<1>2. /\ Append(p, k) \in Seq(Nat) /\ Len(Append(p, k)) = Len(p) + 1
      /\ Append(p, k)[Len(p) + 1] = k /\ \A n \in 1 .. Len(p) : Append(p, k)[n] = p[n]
  BY AppendProperties
<1>3. Append(p, k) # <<>>
  BY <1>1, <1>2, EmptySeq
<1>4. /\ \A n \in 1 .. Len(p) : SubSeq(Append(p, k), 1, n) = SubSeq(p, 1, n)
      /\ SubSeq(Append(p, k), 1, Len(p)) = p
  BY <1>1, PrefixesAgree
<1>5. 1 \in 1 .. Len(p)
  BY <1>1
<1> QED
  BY <1>1, <1>2, <1>3, <1>4, <1>5

LEMMA AboveItem == ASSUME NEW i PROVE Above(<<i>>) = {}
<1>1. Len(<<i>>) = 1
  OBVIOUS
<1> QED
  BY <1>1 DEF Above

LEMMA AboveKid ==
  ASSUME NEW p \in Seq(Nat), p # <<>>, NEW k \in Nat
  PROVE  Above(Append(p, k)) = Above(p) \cup {p}
<1> DEFINE q == Append(p, k)
           n == Len(p)
<1>1. /\ n \in Nat \ {0} /\ Len(q) = n + 1 /\ SubSeq(q, 1, n) = p
      /\ \A m \in 1 .. n : SubSeq(q, 1, m) = SubSeq(p, 1, m)
  BY KidPath
<1>2. Above(q) = {SubSeq(q, 1, m) : m \in 1 .. (n + 1) - 1} /\ Above(p) = {SubSeq(p, 1, m) : m \in 1 .. n - 1}
  BY <1>1 DEF Above
<1> HIDE DEF q, n
<1>3. 1 .. (n + 1) - 1 = (1 .. n - 1) \cup {n}
  BY <1>1
<1>4. Above(q) = Above(p) \cup {p}
  BY <1>1, <1>2, <1>3
<1> QED
  BY <1>4 DEF q

(* What is above is shorter and a node, and lies on one line.              *)
LEMMA AboveIs ==
  ASSUME prog \in Programs, NEW p \in Nodes, NEW q \in Above(p)
  PROVE  /\ q \in Nodes /\ Len(q) \in 1 .. Len(p) - 1 /\ q = SubSeq(p, 1, Len(q))
         /\ q[1] = p[1] /\ \A n \in 1 .. Len(q) : q[n] = p[n]
         /\ p[Len(q) + 1] \in DOMAIN NodeAt(q).kids
         /\ p[Len(q) + 1] \in Nat
         /\ Append(q, p[Len(q) + 1]) \in Above(p) \cup {p}
<1> DEFINE Is(o, r) ==
             /\ r \in Nodes /\ Len(r) \in 1 .. Len(o) - 1 /\ r = SubSeq(o, 1, Len(r))
             /\ \A n \in 1 .. Len(r) : r[n] = o[n]
             /\ o[Len(r) + 1] \in DOMAIN NodeAt(r).kids
             /\ o[Len(r) + 1] \in Nat
             /\ Append(r, o[Len(r) + 1]) \in Above(o) \cup {o}
           P == {o \in Nodes : \A r \in Above(o) : Is(o, r)}
<1>1. \A i \in DOMAIN prog : <<i>> \in P
  BY AboveItem, ItemIsNode
<1>2. ASSUME NEW o \in Nodes, o \in P, NEW k \in DOMAIN NodeAt(o).kids
      PROVE  Append(o, k) \in P
  <2> DEFINE long == Append(o, k)
             n == Len(o)
  <2>1. o \in Seq(Nat) /\ o # <<>> /\ n \in Nat \ {0}
    BY NodeTyped
  <2>2. long \in Nodes /\ k \in Nat \ {0}
    BY KidIsNode
  <2>3. /\ Len(long) = n + 1 /\ long[n + 1] = k /\ SubSeq(long, 1, n) = o
        /\ \A m \in 1 .. n : long[m] = o[m] /\ SubSeq(long, 1, m) = SubSeq(o, 1, m)
        /\ Above(long) = Above(o) \cup {o}
    BY <2>1, <2>2, KidPath, AboveKid
  <2>4. \A r \in Above(o) : Is(o, r)
    BY <1>2
  <2>5. long = Append(o, k)
    OBVIOUS
  <2> HIDE DEF long, n
  <2>6. ASSUME NEW r \in Above(o) PROVE Is(long, r)
    <3>1. /\ r \in Nodes /\ Len(r) \in 1 .. n - 1 /\ r = SubSeq(o, 1, Len(r))
          /\ \A m \in 1 .. Len(r) : r[m] = o[m]
          /\ o[Len(r) + 1] \in DOMAIN NodeAt(r).kids
          /\ o[Len(r) + 1] \in Nat
          /\ Append(r, o[Len(r) + 1]) \in Above(o) \cup {o}
      BY <2>4 DEF n
    <3>2. Len(r) \in 1 .. n /\ Len(r) + 1 \in 1 .. n /\ Len(r) \in 1 .. Len(long) - 1
      BY <2>1, <2>3, <3>1
    <3>3. long[Len(r) + 1] = o[Len(r) + 1] /\ SubSeq(long, 1, Len(r)) = SubSeq(o, 1, Len(r))
      BY <2>3, <3>2
    <3>4. \A m \in 1 .. Len(r) : r[m] = long[m]
      BY <2>1, <2>3, <3>1
    <3> QED
      BY <2>3, <3>1, <3>2, <3>3, <3>4
  <2>7. Is(long, o)
    <3>1. n \in 1 .. Len(long) - 1
      BY <2>1, <2>3
    <3>2. o = SubSeq(long, 1, n) /\ \A m \in 1 .. n : o[m] = long[m]
      BY <2>3
    <3>3. long[n + 1] \in DOMAIN NodeAt(o).kids /\ long[n + 1] \in Nat /\ Append(o, long[n + 1]) = long
      BY <2>2, <2>3, <2>5
    <3> QED
      BY <3>1, <3>2, <3>3 DEF n
  <2> HIDE DEF Is
  <2>8. \A r \in Above(long) : Is(long, r)
    BY <2>3, <2>6, <2>7
  <2> QED
    BY <2>2, <2>8 DEF long
<1> HIDE DEF P
<1>3. p \in P
  BY <1>1, <1>2, NodesFromTop
<1>4. Is(p, q)
  BY <1>3 DEF P
<1>5. 1 \in 1 .. Len(q)
  BY <1>4, NodeTyped
<1> QED
  BY <1>4, <1>5

LEMMA AboveLine ==
  ASSUME prog \in Programs, NEW p \in Nodes, NEW q \in Above(p)
  PROVE  /\ Above(q) \subseteq Above(p)
         /\ \A r \in Above(p) : /\ Len(r) < Len(q) => r \in Above(q)
                                /\ Len(r) = Len(q) => r = q
<1>1. /\ p \in Seq(Nat) /\ q \in Seq(Nat) /\ Len(p) \in Nat /\ Len(q) \in 1 .. Len(p) - 1
      /\ q \in Nodes /\ q = SubSeq(p, 1, Len(q))
  BY AboveIs, NodeTyped
<1>2. ASSUME NEW m \in 1 .. Len(q) - 1 PROVE SubSeq(q, 1, m) = SubSeq(p, 1, m)
  <2>1. SubSeq(p, 1, m) \in Seq(Nat) /\ SubSeq(q, 1, m) \in Seq(Nat)
        /\ Len(SubSeq(p, 1, m)) = m /\ Len(SubSeq(q, 1, m)) = m
        /\ \A i \in 1 .. m : SubSeq(p, 1, m)[i] = p[i] /\ SubSeq(q, 1, m)[i] = q[i]
    <3>1. \A i \in 1 .. m : p[i] \in Nat /\ q[i] \in Nat
      BY <1>1, ElementOfSeq
    <3> QED
      BY <1>1, <3>1, SubSeqProperties
  <2>2. \A i \in 1 .. m : p[i] = q[i]
    BY <1>1, AboveIs
  <2> QED
    BY <2>1, <2>2, SeqEqual
<1>3. ASSUME NEW r \in Above(q) PROVE r \in Above(p)
  <2>1. PICK m \in 1 .. Len(q) - 1 : r = SubSeq(q, 1, m)
    BY DEF Above
  <2>2. m \in 1 .. Len(p) - 1
    BY <1>1
  <2> QED
    BY <1>2, <2>1, <2>2 DEF Above
<1>4. ASSUME NEW r \in Above(p), Len(r) < Len(q) PROVE r \in Above(q)
  <2>1. Len(r) \in 1 .. Len(p) - 1 /\ r = SubSeq(p, 1, Len(r))
    BY AboveIs
  <2>2. Len(r) \in 1 .. Len(q) - 1
    BY <1>1, <1>4, <2>1
  <2>3. r = SubSeq(q, 1, Len(r))
    BY <1>2, <2>1, <2>2
  <2> QED
    BY <2>2, <2>3 DEF Above
<1>5. ASSUME NEW r \in Above(p), Len(r) = Len(q) PROVE r = q
  <2>1. r = SubSeq(p, 1, Len(r))
    BY AboveIs
  <2> QED
    BY <1>1, <1>5, <2>1
<1> QED
  BY <1>3, <1>4, <1>5
-----------------------------------------------------------------------------
(* The unit of a node, and how far down the unit begins.                   *)

IsLambda(p) == NodeAt(p).kind = "close"
InLambda(p) == \E q \in Above(p) : IsLambda(q)
Depth(p)    == IF InLambda(p) THEN Len(UnitOf(p)) ELSE 0

UnitIs(p, u) ==
  IF InLambda(p) THEN /\ u \in Above(p) /\ IsLambda(u)
                      /\ \A q \in Above(p) : IsLambda(q) => Len(q) <= Len(u)
  ELSE u = <<p[1]>>

LEMMA UnitFound ==
  ASSUME prog \in Programs, NEW p \in Nodes, NEW u
  PROVE  UnitIs(p, u) <=> u = UnitOf(p)
<1> DEFINE P == {q \in Nodes : \E v : UnitIs(q, v)}
           around == {q \in Above(p) : NodeAt(q).kind = "close"}
<1>1. \A i \in DOMAIN prog : <<i>> \in P
  <2>1. ASSUME NEW i \in DOMAIN prog PROVE UnitIs(<<i>>, <<<<i>>[1]>>)
    BY AboveItem DEF UnitIs, InLambda
  <2> QED
    BY <2>1, ItemIsNode
<1>2. ASSUME NEW q \in Nodes, q \in P, NEW k \in DOMAIN NodeAt(q).kids PROVE Append(q, k) \in P
  <2> DEFINE long == Append(q, k)
  <2>1. long \in Nodes /\ Above(long) = Above(q) \cup {q} /\ long[1] = q[1]
    BY KidIsNode, AboveKid, KidPath, NodeTyped
  <2> HIDE DEF long
  <2>2. PICK v : UnitIs(q, v)
    BY <1>2
  <2>3. CASE IsLambda(q)
    <3>1. \A r \in Above(q) : Len(r) <= Len(q)
      BY AboveIs, NodeTyped
    <3>2. Len(q) <= Len(q)
      BY NodeTyped
    <3>3. UnitIs(long, q)
      BY <2>1, <2>3, <3>1, <3>2 DEF UnitIs, InLambda
    <3> QED
      BY <2>1, <3>3 DEF long
  <2>4. CASE ~IsLambda(q)
    <3>1. UnitIs(long, v)
      BY <2>1, <2>2, <2>4 DEF UnitIs, InLambda
    <3> QED
      BY <2>1, <3>1 DEF long
  <2> QED
    BY <2>3, <2>4
<1> HIDE DEF P
<1>3. PICK v : UnitIs(p, v)
  <2>1. p \in P
    BY <1>1, <1>2, NodesFromTop
  <2> QED
    BY <2>1 DEF P
<1>4. ASSUME NEW a, NEW b, UnitIs(p, a), UnitIs(p, b) PROVE a = b
  <2>1. CASE InLambda(p)
    <3>1. a \in Above(p) /\ b \in Above(p) /\ Len(a) <= Len(b) /\ Len(b) <= Len(a)
      BY <1>4, <2>1 DEF UnitIs
    <3>2. Len(a) \in Nat /\ Len(b) \in Nat
      BY <3>1, AboveIs, NodeTyped
    <3> QED
      BY <3>1, <3>2, AboveLine
  <2>2. CASE ~InLambda(p)
    BY <1>4, <2>2 DEF UnitIs
  <2> QED
    BY <2>1, <2>2
<1>5. UnitIs(p, UnitOf(p))
  <2>1. CASE InLambda(p)
    <3>1. around # {} /\ UnitOf(p) = CHOOSE q \in around : \A r \in around : Len(r) <= Len(q)
      BY <2>1 DEF UnitOf, InLambda, IsLambda
    <3>2. v \in around /\ \A r \in around : Len(r) <= Len(v)
      BY <1>3, <2>1 DEF UnitIs, IsLambda
    <3>3. UnitOf(p) \in around /\ \A r \in around : Len(r) <= Len(UnitOf(p))
      <4> HIDE DEF around
      <4> QED
        BY <3>1, <3>2
    <3> QED
      BY <2>1, <3>3 DEF UnitIs, IsLambda
  <2>2. CASE ~InLambda(p)
    BY <2>2 DEF UnitIs, UnitOf, InLambda, IsLambda
  <2> QED
    BY <2>1, <2>2
<1> QED
  BY <1>4, <1>5

LEMMA UnitOfItem ==
  ASSUME prog \in Programs, NEW i \in DOMAIN prog
  PROVE  UnitOf(<<i>>) = <<i>> /\ Depth(<<i>>) = 0 /\ ~InLambda(<<i>>)
<1>1. ~InLambda(<<i>>) /\ <<i>>[1] = i
  BY AboveItem DEF InLambda
<1>2. UnitIs(<<i>>, <<i>>)
  BY <1>1 DEF UnitIs
<1> QED
  BY <1>1, <1>2, UnitFound, ItemIsNode DEF Depth

LEMMA UnitOfKid ==
  ASSUME prog \in Programs, NEW p \in Nodes, NEW k \in DOMAIN NodeAt(p).kids
  PROVE  IF IsLambda(p)
         THEN UnitOf(Append(p, k)) = p /\ Depth(Append(p, k)) = Len(p) /\ InLambda(Append(p, k))
         ELSE /\ UnitOf(Append(p, k)) = UnitOf(p) /\ Depth(Append(p, k)) = Depth(p)
              /\ InLambda(Append(p, k)) = InLambda(p)
<1> DEFINE long == Append(p, k)
<1>1. long \in Nodes /\ Above(long) = Above(p) \cup {p} /\ long[1] = p[1]
  BY KidIsNode, AboveKid, KidPath, NodeTyped
<1> HIDE DEF long
<1>2. CASE IsLambda(p)
  <2>1. InLambda(long)
    BY <1>1, <1>2 DEF InLambda
  <2>2. \A r \in Above(p) : Len(r) <= Len(p)
    BY AboveIs, NodeTyped
  <2>3. Len(p) <= Len(p)
    BY NodeTyped
  <2>4. UnitIs(long, p)
    BY <1>1, <1>2, <2>1, <2>2, <2>3 DEF UnitIs
  <2>5. UnitOf(long) = p
    BY <1>1, <2>4, UnitFound
  <2> QED
    BY <1>2, <2>1, <2>5 DEF Depth, long
<1>3. CASE ~IsLambda(p)
  <2>1. InLambda(long) = InLambda(p)
    BY <1>1, <1>3 DEF InLambda
  <2>2. UnitIs(p, UnitOf(p))
    BY UnitFound
  <2>3. UnitIs(long, UnitOf(p))
    BY <1>1, <1>3, <2>1, <2>2 DEF UnitIs
  <2>4. UnitOf(long) = UnitOf(p)
    BY <1>1, <2>3, UnitFound
  <2> QED
    BY <1>3, <2>1, <2>4 DEF Depth, long
<1> QED
  BY <1>2, <1>3

LEMMA UnitTyped ==
  ASSUME prog \in Programs, NEW p \in Nodes
  PROVE  /\ UnitOf(p) \in Nodes /\ Depth(p) \in 0 .. Len(p) - 1
         /\ InLambda(p) => /\ UnitOf(p) \in Above(p) /\ IsLambda(UnitOf(p)) /\ Depth(p) = Len(UnitOf(p))
                           /\ \A q \in Above(p) : IsLambda(q) => Len(q) <= Len(UnitOf(p))
         /\ ~InLambda(p) => UnitOf(p) = <<p[1]>> /\ Depth(p) = 0
<1>1. UnitIs(p, UnitOf(p))
  BY UnitFound
<1>2. CASE InLambda(p)
  BY <1>1, <1>2, AboveIs DEF UnitIs, Depth
<1>3. CASE ~InLambda(p)
  BY <1>1, <1>3, ItemIsNode, NodeTyped DEF UnitIs, Depth
<1> QED
  BY <1>2, <1>3
-----------------------------------------------------------------------------
(* What is bound on the way down a path.                                   *)

(* A set of numbers up to m has a greatest element.                        *)
LEMMA GreatestOf ==
  ASSUME NEW m \in Nat, NEW S \in SUBSET (0 .. m), S # {}
  PROVE  \E n \in S : \A i \in S : i <= n
<1> DEFINE T == {m - i : i \in S}
<1>1. T \in SUBSET Nat /\ T # {}
  <2>1. \A i \in S : i \in 0 .. m /\ m - i \in Nat
    OBVIOUS
  <2>2. \E i : i \in S
    OBVIOUS
  <2> QED
    BY <2>1, <2>2
<1>2. PICK k \in T : \A j \in T : k <= j
  <2> HIDE DEF T
  <2> QED
    BY <1>1, LeastOf
<1>3. PICK n \in S : k = m - n
  BY <1>2
<1>4. \A i \in S : m - i \in T
  OBVIOUS
<1>5. \A i \in S : k <= m - i
  BY <1>2, <1>4
<1> QED
  BY <1>3, <1>5

LEMMA BoundByAbove ==
  ASSUME prog \in Programs, NEW p \in Nodes, NEW q \in Above(p), NEW n \in 0 .. Len(q) - 1
  PROVE  BoundBy(p, n) = BoundBy(q, n) /\ Owner(p, n) = Owner(q, n)
<1>1. /\ p \in Seq(Nat) /\ q \in Seq(Nat) /\ Len(p) \in Nat /\ Len(q) \in 1 .. Len(p) - 1
      /\ \A i \in 1 .. Len(q) : q[i] = p[i]
      /\ q[1] = p[1] /\ q \in Nodes
  BY AboveIs, NodeTyped
<1>2. n # 0 => SubSeq(q, 1, n) = SubSeq(p, 1, n)
  <2> SUFFICES ASSUME n # 0 PROVE SubSeq(q, 1, n) = SubSeq(p, 1, n)
    OBVIOUS
  <2>1. /\ SubSeq(p, 1, n) \in Seq(Nat) /\ SubSeq(q, 1, n) \in Seq(Nat)
        /\ Len(SubSeq(p, 1, n)) = n /\ Len(SubSeq(q, 1, n)) = n
        /\ \A i \in 1 .. n : SubSeq(p, 1, n)[i] = p[i] /\ SubSeq(q, 1, n)[i] = q[i]
    <3>1. \A i \in 1 .. n : i \in 1 .. Len(p) /\ i \in 1 .. Len(q)
      BY <1>1
    <3>2. \A i \in 1 .. n : p[i] \in Nat /\ q[i] \in Nat
      BY <1>1, <3>1, ElementOfSeq
    <3> QED
      BY <1>1, <3>2, SubSeqProperties
  <2>2. \A i \in 1 .. n : p[i] = q[i]
    BY <1>1
  <2> QED
    BY <2>1, <2>2, SeqEqual
<1>3. q[n + 1] = p[n + 1]
  BY <1>1
<1>4. CASE n = 0
  BY <1>1, <1>4 DEF BoundBy, Owner
<1>5. CASE n # 0
  BY <1>1, <1>2, <1>3, <1>5 DEF BoundBy, Owner
<1> QED
  BY <1>4, <1>5

LEMMA BindersAbove ==
  ASSUME prog \in Programs, NEW p \in Nodes, NEW q \in Above(p), NEW name
  PROVE  Binders(q, name) = {n \in Binders(p, name) : n < Len(q)}
<1>1. Len(p) \in Nat /\ Len(q) \in 1 .. Len(p) - 1
  BY AboveIs, NodeTyped
<1>2. \A n \in 0 .. Len(q) - 1 : BoundBy(p, n) = BoundBy(q, n)
  BY BoundByAbove
<1> QED
  BY <1>1, <1>2 DEF Binders

(* The innermost binder is the greatest.                                   *)
LEMMA InnermostIs ==
  ASSUME NEW p, NEW name, NEW n \in Binders(p, name), \A m \in Binders(p, name) : m <= n
  PROVE  Innermost(p, name) = Held("variable", Owner(p, n), Latest(BoundBy(p, n), name))
<1> DEFINE Is(m) == m \in Binders(p, name) /\ \A i \in Binders(p, name) : i <= m
           c == CHOOSE m \in Binders(p, name) : \A i \in Binders(p, name) : i <= m
<1>1. \A m \in Binders(p, name) : m \in Int
  BY DEF Binders
<1>2. c \in Binders(p, name) /\ \A i \in Binders(p, name) : i <= c
  OBVIOUS
<1>3. c <= n /\ n <= c
  BY <1>2
<1> HIDE DEF c
<1>4. c = n
  BY <1>1, <1>2, <1>3
<1>5. Innermost(p, name) = Held("variable", Owner(p, c), Latest(BoundBy(p, c), name))
  BY DEF Innermost, c
<1> QED
  BY <1>4, <1>5

LEMMA GreatestBinder ==
  ASSUME prog \in Programs, NEW p \in Nodes, NEW name, Binders(p, name) # {}
  PROVE  \E n \in Binders(p, name) : \A m \in Binders(p, name) : m <= n
<1>1. Len(p) \in Nat \ {0}
  BY NodeTyped
<1>2. Binders(p, name) \in SUBSET (0 .. Len(p) - 1) /\ Len(p) - 1 \in Nat
  BY <1>1 DEF Binders
<1> QED
  BY <1>2, GreatestOf

LEMMA BindersOfKid ==
  ASSUME prog \in Programs, NEW p \in Nodes, NEW k \in DOMAIN NodeAt(p).kids, NEW name
  PROVE  LET long == Append(p, k)
         IN  /\ Binders(long, name) = Binders(p, name) \cup
                  (IF name \in ToSet(BoundBy(long, Len(p))) THEN {Len(p)} ELSE {})
             /\ \A n \in Binders(p, name) : n \in 0 .. Len(p) - 1
             /\ \A n \in 0 .. Len(p) - 1 : BoundBy(long, n) = BoundBy(p, n) /\ Owner(long, n) = Owner(p, n)
             /\ Owner(long, Len(p)) = p
<1> DEFINE long == Append(p, k)
<1>1. /\ long \in Nodes /\ p \in Above(long) /\ Len(long) = Len(p) + 1 /\ SubSeq(long, 1, Len(p)) = p
      /\ Len(p) \in Nat \ {0}
  BY KidIsNode, AboveKid, KidPath, NodeTyped
<1> HIDE DEF long
<1>2. \A n \in 0 .. Len(p) - 1 : BoundBy(long, n) = BoundBy(p, n) /\ Owner(long, n) = Owner(p, n)
  BY <1>1, BoundByAbove
<1>3. Owner(long, Len(p)) = p
  BY <1>1 DEF Owner
<1>4. 0 .. Len(long) - 1 = (0 .. Len(p) - 1) \cup {Len(p)}
  BY <1>1
<1>5. Binders(long, name) = Binders(p, name) \cup
        (IF name \in ToSet(BoundBy(long, Len(p))) THEN {Len(p)} ELSE {})
  BY <1>2, <1>4 DEF Binders
<1>6. \A n \in Binders(p, name) : n \in 0 .. Len(p) - 1
  BY DEF Binders
<1> QED
  BY <1>2, <1>3, <1>5, <1>6 DEF long

(* What a node binds for one of its kids.                                  *)
LEMMA BoundForKid ==
  ASSUME prog \in Programs, NEW p \in Nodes, NEW k \in DOMAIN NodeAt(p).kids
  PROVE  BoundBy(Append(p, k), Len(p)) =
           IF NodeAt(p).kind = "letex"
           THEN SubSeq(NodeAt(p).names, 1, IF k <= Len(NodeAt(p).names) THEN k ELSE Len(NodeAt(p).names))
           ELSE IF NodeAt(p).kind = "close" THEN NodeAt(p).names ELSE <<>>
<1> DEFINE long == Append(p, k)
           s == Len(NodeAt(p).names)
<1>1. /\ SubSeq(long, 1, Len(p)) = p /\ Len(p) \in Nat \ {0} /\ long[Len(p) + 1] = k /\ k \in Nat
      /\ s \in Nat
  BY KidIsNode, KidPath, NodeTyped, LenProperties
<1>2. Min({k, s}) = IF k <= s THEN k ELSE s
  <2> HIDE DEF s
  <2>1. \A x \in {k, s} : x \in Int
    BY <1>1
  <2> DEFINE least == IF k <= s THEN k ELSE s
  <2>2. least \in {k, s} /\ \A y \in {k, s} : least <= y
    BY <1>1
  <2>3. \A x \in {k, s} : (\A y \in {k, s} : x <= y) => x = least
    BY <1>1
  <2>4. Min({k, s}) = CHOOSE x \in {k, s} : \A y \in {k, s} : x <= y
    BY DEF Min
  <2> HIDE DEF least
  <2>5. Min({k, s}) = least
    BY <2>2, <2>3, <2>4
  <2> QED
    BY <2>5 DEF least
<1> HIDE DEF long, s
<1> DEFINE n == Len(p)
<1>3. BoundBy(long, n) =
        IF NodeAt(p).kind = "letex" THEN SubSeq(NodeAt(p).names, 1, Min({k, s}))
        ELSE IF NodeAt(p).kind = "close" THEN NodeAt(p).names ELSE <<>>
  <2>1. n > 0 /\ n # 0 /\ SubSeq(long, 1, n) = p /\ long[n + 1] = k
    BY <1>1
  <2> HIDE DEF n
  <2>2. CASE NodeAt(p).kind = "letex"
    BY <2>1, <2>2 DEF BoundBy, s
  <2>3. CASE NodeAt(p).kind = "close"
    BY <2>1, <2>3 DEF BoundBy
  <2>4. CASE NodeAt(p).kind \notin {"letex", "close"}
    BY <2>1, <2>4 DEF BoundBy
  <2> QED
    BY <2>2, <2>3, <2>4
<1> QED
  BY <1>2, <1>3 DEF long, s
-----------------------------------------------------------------------------
(* The names in a scope, in the order they came.                           *)

ListOf(scope) == [i \in DOMAIN scope.vars |-> scope.vars[i].name]

LEMMA ListTyped ==
  ASSUME NEW scope \in Scope
  PROVE  /\ ListOf(scope) \in Seq(Names) /\ Len(ListOf(scope)) = Len(scope.vars)
         /\ Len(scope.vars) \in Nat /\ DOMAIN scope.vars = 1 .. Len(scope.vars)
         /\ \A i \in 1 .. Len(scope.vars) : /\ scope.vars[i] \in Var
                                            /\ ListOf(scope)[i] = scope.vars[i].name
<1> DEFINE n == Len(scope.vars)
<1>1. scope.vars \in Seq(Var)
  BY DEF Scope
<1>2. n \in Nat /\ DOMAIN scope.vars = 1 .. n /\ \A i \in 1 .. n : scope.vars[i] \in Var
  BY <1>1, LenProperties, ElementOfSeq
<1>3. \A i \in 1 .. n : scope.vars[i].name \in Names
  BY <1>2 DEF Var
<1>4. ListOf(scope) = [i \in 1 .. n |-> scope.vars[i].name]
  BY <1>2 DEF ListOf
<1> HIDE DEF n
<1>5. ListOf(scope) \in Seq(Names) /\ Len(ListOf(scope)) = n
  BY <1>2, <1>3, <1>4
<1> QED
  BY <1>2, <1>4, <1>5 DEF n

LEMMA FreeNamesAre == ASSUME NEW node PROVE FreeNames(node) = ListOf(LFree[node][NewScope(1)])
  BY DEF FreeNames, ListOf

LEMMA NewListEmpty == ListOf(NewScope(1)) = <<>>
  BY DEF ListOf, NewScope

LEMMA LatestIs ==
  ASSUME NEW S, NEW names \in Seq(S), NEW name \in ToSet(names)
  PROVE  /\ Latest(names, name) \in 1 .. Len(names) /\ names[Latest(names, name)] = name
         /\ \A i \in 1 .. Len(names) : names[i] = name => i <= Latest(names, name)
<1> DEFINE At == {j \in 1 .. Len(names) : names[j] = name}
           Is(j) == names[j] = name /\ \A i \in DOMAIN names : names[i] = name => i <= j
<1>1. Len(names) \in Nat /\ DOMAIN names = 1 .. Len(names)
  BY LenProperties
<1>2. PICK i \in 1 .. Len(names) : names[i] = name
  BY <1>1 DEF ToSet
<1>3. PICK j \in At : \A k \in At : k <= j
  <2>1. At \in SUBSET (0 .. Len(names)) /\ At # {}
    BY <1>1, <1>2
  <2> HIDE DEF At
  <2> QED
    BY <1>1, <2>1, GreatestOf
<1>4. j \in DOMAIN names /\ Is(j)
  BY <1>1, <1>3
<1>5. Latest(names, name) = CHOOSE k \in DOMAIN names : Is(k)
  BY DEF Latest
<1>6. Latest(names, name) \in DOMAIN names /\ Is(Latest(names, name))
  <2> HIDE DEF Is
  <2> QED
    BY <1>4, <1>5
<1> QED
  BY <1>1, <1>6

LEMMA SLookupIs ==
  ASSUME NEW scope \in Scope, NEW name
  PROVE  SLookup(scope, name) = IF name \in ToSet(ListOf(scope))
                                THEN scope.vars[Latest(ListOf(scope), name)].off ELSE NotFound
<1> DEFINE n == Len(scope.vars)
           list == ListOf(scope)
           At == {j \in DOMAIN scope.vars : scope.vars[j].name = name}
<1>1. /\ list \in Seq(Names) /\ Len(list) = n /\ n \in Nat /\ DOMAIN scope.vars = 1 .. n
      /\ \A i \in 1 .. n : list[i] = scope.vars[i].name
  BY ListTyped
<1>2. DOMAIN list = 1 .. n
  BY <1>1, LenProperties
<1>3. At # {} <=> name \in ToSet(list)
  <2> HIDE DEF list, n
  <2> QED
    BY <1>1, <1>2 DEF ToSet
<1>4. ASSUME name \in ToSet(list)
      PROVE  (CHOOSE j \in At : \A k \in At : k <= j) = Latest(list, name)
  <2> DEFINE c == CHOOSE j \in At : \A k \in At : k <= j
             d == Latest(list, name)
  <2>1. d \in 1 .. n /\ list[d] = name /\ \A i \in 1 .. n : list[i] = name => i <= d
    <3> HIDE DEF list, n
    <3> QED
      BY <1>1, <1>4, LatestIs
  <2> HIDE DEF list, d
  <2>2. d \in At /\ \A k \in At : k <= d
    BY <1>1, <2>1
  <2>3. c \in At /\ \A k \in At : k <= c
    <3> HIDE DEF At
    <3> QED
      BY <2>2
  <2>4. c <= d /\ d <= c
    BY <2>2, <2>3
  <2>5. c \in Int /\ d \in Int
    BY <1>1, <2>1, <2>3
  <2> HIDE DEF c
  <2>6. c = d
    BY <2>4, <2>5
  <2> QED
    BY <2>6 DEF c, d
<1>5. SLookup(scope, name) = IF At = {} THEN NotFound
                             ELSE scope.vars[CHOOSE j \in At : \A k \in At : k <= j].off
  BY DEF SLookup
<1> HIDE DEF At, list, n
<1> QED
  BY <1>3, <1>4, <1>5 DEF list

(* What is in a scope has an offset, which NotFound is none of.            *)
LEMMA SLookupFinds ==
  ASSUME NEW scope \in Scope, NEW name
  PROVE  SLookup(scope, name) # NotFound <=> name \in ToSet(ListOf(scope))
<1>1. ASSUME name \in ToSet(ListOf(scope)) PROVE scope.vars[Latest(ListOf(scope), name)].off # NotFound
  <2> DEFINE d == Latest(ListOf(scope), name)
  <2>1. d \in 1 .. Len(scope.vars)
    BY <1>1, ListTyped, LatestIs
  <2> HIDE DEF d
  <2>2. scope.vars[d] \in Var
    BY <2>1, ListTyped
  <2>3. scope.vars[d].off \in Nat
    BY <2>2 DEF Var
  <2>4. scope.vars[d].off # NotFound
    BY <2>3 DEF NotFound
  <2> QED
    BY <2>4 DEF d
<1> QED
  BY <1>1, SLookupIs

LEMMA ListInSet ==
  ASSUME NEW S, NEW list \in Seq(S), NEW e
  PROVE  ToSet(Append(list, e)) = ToSet(list) \cup {e}
<1> DEFINE n == Len(list)
           long == Append(list, e)
<1>1. n \in Nat /\ DOMAIN list = 1 .. n
  BY LenProperties
<1>2. DOMAIN long = 1 .. n + 1 /\ long[n + 1] = e /\ \A i \in 1 .. n : long[i] = list[i]
  OBVIOUS
<1> HIDE DEF n, long
<1>3. 1 .. n + 1 = (1 .. n) \cup {n + 1}
  BY <1>1
<1>4. ToSet(long) = ToSet(list) \cup {e}
  BY <1>1, <1>2, <1>3 DEF ToSet
<1> QED
  BY <1>4 DEF long

LEMMA AddedList ==
  ASSUME NEW scope \in Scope, NEW name \in Names
  PROVE  ListOf(Added(scope, name)) = Append(ListOf(scope), name)
<1> DEFINE n == Len(scope.vars)
           var == [name |-> name, off |-> scope.offc]
           added == Added(scope, name).vars
<1>1. /\ ListOf(scope) \in Seq(Names) /\ Len(ListOf(scope)) = n /\ n \in Nat
      /\ \A i \in 1 .. n : ListOf(scope)[i] = scope.vars[i].name
  BY ListTyped
<1>2. scope.vars \in Seq(Var) /\ var \in Var
  BY DEF Scope, Var
<1>3. added = Append(scope.vars, var)
  BY DEF Added
<1> DEFINE long == Append(scope.vars, var)
<1>4. /\ DOMAIN long = 1 .. n + 1 /\ long[n + 1] = var /\ \A i \in 1 .. n : long[i] = scope.vars[i]
  BY <1>2
<1> HIDE DEF long
<1>5. ListOf(Added(scope, name)) = [i \in 1 .. n + 1 |-> long[i].name]
  BY <1>3, <1>4 DEF ListOf, long
<1> DEFINE l == ListOf(Added(scope, name))
           r == Append(ListOf(scope), name)
<1>6. \A i \in 1 .. n + 1 : l[i] = IF i = n + 1 THEN name ELSE ListOf(scope)[i]
  BY <1>1, <1>4, <1>5
<1>7. l \in Seq(Names) /\ Len(l) = n + 1
  <2>1. \A i \in 1 .. n + 1 : long[i].name \in Names
    <3>1. \A i \in 1 .. n + 1 : long[i] \in Var
      BY <1>1, <1>2, <1>4, ElementOfSeq
    <3> QED
      BY <3>1 DEF Var
  <2> QED
    BY <1>1, <1>5, <2>1
<1>8. /\ r \in Seq(Names) /\ Len(r) = n + 1 /\ \A i \in 1 .. n + 1 : r[i] = IF i = n + 1 THEN name ELSE ListOf(scope)[i]
  BY <1>1
<1> HIDE DEF l, r
<1>9. l = r
  BY <1>6, <1>7, <1>8, SeqEqual
<1> QED
  BY <1>9 DEF l, r

LEMMA SBindList ==
  ASSUME NEW scope \in Scope, NEW name \in Names
  PROVE  /\ ListOf(SBind(scope, name)) =
              IF name \in ToSet(ListOf(scope)) THEN ListOf(scope) ELSE Append(ListOf(scope), name)
         /\ ToSet(ListOf(SBind(scope, name))) = ToSet(ListOf(scope)) \cup {name}
<1>1. CASE name \in ToSet(ListOf(scope))
  <2>1. SLookup(scope, name) # NotFound
    BY <1>1, SLookupFinds
  <2> DEFINE cap == Grown(Len(scope.vars), scope.cap)
  <2>2. SBind(scope, name) = [scope EXCEPT !.cap = cap]
    BY <2>1 DEF SBind
  <2> HIDE DEF cap
  <2>3. SBind(scope, name).vars = scope.vars
    BY <2>2 DEF Scope
  <2>4. ListOf(SBind(scope, name)) = ListOf(scope)
    BY <2>3 DEF ListOf
  <2> QED
    BY <1>1, <2>4
<1>2. CASE name \notin ToSet(ListOf(scope))
  <2>1. SLookup(scope, name) = NotFound
    BY <1>2, SLookupFinds
  <2>2. SBind(scope, name) = Added(scope, name)
    BY <2>1 DEF SBind
  <2>3. ListOf(SBind(scope, name)) = Append(ListOf(scope), name)
    BY <2>2, AddedList
  <2> QED
    BY <1>2, <2>3, ListInSet, ListTyped
<1> QED
  BY <1>1, <1>2
-----------------------------------------------------------------------------
(* The scope of a lambda: push_scope_a with the formals and with what the  *)
(* body leaves free.                                                       *)

FilledEquation(names, f) ==
  f = [i \in 0 .. Len(names) |-> IF i = 0 THEN NewScope(1) ELSE SBind(f[i - 1], names[i])]

Filled(names) == CHOOSE f : FilledEquation(names, f)

LEMMA SBindGood ==
  ASSUME NEW scope \in Scope, NEW name \in Names, NEW first \in Nat,
         GoodScope(scope, first), Roomy(Len(scope.vars), scope.cap)
  PROVE  /\ SBind(scope, name) \in Scope /\ GoodScope(SBind(scope, name), first)
         /\ Roomy(Len(SBind(scope, name).vars), SBind(scope, name).cap)
<1>1. CASE SLookup(scope, name) = NotFound
  BY <1>1, AddedGood DEF SBind
<1>2. CASE SLookup(scope, name) # NotFound
  <2> DEFINE cap == Grown(Len(scope.vars), scope.cap)
             grown == [scope EXCEPT !.cap = cap]
  <2>1. SBind(scope, name) = grown
    BY <1>2 DEF SBind
  <2>2. cap \in Nat /\ Roomy(Len(scope.vars), cap)
    <3>1. Len(scope.vars) \in Nat /\ scope.cap \in Nat
      BY ListTyped DEF Scope
    <3> QED
      BY <3>1, GrownRoomy
  <2> HIDE DEF cap
  <2>3. grown.vars = scope.vars /\ grown.offc = scope.offc /\ grown.cap = cap
    BY DEF Scope
  <2> HIDE DEF grown
  <2> QED
    BY <2>1, <2>2, <2>3, SBindTyped DEF GoodScope
<1> QED
  BY <1>1, <1>2

LEMMA FilledIs ==
  ASSUME NEW names \in Seq(Names)
  PROVE  /\ Filled(names)[0] = NewScope(1)
         /\ \A i \in 1 .. Len(names) : Filled(names)[i] = SBind(Filled(names)[i - 1], names[i])
         /\ \A i \in 0 .. Len(names) :
              /\ Filled(names)[i] \in Scope /\ GoodScope(Filled(names)[i], 1)
              /\ Roomy(Len(Filled(names)[i].vars), Filled(names)[i].cap)
<1> DEFINE n == Len(names)
           filled == Filled(names)
<1>1. n \in Nat /\ \A i \in 1 .. n : names[i] \in Names
  BY LenProperties, ElementOfSeq
<1>2. \E f : FilledEquation(names, f)
  <2> DEFINE F == [i \in 1 .. n |-> [s \in Scope |-> SBind(s, names[i])]]
  <2>1. F \in [1 .. n -> [Scope -> Scope]]
    BY <1>1, SBindTyped
  <2>2. PICK f : Iterates(n, Scope, NewScope(1), F, f)
    <3> HIDE DEF F, n
    <3> QED
      BY <1>1, <2>1, NewScopeTyped, Iterated
  <2>3. ASSUME NEW i \in 0 .. n
        PROVE  f[i] = IF i = 0 THEN NewScope(1) ELSE SBind(f[i - 1], names[i])
    <3>1. i # 0 => i \in 1 .. n /\ i - 1 \in 0 .. n
      BY <1>1
    <3>2. f[0] = NewScope(1) /\ \A j \in 0 .. n : f[j] \in Scope
      BY <2>2 DEF Iterates
    <3>3. i # 0 => f[i] = F[i][f[i - 1]]
      BY <2>2, <3>1 DEF Iterates
    <3> QED
      BY <3>1, <3>2, <3>3
  <2> HIDE DEF F
  <2> QED
    BY <2>2, <2>3 DEF FilledEquation, Iterates
<1>3. FilledEquation(names, filled)
  BY <1>2 DEF Filled
<1> HIDE DEF filled
<1>4. filled[0] = NewScope(1) /\ \A i \in 1 .. n : filled[i] = SBind(filled[i - 1], names[i])
  BY <1>1, <1>3 DEF FilledEquation
<1> DEFINE P == {i \in 0 .. n : /\ filled[i] \in Scope /\ GoodScope(filled[i], 1)
                                /\ Roomy(Len(filled[i].vars), filled[i].cap)}
<1> HIDE DEF n
<1>5. 0 \in P
  BY <1>1, <1>4, NewScopeGood
<1>6. ASSUME NEW i \in 1 .. n, i - 1 \in P PROVE i \in P
  BY <1>1, <1>4, <1>6, SBindGood
<1>7. \A i \in 0 .. n : i \in P
  <2> HIDE DEF P
  <2> QED
    BY <1>1, <1>5, <1>6, UpTo
<1> QED
  BY <1>4, <1>7 DEF filled, n

(* The words of a call, and behind them those of the environment.          *)
FrameSlots(l) ==
  LET formals == Len(NodeAt(l).names)
  IN  [o \in 1 .. formals + Len(FreeNames(NodeAt(l))) |->
         IF o <= formals THEN Held("variable", l, o) ELSE Held("captured", l, o - formals)]

InFrame(l)    == NodeAt(l).names \o FreeNames(NodeAt(l).kids[1])
FrameScope(l) == Filled(InFrame(l))[Len(InFrame(l))]
Frame(l, name) ==
  IF SLookup(FrameScope(l), name) = NotFound THEN Unbound
  ELSE FrameSlots(l)[SLookup(FrameScope(l), name)]

Distinct(names) == \A i, j \in DOMAIN names : names[i] = names[j] => i = j

(* What the formals make of it alone.                                      *)
FormalsMake(names, filled, j) ==
  /\ ToSet(ListOf(filled[j])) = ToSet(SubSeq(names, 1, j))
  /\ Len(ListOf(filled[j])) <= j
  /\ Distinct(names) => ListOf(filled[j]) = SubSeq(names, 1, j)

LEMMA FormalsFill ==
  ASSUME NEW names \in Seq(Names), NEW filled, NEW m \in Nat, m = Len(names),
         filled[0] = NewScope(1), \A j \in 0 .. m : filled[j] \in Scope,
         \A j \in 1 .. m : filled[j] = SBind(filled[j - 1], names[j])
  PROVE  FormalsMake(names, filled, m)
<1> DEFINE P == {j \in 0 .. m : FormalsMake(names, filled, j)}
<1>1. \A j \in 1 .. m : names[j] \in Names
  BY ElementOfSeq
<1>2. DOMAIN names = 1 .. m
  BY LenProperties
<1>3. 0 \in P
  <2>1. SubSeq(names, 1, 0) = <<>> /\ ListOf(filled[0]) = <<>>
    BY NewListEmpty
  <2>2. FormalsMake(names, filled, 0)
    <3>1. Len(<<>>) <= 0
      BY EmptySeq
    <3> QED
      BY <2>1, <3>1, Zenon DEF FormalsMake
  <2> QED
    BY <2>2
<1>4. ASSUME NEW j \in 1 .. m, j - 1 \in P PROVE j \in P
  <2> DEFINE l == ListOf(filled[j - 1])
             name == names[j]
             s == SubSeq(names, 1, j - 1)
  <2>1. /\ j - 1 \in 0 .. m /\ FormalsMake(names, filled, j - 1) /\ name \in Names
        /\ filled[j - 1] \in Scope /\ filled[j] = SBind(filled[j - 1], name)
    BY <1>1, <1>4
  <2>2. SubSeq(names, 1, j) = Append(s, name) /\ s \in Seq(Names) /\ Len(s) = j - 1
        /\ \A i \in 1 .. j - 1 : s[i] = names[i]
    <3>1. s \in Seq(Names) /\ Len(s) = j - 1 /\ \A i \in 1 .. j - 1 : s[i] = names[i]
      BY <1>1, SubSeqProperties
    <3>2. /\ SubSeq(names, 1, j) \in Seq(Names) /\ Len(SubSeq(names, 1, j)) = j
          /\ \A i \in 1 .. j : SubSeq(names, 1, j)[i] = names[i]
      BY <1>1, SubSeqProperties
    <3>3. /\ Append(s, name) \in Seq(Names) /\ Len(Append(s, name)) = j
          /\ \A i \in 1 .. j : Append(s, name)[i] = names[i]
      BY <2>1, <3>1
    <3> QED
      BY <3>1, <3>2, <3>3, SeqEqual
  <2>3. /\ ListOf(filled[j]) = IF name \in ToSet(l) THEN l ELSE Append(l, name)
        /\ ToSet(ListOf(filled[j])) = ToSet(l) \cup {name}
        /\ l \in Seq(Names)
    <3> DEFINE scope == filled[j - 1]
    <3>1. scope \in Scope /\ filled[j] = SBind(scope, name) /\ name \in Names
      BY <2>1
    <3> HIDE DEF scope, name
    <3>2. /\ ListOf(SBind(scope, name)) = IF name \in ToSet(ListOf(scope)) THEN ListOf(scope) ELSE Append(ListOf(scope), name)
          /\ ToSet(ListOf(SBind(scope, name))) = ToSet(ListOf(scope)) \cup {name}
          /\ ListOf(scope) \in Seq(Names)
      BY <3>1, SBindList, ListTyped
    <3> QED
      BY <3>1, <3>2 DEF scope
  <2>4. ToSet(l) = ToSet(s) /\ Len(l) <= j - 1 /\ Distinct(names) => l = s
    BY <2>1 DEF FormalsMake
  <2>5. ToSet(Append(s, name)) = ToSet(s) \cup {name}
    BY <2>2, ListInSet
  <2>6. Len(ListOf(filled[j])) <= j
    <3>1. Len(l) \in Nat /\ Len(Append(l, name)) = Len(l) + 1 /\ Len(l) <= j - 1
      BY <2>1, <2>3 DEF FormalsMake
    <3> HIDE DEF l
    <3> QED
      BY <2>3, <3>1
  <2>7. Distinct(names) => name \notin ToSet(l)
    <3> SUFFICES ASSUME Distinct(names), name \in ToSet(l) PROVE FALSE
      OBVIOUS
    <3>1. name \in ToSet(s)
      BY <2>1 DEF FormalsMake
    <3>2. DOMAIN s = 1 .. j - 1
      BY <2>2, LenProperties
    <3> HIDE DEF s
    <3>3. PICK i \in 1 .. j - 1 : s[i] = name
      BY <3>1, <3>2 DEF ToSet
    <3>4. i \in 1 .. m /\ i # j /\ names[i] = names[j]
      BY <2>2, <3>3
    <3> QED
      BY <1>2, <3>4 DEF Distinct
  <2> HIDE DEF l, s, name
  <2>8. ToSet(l) = ToSet(s) /\ (Distinct(names) => l = s)
    BY <2>1 DEF FormalsMake, l, s
  <2>9. FormalsMake(names, filled, j)
    BY <2>2, <2>3, <2>5, <2>6, <2>7, <2>8 DEF FormalsMake
  <2> QED
    BY <2>9
<1>5. \A j \in 0 .. m : j \in P
  <2> HIDE DEF P
  <2> QED
    BY <1>3, <1>4, UpTo
<1> QED
  BY <1>5

LEMMA ThroughOne ==
  ASSUME NEW f, NEW kid, f[kid] \in [Scope -> Scope], NEW scope \in Scope
  PROVE  Through(f, <<kid>>, scope) = f[kid][scope]
<1> DEFINE kids == <<kid>>
<1>1. kids \in Seq({kid}) /\ Len(kids) = 1 /\ kids[1] = kid
  OBVIOUS
<1> HIDE DEF kids
<1>2. \A k \in 1 .. Len(kids) : f[kids[k]] \in [Scope -> Scope]
  BY <1>1
<1>3. PICK walk : WalksThrough(f, kids, scope, walk)
  BY <1>1, <1>2, ThroughWalk
<1>4. walk[0] = scope /\ walk[1] = f[kid][walk[0]] /\ Through(f, kids, scope) = walk[1]
  BY <1>1, <1>3 DEF WalksThrough
<1> QED
  BY <1>4 DEF kids

LEMMA LambdaLeaves ==
  ASSUME NEW node \in Trees, node.kind = "close", NEW scope \in Scope
  PROVE  /\ node.kids[1] \in Trees /\ DOMAIN node.kids = {1} /\ LFree[node.kids[1]][scope] \in Scope
         /\ LFree[node][scope] = Unbind(LFree[node.kids[1]][scope], ToSet(node.names))
<1>1. node.kids \in Seq(Trees) /\ Len(node.kids) = 1
  BY TreeTyped DEF WellFormed
<1>2. node.kids = <<node.kids[1]>> /\ node.kids[1] \in Trees /\ DOMAIN node.kids = {1}
  BY <1>1
<1> DEFINE kid == node.kids[1]
<1>3. LFree[kid] \in [Scope -> Scope]
  BY <1>2, LFreeTyped
<1>4. LFree[node][scope] = LeavesFree(node, scope, Through(LFree, node.kids, scope))
  BY LFreeTyped DEF LFreeAt
<1> HIDE DEF kid
<1>5. Through(LFree, node.kids, scope) = LFree[kid][scope]
  BY <1>2, <1>3, ThroughOne DEF kid
<1>6. LFree[node][scope] = Unbind(LFree[kid][scope], ToSet(node.names))
  BY <1>4, <1>5 DEF LeavesFree, Skipped
<1> QED
  BY <1>2, <1>3, <1>6 DEF kid

(* What is in the frame of a lambda: its formals and what it leaves free,  *)
(* in this order if the formals have different names.                      *)
FrameMakes(names, free, scope) ==
  /\ ToSet(ListOf(scope)) = ToSet(names) \cup ToSet(free)
  /\ Len(ListOf(scope)) <= Len(names) + Len(free)
  /\ Distinct(names) => ListOf(scope) = names \o free

LEMMA FrameGrows ==
  ASSUME NEW names \in Seq(Names), NEW free \in Scope, NEW filled \in Scope,
         FrameMakes(names, ListOf(free), filled), NEW name \in Names, name \notin ToSet(names)
  PROVE  FrameMakes(names, ListOf(SBind(free, name)), SBind(filled, name))
<1> DEFINE a == ListOf(free)
           b == ListOf(filled)
           c == ListOf(SBind(free, name))
           d == ListOf(SBind(filled, name))
<1>1. /\ a \in Seq(Names) /\ b \in Seq(Names)
      /\ c = IF name \in ToSet(a) THEN a ELSE Append(a, name)
      /\ d = IF name \in ToSet(b) THEN b ELSE Append(b, name)
      /\ ToSet(c) = ToSet(a) \cup {name} /\ ToSet(d) = ToSet(b) \cup {name}
  BY SBindList, ListTyped
<1>2. /\ ToSet(b) = ToSet(names) \cup ToSet(a) /\ Len(b) <= Len(names) + Len(a)
      /\ Distinct(names) => b = names \o a
  BY DEF FrameMakes
<1> HIDE DEF a, b, c, d
<1>3. name \in ToSet(b) <=> name \in ToSet(a)
  BY <1>2
<1>4. Append(names \o a, name) = names \o Append(a, name)
  BY <1>1
<1>5. Len(c) = IF name \in ToSet(a) THEN Len(a) ELSE Len(a) + 1
  BY <1>1
<1>6. Len(d) = IF name \in ToSet(b) THEN Len(b) ELSE Len(b) + 1
  BY <1>1
<1>7. Len(a) \in Nat /\ Len(b) \in Nat /\ Len(names) \in Nat
  BY <1>1, LenProperties
<1>8. Len(d) <= Len(names) + Len(c)
  BY <1>2, <1>3, <1>5, <1>6, <1>7
<1>9. Distinct(names) => d = names \o c
  BY <1>1, <1>2, <1>3, <1>4
<1>10. ToSet(d) = ToSet(names) \cup ToSet(c)
  BY <1>1, <1>2
<1> QED
  BY <1>8, <1>9, <1>10 DEF FrameMakes, c, d

LEMMA InFrameTyped ==
  ASSUME prog \in Programs, NEW l \in Nodes, IsLambda(l)
  PROVE  /\ InFrame(l) \in Seq(Names) /\ NodeAt(l).kids[1] \in Trees
         /\ FreeNames(NodeAt(l).kids[1]) \in Seq(Names) /\ FreeNames(NodeAt(l)) \in Seq(Names)
         /\ NodeAt(l).names \in Seq(Names)
<1>1. NodeAt(l) \in Trees /\ NodeAt(l).names \in Seq(Names)
  BY NodeTyped
<1>2. NodeAt(l).kids[1] \in Trees
  BY <1>1, LambdaLeaves, NewScopeTyped DEF IsLambda
<1>3. FreeNames(NodeAt(l).kids[1]) \in Seq(Names) /\ FreeNames(NodeAt(l)) \in Seq(Names)
  BY <1>1, <1>2, FreeNamesTyped
<1> QED
  BY <1>1, <1>2, <1>3, ConcatProperties DEF InFrame

LEMMA FrameFills ==
  ASSUME prog \in Programs, NEW l \in Nodes, IsLambda(l)
  PROVE  /\ FrameScope(l) \in Scope /\ GoodScope(FrameScope(l), 1)
         /\ FrameMakes(NodeAt(l).names, FreeNames(NodeAt(l)), FrameScope(l))
<1> DEFINE names == NodeAt(l).names
           body == NodeAt(l).kids[1]
           free == LFree[body][NewScope(1)]
           all == InFrame(l)
           filled == Filled(all)
           m == Len(names)
           n == Len(free.vars)
<1>1. /\ all \in Seq(Names) /\ body \in Trees /\ names \in Seq(Names)
      /\ FreeNames(body) \in Seq(Names) /\ all = names \o FreeNames(body)
  BY InFrameTyped DEF InFrame
<1>2. free \in Scope /\ FreeNames(body) = ListOf(free)
  BY <1>1, LFreeTyped, NewScopeTyped, FreeNamesAre
<1>3. LFree[NodeAt(l)][NewScope(1)] = Unbind(free, ToSet(names))
  BY LambdaLeaves, NewScopeTyped, NodeTyped DEF IsLambda
<1>4. FreeNames(NodeAt(l)) = ListOf(Unbind(free, ToSet(names)))
  BY <1>3, FreeNamesAre
<1>5. /\ m \in Nat /\ n \in Nat /\ Len(all) = m + n
      /\ \A j \in 1 .. m : all[j] = names[j]
      /\ \A i \in 1 .. n : all[m + i] = free.vars[i].name
      /\ \A i \in 1 .. n : all[m + i] \in Names
  <2> DEFINE list == FreeNames(body)
  <2>1. list \in Seq(Names) /\ Len(list) = n /\ n \in Nat /\ \A i \in 1 .. n : list[i] = free.vars[i].name
    BY <1>2, ListTyped
  <2>2. m \in Nat
    BY <1>1, LenProperties
  <2> HIDE DEF list, names, n, m, all, free
  <2>3. Len(names) = m
    BY DEF m
  <2>4. /\ Len(all) = m + n /\ \A j \in 1 .. m : all[j] = names[j]
        /\ \A i \in 1 .. n : all[m + i] = list[i]
    <3>1. all = names \o list /\ names \in Seq(Names)
      BY <1>1 DEF list
    <3>2. /\ Len(names \o list) = m + n
          /\ \A j \in 1 .. m + n : (names \o list)[j] = IF j <= m THEN names[j] ELSE list[j - m]
      BY <2>1, <2>2, <2>3, <3>1, ConcatProperties
    <3>3. \A i \in 1 .. n : m + i \in 1 .. m + n /\ ~(m + i <= m) /\ (m + i) - m = i
      BY <2>1, <2>2
    <3>4. \A j \in 1 .. m : j \in 1 .. m + n /\ j <= m
      BY <2>1, <2>2
    <3> QED
      BY <3>1, <3>2, <3>3, <3>4
  <2>5. \A i \in 1 .. n : list[i] \in Names
    BY <2>1, ElementOfSeq
  <2> QED
    BY <2>1, <2>2, <2>4, <2>5
<1> HIDE DEF names, body, free, all, filled, m, n
<1>6. /\ filled[0] = NewScope(1)
      /\ \A i \in 1 .. m + n : filled[i] = SBind(filled[i - 1], all[i])
      /\ \A i \in 0 .. m + n : filled[i] \in Scope /\ GoodScope(filled[i], 1)
  BY <1>1, <1>5, FilledIs DEF filled
<1>7. FormalsMake(names, filled, m)
  <2>1. \A j \in 0 .. m : filled[j] \in Scope
    BY <1>5, <1>6
  <2>2. \A j \in 1 .. m : filled[j] = SBind(filled[j - 1], names[j])
    BY <1>5, <1>6
  <2> QED
    BY <1>1, <1>5, <1>6, <2>1, <2>2, FormalsFill DEF m
<1>8. PICK kept : WalksUnbinding(free, ToSet(names), kept)
  BY <1>2, UnbindWalk
<1>9. /\ kept[0] = NewScope(1)
      /\ \A i \in 1 .. n : kept[i] = IF all[m + i] \in ToSet(names) THEN kept[i - 1]
                                     ELSE SBind(kept[i - 1], all[m + i])
      /\ \A i \in 0 .. n : kept[i] \in Scope
      /\ Unbind(free, ToSet(names)) = kept[n]
  BY <1>5, <1>8 DEF WalksUnbinding, n
<1> DEFINE P == {i \in 0 .. n : FrameMakes(names, ListOf(kept[i]), filled[m + i])}
<1>10. 0 \in P
  <2>1. SubSeq(names, 1, m) = names
    BY <1>1, SubSeqFull DEF m
  <2>2. ListOf(kept[0]) = <<>>
    BY <1>9, NewListEmpty
  <2>3. names \o <<>> = names /\ ToSet(<<>>) = {} /\ Len(<<>>) = 0
    BY <1>1 DEF ToSet
  <2>4. Len(names) + 0 = m /\ m + 0 = m
    BY <1>5 DEF m
  <2>5. /\ ToSet(ListOf(filled[m])) = ToSet(names) /\ Len(ListOf(filled[m])) <= m
        /\ Distinct(names) => ListOf(filled[m]) = names
    BY <1>7, <2>1 DEF FormalsMake
  <2>6. FrameMakes(names, <<>>, filled[m])
    BY <2>3, <2>4, <2>5, Zenon DEF FrameMakes
  <2> QED
    BY <1>5, <2>2, <2>4, <2>6
<1>11. ASSUME NEW i \in 1 .. n, i - 1 \in P PROVE i \in P
  <2> DEFINE name == all[m + i]
             old == filled[m + (i - 1)]
             free_ == kept[i - 1]
  <2>1. /\ filled[m + i] = SBind(old, name) /\ old \in Scope /\ name \in Names
        /\ free_ \in Scope /\ FrameMakes(names, ListOf(free_), old)
    <3>1. m + i \in 1 .. m + n /\ (m + i) - 1 = m + (i - 1) /\ m + (i - 1) \in 0 .. m + n /\ i - 1 \in 0 .. n
      BY <1>5
    <3> QED
      BY <1>5, <1>6, <1>9, <1>11, <3>1
  <2>2. kept[i] = IF name \in ToSet(names) THEN free_ ELSE SBind(free_, name)
    BY <1>9
  <2> HIDE DEF name, old, free_
  <2>3. CASE name \notin ToSet(names)
    <3>1. FrameMakes(names, ListOf(SBind(free_, name)), SBind(old, name))
      BY <1>1, <2>1, <2>3, FrameGrows
    <3> QED
      BY <2>1, <2>2, <2>3, <3>1
  <2>4. CASE name \in ToSet(names)
    <3>1. ToSet(ListOf(old)) = ToSet(names) \cup ToSet(ListOf(free_))
      BY <2>1 DEF FrameMakes
    <3>2. name \in ToSet(ListOf(old))
      BY <2>4, <3>1
    <3>3. ListOf(SBind(old, name)) = ListOf(old)
      BY <2>1, <3>2, SBindList
    <3>4. FrameMakes(names, ListOf(free_), SBind(old, name))
      BY <2>1, <3>3 DEF FrameMakes
    <3> QED
      BY <2>1, <2>2, <2>4, <3>4
  <2> QED
    BY <2>3, <2>4
<1>12. \A i \in 0 .. n : i \in P
  <2> HIDE DEF P
  <2> QED
    BY <1>5, <1>10, <1>11, UpTo
<1>13. FrameMakes(names, ListOf(kept[n]), filled[m + n])
  BY <1>5, <1>12
<1>14. FrameScope(l) = filled[m + n] /\ FreeNames(NodeAt(l)) = ListOf(kept[n]) /\ NodeAt(l).names = names
  BY <1>4, <1>5, <1>9 DEF FrameScope, filled, all, names
<1>15. m + n \in 0 .. m + n
  BY <1>5
<1> QED
  BY <1>6, <1>13, <1>14, <1>15

(* A name of a lambda is none that it leaves free.                         *)
LEMMA UnbindDrops ==
  ASSUME NEW scope \in Scope, NEW names
  PROVE  /\ ToSet(ListOf(Unbind(scope, names))) = ToSet(ListOf(scope)) \ names
<1> DEFINE n == Len(scope.vars)
           Name(i) == scope.vars[i].name
<1>1. /\ n \in Nat /\ ListOf(scope) \in Seq(Names) /\ Len(ListOf(scope)) = n
      /\ \A i \in 1 .. n : ListOf(scope)[i] = Name(i) /\ Name(i) \in Names
  BY ListTyped DEF Var
<1>2. PICK kept : WalksUnbinding(scope, names, kept)
  BY UnbindWalk
<1>3. /\ kept[0] = NewScope(1)
      /\ \A i \in 1 .. n : kept[i] = IF Name(i) \in names THEN kept[i - 1] ELSE SBind(kept[i - 1], Name(i))
      /\ \A i \in 0 .. n : kept[i] \in Scope
      /\ Unbind(scope, names) = kept[n]
  BY <1>2 DEF WalksUnbinding
<1> HIDE DEF n, Name
<1> DEFINE Some(i) == {Name(j) : j \in 1 .. i}
           P == {i \in 0 .. n : ToSet(ListOf(kept[i])) = Some(i) \ names}
<1>4. 0 \in P
  <2>1. ToSet(ListOf(kept[0])) = {}
    BY <1>3, NewListEmpty DEF ToSet
  <2> QED
    BY <1>1, <2>1
<1>5. ASSUME NEW i \in 1 .. n, i - 1 \in P PROVE i \in P
  <2>1. Some(i) = Some(i - 1) \cup {Name(i)}
    <3>1. 1 .. i = (1 .. i - 1) \cup {i}
      BY <1>1
    <3> QED
      BY <3>1
  <2>2. ToSet(ListOf(kept[i - 1])) = Some(i - 1) \ names
    BY <1>5
  <2>3. kept[i - 1] \in Scope /\ Name(i) \in Names /\ i \in 0 .. n
    BY <1>1, <1>3
  <2>4. ToSet(ListOf(SBind(kept[i - 1], Name(i)))) = ToSet(ListOf(kept[i - 1])) \cup {Name(i)}
    BY <2>3, SBindList
  <2>5. kept[i] = IF Name(i) \in names THEN kept[i - 1] ELSE SBind(kept[i - 1], Name(i))
    BY <1>3
  <2> HIDE DEF Some
  <2> QED
    BY <2>1, <2>2, <2>3, <2>4, <2>5
<1>6. \A i \in 0 .. n : i \in P
  <2> HIDE DEF P
  <2> QED
    BY <1>1, <1>4, <1>5, UpTo
<1>7. ToSet(ListOf(scope)) = Some(n)
  <2>1. DOMAIN ListOf(scope) = 1 .. n
    BY <1>1, LenProperties
  <2> QED
    BY <1>1, <2>1 DEF ToSet
<1>8. ToSet(ListOf(kept[n])) = Some(n) \ names
  BY <1>1, <1>6
<1> QED
  BY <1>3, <1>7, <1>8

LEMMA NamesOrFree ==
  ASSUME prog \in Programs, NEW l \in Nodes, IsLambda(l)
  PROVE  ToSet(NodeAt(l).names) \cap ToSet(FreeNames(NodeAt(l))) = {}
<1> DEFINE node == NodeAt(l)
           free == LFree[node.kids[1]][NewScope(1)]
<1>1. free \in Scope /\ LFree[node][NewScope(1)] = Unbind(free, ToSet(node.names))
  BY LambdaLeaves, NewScopeTyped, NodeTyped DEF IsLambda
<1> HIDE DEF free
<1>2. ToSet(ListOf(Unbind(free, ToSet(node.names)))) = ToSet(ListOf(free)) \ ToSet(node.names)
  BY <1>1, UnbindDrops
<1>3. FreeNames(node) = ListOf(Unbind(free, ToSet(node.names)))
  BY <1>1, FreeNamesAre
<1> QED
  BY <1>2, <1>3

(* Where the frame of a lambda holds a name.                               *)
LEMMA FrameIs ==
  ASSUME prog \in Programs, NEW l \in Nodes, IsLambda(l), NEW name
  PROVE  LET names == NodeAt(l).names
             free  == FreeNames(NodeAt(l))
             slot  == SLookup(FrameScope(l), name)
         IN  /\ name \in ToSet(names) \cup ToSet(free) =>
                  /\ slot # NotFound /\ slot \in DOMAIN FrameSlots(l)
                  /\ Frame(l, name) = FrameSlots(l)[slot]
                  /\ Frame(l, name)[1] \in {"variable", "captured"}
             /\ name \notin ToSet(names) \cup ToSet(free) => slot = NotFound /\ Frame(l, name) = Unbound
             /\ (Distinct(names) /\ name \in ToSet(names)) =>
                  Frame(l, name) = Held("variable", l, Latest(names, name))
             /\ (Distinct(names) /\ name \in ToSet(free) \ ToSet(names)) =>
                  \E i \in 1 .. Len(free) : free[i] = name /\ Frame(l, name) = Held("captured", l, i)
<1> DEFINE names == NodeAt(l).names
           free  == FreeNames(NodeAt(l))
           scope == FrameScope(l)
           slot  == SLookup(scope, name)
           list  == ListOf(scope)
           d     == Latest(list, name)
           m     == Len(names)
<1>1. /\ scope \in Scope /\ GoodScope(scope, 1) /\ names \in Seq(Names) /\ free \in Seq(Names)
      /\ ToSet(list) = ToSet(names) \cup ToSet(free) /\ Len(list) <= m + Len(free)
      /\ Distinct(names) => list = names \o free
  BY FrameFills, InFrameTyped DEF FrameMakes
<1>2. /\ list \in Seq(Names) /\ Len(list) = Len(scope.vars) /\ Len(list) \in Nat
      /\ DOMAIN scope.vars = 1 .. Len(list) /\ m \in Nat /\ Len(free) \in Nat
  BY <1>1, ListTyped, LenProperties
<1>3. FrameSlots(l) = [o \in 1 .. m + Len(free) |->
                         IF o <= m THEN Held("variable", l, o) ELSE Held("captured", l, o - m)]
  BY DEF FrameSlots
<1>4. Frame(l, name) = IF slot = NotFound THEN Unbound ELSE FrameSlots(l)[slot]
  BY DEF Frame
<1> HIDE DEF names, free, scope, list, m
<1>5. ASSUME name \in ToSet(list)
      PROVE  /\ d \in 1 .. Len(list) /\ list[d] = name /\ slot = d /\ slot # NotFound
             /\ d \in 1 .. m + Len(free)
  <2>1. d \in 1 .. Len(list) /\ list[d] = name
    BY <1>2, <1>5, LatestIs
  <2>2. slot = scope.vars[d].off
    BY <1>1, <1>5, SLookupIs DEF list
  <2>3. scope.vars[d].off = 1 + d - 1
    BY <1>1, <1>2, <2>1 DEF GoodScope
  <2>4. slot = d
    BY <2>1, <2>2, <2>3
  <2> QED
    BY <1>1, <1>2, <2>1, <2>4 DEF NotFound
<1>6. ASSUME name \notin ToSet(list) PROVE slot = NotFound
  BY <1>1, <1>6, SLookupIs DEF list
<1>7. ASSUME name \in ToSet(list)
      PROVE  Frame(l, name) = IF d <= m THEN Held("variable", l, d) ELSE Held("captured", l, d - m)
  BY <1>3, <1>4, <1>5, <1>7
<1> HIDE DEF slot
<1>8. ASSUME Distinct(names)
      PROVE  /\ \A j \in 1 .. m : list[j] = names[j]
             /\ \A i \in 1 .. Len(free) : list[m + i] = free[i]
             /\ Len(list) = m + Len(free)
  <2>1. list = names \o free /\ Len(names) = m
    BY <1>1, <1>8 DEF m
  <2>2. /\ Len(list) = m + Len(free)
        /\ \A j \in 1 .. m + Len(free) : list[j] = IF j <= m THEN names[j] ELSE free[j - m]
    BY <1>1, <2>1, ConcatProperties
  <2>3. \A j \in 1 .. m : j \in 1 .. m + Len(free) /\ j <= m
    BY <1>2
  <2>4. \A i \in 1 .. Len(free) : m + i \in 1 .. m + Len(free) /\ ~(m + i <= m) /\ (m + i) - m = i
    BY <1>2
  <2> QED
    BY <2>2, <2>3, <2>4
<1>9. DOMAIN names = 1 .. m /\ DOMAIN free = 1 .. Len(free)
  BY <1>1, LenProperties DEF m
<1>10. ASSUME Distinct(names), name \in ToSet(names)
       PROVE  Frame(l, name) = Held("variable", l, Latest(names, name))
  <2>1. /\ Latest(names, name) \in 1 .. m /\ names[Latest(names, name)] = name
        /\ \A i \in 1 .. m : names[i] = name => i <= Latest(names, name)
    BY <1>1, <1>10, LatestIs DEF m
  <2> DEFINE e == Latest(names, name)
  <2> HIDE DEF e, d
  <2>2. name \in ToSet(list)
    BY <1>1, <1>10
  <2>3. d \in 1 .. Len(list) /\ list[d] = name
    BY <1>5, <2>2
  <2>4. \A i \in 1 .. m : names[i] = name => i = e
    BY <1>9, <1>10, <2>1 DEF Distinct, e
  <2>5. d >= e
    <3>1. \A i \in 1 .. Len(list) : list[i] = name => i <= d
      BY <1>2, <2>2, LatestIs DEF d
    <3>2. e \in 1 .. m /\ e \in 1 .. Len(list) /\ list[e] = name
      BY <1>2, <1>8, <1>10, <2>1 DEF e
    <3> QED
      BY <3>1, <3>2
  <2>6. CASE d <= m
    <3>1. d \in 1 .. m /\ names[d] = name
      BY <1>8, <1>10, <2>3, <2>6
    <3>2. d = e
      BY <2>4, <3>1
    <3> QED
      BY <1>7, <2>2, <2>6, <3>2 DEF e
  <2>7. CASE ~(d <= m)
    <3>1. ToSet(names) \cap ToSet(free) = {}
      BY NamesOrFree DEF names, free
    <3>2. d - m \in 1 .. Len(free) /\ m + (d - m) = d
      BY <1>2, <1>8, <1>10, <2>3, <2>7
    <3>3. free[d - m] = name
      BY <1>8, <1>10, <2>3, <3>2
    <3>4. name \in ToSet(free)
      BY <1>9, <3>2, <3>3 DEF ToSet
    <3> QED
      BY <1>10, <3>1, <3>4
  <2> QED
    BY <2>6, <2>7, <2>3, <1>2
<1>11. ASSUME Distinct(names), name \in ToSet(free) \ ToSet(names)
       PROVE  \E i \in 1 .. Len(free) : free[i] = name /\ Frame(l, name) = Held("captured", l, i)
  <2> HIDE DEF d
  <2>1. name \in ToSet(list)
    BY <1>1, <1>11
  <2>2. d \in 1 .. Len(list) /\ list[d] = name
    BY <1>5, <2>1
  <2>3. CASE d <= m
    <3>1. d \in 1 .. m /\ names[d] = name
      BY <1>8, <1>11, <2>2, <2>3
    <3> QED
      BY <1>9, <1>11, <3>1 DEF ToSet
  <2>4. CASE ~(d <= m)
    <3>1. d - m \in 1 .. Len(free) /\ m + (d - m) = d
      BY <1>2, <1>8, <1>11, <2>2, <2>4
    <3>2. free[d - m] = name
      BY <1>8, <1>11, <2>2, <3>1
    <3> QED
      BY <1>7, <2>1, <2>4, <3>1, <3>2
  <2> QED
    BY <2>3, <2>4
<1>12. ASSUME name \in ToSet(list)
       PROVE  /\ slot # NotFound /\ slot \in DOMAIN FrameSlots(l) /\ Frame(l, name) = FrameSlots(l)[slot]
              /\ Frame(l, name)[1] \in {"variable", "captured"}
  <2>1. Frame(l, name)[1] \in {"variable", "captured"}
    BY <1>7, <1>12 DEF Held
  <2> QED
    BY <1>3, <1>4, <1>5, <1>12, <2>1
<1>13. ASSUME name \notin ToSet(list) PROVE slot = NotFound /\ Frame(l, name) = Unbound
  BY <1>4, <1>6, <1>13
<1> HIDE DEF d
<1> QED
  BY <1>1, <1>10, <1>11, <1>12, <1>13 DEF names, free, slot, scope
-----------------------------------------------------------------------------
(* What lfree() finds, as sets.                                            *)

In(scope) == ToSet(ListOf(scope))

LEMMA LeavesNames ==
  ASSUME NEW node \in Trees, NEW scope \in Scope, NEW below \in Scope
  PROVE  In(LeavesFree(node, scope, below)) =
           IF node.kind \in Skipped THEN In(scope)
           ELSE IF node.kind = "varbl" THEN In(scope) \cup {node.name}
           ELSE IF node.kind \in {"letex", "close"} THEN In(below) \ ToSet(node.names)
           ELSE IF node.kind = "callf" /\ node.name \notin Defined THEN In(below) \cup {node.name}
           ELSE In(below)
<1>1. node.kind \in {"varbl", "callf"} => node.name \in Names
  BY TreeTyped
<1>2. CASE node.kind \in Skipped
  <2>1. LeavesFree(node, scope, below) = scope
    BY <1>2 DEF LeavesFree, Skipped
  <2> QED
    BY <1>2, <2>1
<1>3. CASE node.kind = "varbl"
  <2>1. LeavesFree(node, scope, below) = SBind(scope, node.name)
    BY <1>3 DEF LeavesFree, Skipped
  <2> QED
    BY <1>1, <1>3, <2>1, SBindList DEF In, Skipped
<1>4. CASE node.kind \in {"letex", "close"}
  <2>1. LeavesFree(node, scope, below) = Unbind(below, ToSet(node.names))
    BY <1>4 DEF LeavesFree, Skipped
  <2> QED
    BY <1>4, <2>1, UnbindDrops DEF In, Skipped
<1>5. CASE node.kind = "callf" /\ node.name \notin Defined
  <2>1. LeavesFree(node, scope, below) = SBind(below, node.name)
    BY <1>5 DEF LeavesFree, Skipped
  <2> QED
    BY <1>1, <1>5, <2>1, SBindList DEF In, Skipped
<1>6. CASE /\ node.kind \notin Skipped /\ node.kind # "varbl" /\ node.kind \notin {"letex", "close"}
           /\ ~(node.kind = "callf" /\ node.name \notin Defined)
  <2>1. LeavesFree(node, scope, below) = below
    BY <1>6 DEF LeavesFree
  <2> QED
    BY <1>6, <2>1
<1>7. \/ node.kind \in Skipped \/ node.kind = "varbl" \/ node.kind \in {"letex", "close"}
      \/ node.kind = "callf" /\ node.name \notin Defined
      \/ /\ node.kind \notin Skipped /\ node.kind # "varbl" /\ node.kind \notin {"letex", "close"}
         /\ ~(node.kind = "callf" /\ node.name \notin Defined)
  OBVIOUS
<1> QED
  BY <1>2, <1>3, <1>4, <1>5, <1>6, <1>7, Zenon

(* What holds of a tree when it holds of its kids holds of all trees.      *)
LEMMA TreesUp ==
  ASSUME NEW P, \A node \in Trees : (\A k \in DOMAIN node.kids : node.kids[k] \in P) => node \in P
  PROVE  Trees \subseteq P
<1> DEFINE Good == {h \in 0 .. Len(Levels) : UpToHeight(h) \subseteq P}
<1>1. 0 \in Good
  BY Heights
<1>2. ASSUME NEW h \in 1 .. Len(Levels), h - 1 \in Good PROVE h \in Good
  <2>1. ASSUME NEW node \in UpToHeight(h) PROVE node \in P
    <3>1. node \in Trees /\ \A k \in DOMAIN node.kids : node.kids[k] \in UpToHeight(h - 1)
      BY Heights
    <3>2. UpToHeight(h - 1) \subseteq P
      BY <1>2
    <3> QED
      BY <3>1, <3>2
  <2> QED
    BY <2>1
<1>3. \A h \in 0 .. Len(Levels) : h \in Good
  <2> HIDE DEF Good
  <2> QED
    BY <1>1, <1>2, UpTo, Heights
<1> QED
  BY <1>3, Heights

LEMMA NodesUp ==
  ASSUME prog \in Programs, NEW P,
         \A p \in Nodes : (\A k \in DOMAIN NodeAt(p).kids : Append(p, k) \in P) => p \in P
  PROVE  Nodes \subseteq P
<1> DEFINE Q == {t \in Trees : \A p \in Nodes : NodeAt(p) = t => p \in P}
<1>1. ASSUME NEW t \in Trees, \A k \in DOMAIN t.kids : t.kids[k] \in Q PROVE t \in Q
  <2> SUFFICES ASSUME NEW p \in Nodes, NodeAt(p) = t PROVE p \in P
    OBVIOUS
  <2>1. ASSUME NEW k \in DOMAIN NodeAt(p).kids PROVE Append(p, k) \in P
    <3>1. Append(p, k) \in Nodes /\ NodeAt(Append(p, k)) = t.kids[k]
      BY KidIsNode
    <3>2. t.kids[k] \in Q
      BY <1>1
    <3> QED
      BY <3>1, <3>2
  <2> QED
    BY <2>1
<1>2. Trees \subseteq Q
  <2> HIDE DEF Q
  <2> QED
    BY <1>1, TreesUp
<1> QED
  BY <1>2, NodeTyped

(* The scope after each of the kids of a node.                             *)
LEMMA KidsWalk ==
  ASSUME NEW node \in Trees, NEW scope \in Scope
  PROVE  \E walk : /\ WalksThrough(LFree, node.kids, scope, walk)
                   /\ \A k \in 0 .. Len(node.kids) : walk[k] \in Scope
                   /\ LFree[node][scope] = LeavesFree(node, scope, walk[Len(node.kids)])
                   /\ Len(node.kids) \in Nat /\ DOMAIN node.kids = 1 .. Len(node.kids)
<1>1. node.kids \in Seq(Trees)
  BY TreeTyped
<1>2. Len(node.kids) \in Nat /\ DOMAIN node.kids = 1 .. Len(node.kids)
      /\ \A k \in 1 .. Len(node.kids) : node.kids[k] \in Trees
  BY <1>1, LenProperties, ElementOfSeq
<1>3. \A k \in 1 .. Len(node.kids) : LFree[node.kids[k]] \in [Scope -> Scope]
  BY <1>2, LFreeTyped
<1>4. PICK walk : WalksThrough(LFree, node.kids, scope, walk)
  BY <1>1, <1>3, ThroughWalk
<1>5. LFree[node][scope] = LeavesFree(node, scope, Through(LFree, node.kids, scope))
  BY LFreeTyped DEF LFreeAt
<1>6. Through(LFree, node.kids, scope) = walk[Len(node.kids)] /\ \A k \in 0 .. Len(node.kids) : walk[k] \in Scope
  BY <1>4 DEF WalksThrough
<1> QED
  BY <1>2, <1>4, <1>5, <1>6

(* The names that a program has: no label of the generator is one of them. *)
Visible == Names \ {Temporary}

LEMMA VisibleStay ==
  ASSUME NEW node \in Trees, NEW scope \in Scope, In(scope) \subseteq Visible
  PROVE  In(LFree[node][scope]) \subseteq Visible
<1> DEFINE P == {t \in Trees : \A s \in Scope : In(s) \subseteq Visible => In(LFree[t][s]) \subseteq Visible}
<1>1. ASSUME NEW t \in Trees, \A k \in DOMAIN t.kids : t.kids[k] \in P PROVE t \in P
  <2> SUFFICES ASSUME NEW s \in Scope, In(s) \subseteq Visible PROVE In(LFree[t][s]) \subseteq Visible
    OBVIOUS
  <2>1. PICK walk : /\ WalksThrough(LFree, t.kids, s, walk)
                    /\ \A k \in 0 .. Len(t.kids) : walk[k] \in Scope
                    /\ LFree[t][s] = LeavesFree(t, s, walk[Len(t.kids)])
                    /\ Len(t.kids) \in Nat /\ DOMAIN t.kids = 1 .. Len(t.kids)
    BY KidsWalk
  <2> DEFINE R == {k \in 0 .. Len(t.kids) : In(walk[k]) \subseteq Visible}
  <2>2. 0 \in R
    BY <2>1 DEF WalksThrough
  <2>3. ASSUME NEW k \in 1 .. Len(t.kids), k - 1 \in R PROVE k \in R
    <3>1. t.kids[k] \in P /\ walk[k - 1] \in Scope /\ In(walk[k - 1]) \subseteq Visible
      BY <1>1, <2>1, <2>3
    <3>2. walk[k] = LFree[t.kids[k]][walk[k - 1]]
      BY <2>1 DEF WalksThrough
    <3> QED
      BY <2>1, <3>1, <3>2
  <2>4. \A k \in 0 .. Len(t.kids) : k \in R
    <3> HIDE DEF R
    <3> QED
      BY <2>1, <2>2, <2>3, UpTo
  <2>5. In(walk[Len(t.kids)]) \subseteq Visible /\ walk[Len(t.kids)] \in Scope
    BY <2>1, <2>4
  <2>6. t.kind \in {"varbl", "callf"} => t.name \in Visible
    BY TreeTyped, ScopingAssumption DEF Visible
  <2> QED
    BY <2>1, <2>5, <2>6, LeavesNames
<1>2. Trees \subseteq P
  <2> HIDE DEF P
  <2> QED
    BY <1>1, TreesUp
<1> QED
  BY <1>2

LEMMA FreeVisible ==
  ASSUME NEW node \in Trees
  PROVE  /\ FreeNames(node) \in Seq(Visible) /\ ToSet(FreeNames(node)) = In(LFree[node][NewScope(1)])
         /\ ToSet(FreeNames(node)) \subseteq Visible
<1>1. In(NewScope(1)) = {}
  BY NewListEmpty DEF In, ToSet
<1>2. In(LFree[node][NewScope(1)]) \subseteq Visible
  BY <1>1, VisibleStay, NewScopeTyped
<1>3. ToSet(FreeNames(node)) = In(LFree[node][NewScope(1)])
  BY FreeNamesAre DEF In
<1>4. FreeNames(node) \in Seq(Names)
  BY FreeNamesTyped
<1> DEFINE list == FreeNames(node)
<1> HIDE DEF list
<1>5. list \in Seq(Names) /\ ToSet(list) \subseteq Visible
  BY <1>2, <1>3, <1>4 DEF list
<1>6. list \in [1 .. Len(list) -> Visible] /\ Len(list) \in Nat
  <2>1. DOMAIN list = 1 .. Len(list) /\ Len(list) \in Nat
    BY <1>5, LenProperties
  <2>2. \A i \in 1 .. Len(list) : list[i] \in Visible
    BY <1>5, <2>1 DEF ToSet
  <2>3. list = [i \in 1 .. Len(list) |-> list[i]]
    BY <1>5, <2>1
  <2> QED
    BY <2>1, <2>2, <2>3
<1>7. list \in Seq(Visible)
  BY <1>6
<1> QED
  BY <1>3, <1>5, <1>7 DEF list

(* What lfree() finds in a scope it finds in one that has more.            *)
LEMMA FoundAnywhere ==
  ASSUME NEW node \in Trees, NEW name, name \in In(LFree[node][NewScope(1)]), NEW scope \in Scope
  PROVE  name \in In(LFree[node][scope])
<1> DEFINE P == {t \in Trees : \A r, s \in Scope :
                   ((name \in In(r) => name \in In(s)) /\ name \in In(LFree[t][r]))
                     => name \in In(LFree[t][s])}
<1>1. ASSUME NEW t \in Trees, \A k \in DOMAIN t.kids : t.kids[k] \in P PROVE t \in P
  <2> SUFFICES ASSUME NEW r \in Scope, NEW s \in Scope, name \in In(r) => name \in In(s),
                      name \in In(LFree[t][r])
               PROVE  name \in In(LFree[t][s])
    OBVIOUS
  <2>1. PICK v : /\ WalksThrough(LFree, t.kids, r, v)
                 /\ \A k \in 0 .. Len(t.kids) : v[k] \in Scope
                 /\ LFree[t][r] = LeavesFree(t, r, v[Len(t.kids)])
                 /\ Len(t.kids) \in Nat /\ DOMAIN t.kids = 1 .. Len(t.kids)
    BY KidsWalk
  <2>2. PICK w : /\ WalksThrough(LFree, t.kids, s, w)
                 /\ \A k \in 0 .. Len(t.kids) : w[k] \in Scope
                 /\ LFree[t][s] = LeavesFree(t, s, w[Len(t.kids)])
    BY KidsWalk
  <2> DEFINE R == {k \in 0 .. Len(t.kids) : name \in In(v[k]) => name \in In(w[k])}
  <2>3. 0 \in R
    BY <2>1, <2>2 DEF WalksThrough
  <2>4. ASSUME NEW k \in 1 .. Len(t.kids), k - 1 \in R PROVE k \in R
    <3>1. t.kids[k] \in P /\ v[k - 1] \in Scope /\ w[k - 1] \in Scope /\ k \in 0 .. Len(t.kids)
      BY <1>1, <2>1, <2>2, <2>4
    <3>2. v[k] = LFree[t.kids[k]][v[k - 1]] /\ w[k] = LFree[t.kids[k]][w[k - 1]]
      BY <2>1, <2>2 DEF WalksThrough
    <3>3. name \in In(v[k - 1]) => name \in In(w[k - 1])
      BY <2>4
    <3> QED
      BY <3>1, <3>2, <3>3
  <2>5. \A k \in 0 .. Len(t.kids) : k \in R
    <3> HIDE DEF R
    <3> QED
      BY <2>1, <2>3, <2>4, UpTo
  <2>6. /\ name \in In(v[Len(t.kids)]) => name \in In(w[Len(t.kids)])
        /\ v[Len(t.kids)] \in Scope /\ w[Len(t.kids)] \in Scope
    BY <2>1, <2>2, <2>5
  <2> QED
    BY <2>1, <2>2, <2>6, LeavesNames
<1>2. Trees \subseteq P
  <2> HIDE DEF P
  <2> QED
    BY <1>1, TreesUp
<1>3. name \notin In(NewScope(1))
  BY NewListEmpty DEF In, ToSet
<1> QED
  BY <1>2, <1>3, NewScopeTyped
-----------------------------------------------------------------------------
(* What one reference below a lambda needs for lfree() to find its name.   *)

LEMMA BelowKid ==
  ASSUME prog \in Programs, NEW p \in Nodes, NEW k \in DOMAIN NodeAt(p).kids
  PROVE  Append(p, k) \in Below(p) /\ Below(Append(p, k)) \subseteq Below(p)
<1>1. Append(p, k) \in Nodes /\ p \in Above(Append(p, k))
  BY KidIsNode, AboveKid, NodeTyped
<1>2. ASSUME NEW q \in Below(Append(p, k)) PROVE q \in Below(p)
  BY <1>1, AboveLine DEF Below
<1> QED
  BY <1>1, <1>2 DEF Below

LEMMA BelowBelow ==
  ASSUME prog \in Programs, NEW p \in Nodes, NEW q \in Below(p)
  PROVE  Below(q) \subseteq Below(p) /\ q \in Nodes
<1>1. ASSUME NEW r \in Below(q) PROVE r \in Below(p)
  BY AboveLine DEF Below
<1> QED
  BY <1>1 DEF Below

BindsName(q, name) == NodeAt(q).kind \in {"letex", "close"} /\ name \in ToSet(NodeAt(q).names)

LEMMA NameKept ==
  ASSUME prog \in Programs, NEW name, NEW p \in Nodes, NEW scope \in Scope, name \in In(scope),
         \A q \in Below(p) \cup {p} : ~BindsName(q, name)
  PROVE  name \in In(LFree[NodeAt(p)][scope])
<1> DEFINE P == {o \in Nodes : (\A q \in Below(o) \cup {o} : ~BindsName(q, name)) =>
                   \A s \in Scope : name \in In(s) => name \in In(LFree[NodeAt(o)][s])}
<1>1. ASSUME NEW o \in Nodes, \A k \in DOMAIN NodeAt(o).kids : Append(o, k) \in P PROVE o \in P
  <2> SUFFICES ASSUME \A q \in Below(o) \cup {o} : ~BindsName(q, name), NEW s \in Scope, name \in In(s)
               PROVE  name \in In(LFree[NodeAt(o)][s])
    OBVIOUS
  <2> DEFINE t == NodeAt(o)
             n == Len(t.kids)
  <2>1. t \in Trees
    BY NodeTyped
  <2>2. PICK walk : /\ WalksThrough(LFree, t.kids, s, walk)
                    /\ \A k \in 0 .. n : walk[k] \in Scope
                    /\ LFree[t][s] = LeavesFree(t, s, walk[n])
                    /\ n \in Nat /\ DOMAIN t.kids = 1 .. n
    BY <2>1, KidsWalk
  <2>3. walk[0] = s /\ \A k \in 1 .. n : walk[k] = LFree[t.kids[k]][walk[k - 1]]
    BY <2>2 DEF WalksThrough
  <2> DEFINE R == {k \in 0 .. n : name \in In(walk[k])}
  <2>4. 0 \in R
    BY <2>2, <2>3
  <2>5. ASSUME NEW k \in 1 .. n, k - 1 \in R PROVE k \in R
    <3>1. Append(o, k) \in P /\ NodeAt(Append(o, k)) = t.kids[k]
      BY <1>1, <2>2, KidIsNode
    <3>2. \A q \in Below(Append(o, k)) \cup {Append(o, k)} : ~BindsName(q, name)
      BY <2>2, BelowKid
    <3>3. name \in In(walk[k - 1]) /\ walk[k - 1] \in Scope
      BY <2>2, <2>5
    <3>4. name \in In(LFree[t.kids[k]][walk[k - 1]])
      BY <3>1, <3>2, <3>3
    <3> QED
      BY <2>3, <3>4
  <2>6. \A k \in 0 .. n : k \in R
    <3> HIDE DEF R
    <3> QED
      BY <2>2, <2>4, <2>5, UpTo
  <2>7. name \in In(walk[n]) /\ walk[n] \in Scope
    BY <2>2, <2>6
  <2>8. t.kind \in {"letex", "close"} => name \notin ToSet(t.names)
    BY DEF BindsName
  <2> HIDE DEF t, n
  <2>9. name \in In(LFree[t][s])
    BY <2>1, <2>2, <2>7, <2>8, LeavesNames
  <2> QED
    BY <2>9 DEF t
<1>2. Nodes \subseteq P
  <2> HIDE DEF P
  <2> QED
    BY <1>1, NodesUp
<1> QED
  BY <1>2

(* In any scope that a walk comes with, it leaves with the name.           *)
Sets(name, p) == \A scope \in Scope : name \in In(LFree[NodeAt(p)][scope])

LEMMA SetsUp ==
  ASSUME prog \in Programs, NEW name, NEW p \in Nodes, NEW k \in DOMAIN NodeAt(p).kids,
         Sets(name, Append(p, k)), NodeAt(p).kind \notin Skipped,
         \A q \in Below(p) \cup {p} : ~BindsName(q, name)
  PROVE  Sets(name, p)
<1> SUFFICES ASSUME NEW s \in Scope PROVE name \in In(LFree[NodeAt(p)][s])
  BY DEF Sets
<1> DEFINE t == NodeAt(p)
           n == Len(t.kids)
<1>1. t \in Trees
  BY NodeTyped
<1>2. PICK walk : /\ WalksThrough(LFree, t.kids, s, walk)
                  /\ \A j \in 0 .. n : walk[j] \in Scope
                  /\ LFree[t][s] = LeavesFree(t, s, walk[n])
                  /\ n \in Nat /\ DOMAIN t.kids = 1 .. n
  BY <1>1, KidsWalk
<1>3. walk[0] = s /\ \A j \in 1 .. n : walk[j] = LFree[t.kids[j]][walk[j - 1]]
  BY <1>2 DEF WalksThrough
<1> DEFINE R == {j \in 0 .. n : j < k \/ name \in In(walk[j])}
<1>4. k \in 1 .. n
  BY <1>2
<1>5. 0 \in R
  BY <1>2, <1>4
<1>6. ASSUME NEW j \in 1 .. n, j - 1 \in R PROVE j \in R
  <2>1. Append(p, j) \in Nodes /\ NodeAt(Append(p, j)) = t.kids[j]
    BY <1>2, KidIsNode
  <2>2. \A q \in Below(Append(p, j)) \cup {Append(p, j)} : ~BindsName(q, name)
    BY <1>2, BelowKid
  <2>3. walk[j - 1] \in Scope /\ j \in 0 .. n /\ walk[j] = LFree[t.kids[j]][walk[j - 1]]
    BY <1>2, <1>3
  <2>4. CASE j < k
    BY <2>3, <2>4
  <2>5. CASE j = k
    <3>1. name \in In(LFree[t.kids[j]][walk[j - 1]])
      BY <2>1, <2>3, <2>5 DEF Sets
    <3> QED
      BY <2>3, <3>1
  <2>6. CASE j > k
    <3>1. name \in In(walk[j - 1])
      BY <1>4, <1>6, <2>6
    <3>2. name \in In(LFree[NodeAt(Append(p, j))][walk[j - 1]])
      BY <2>1, <2>2, <2>3, <3>1, NameKept
    <3> QED
      BY <2>1, <2>3, <3>2
  <2> QED
    BY <1>4, <2>4, <2>5, <2>6
<1>7. \A j \in 0 .. n : j \in R
  <2> HIDE DEF R
  <2> QED
    BY <1>2, <1>5, <1>6, UpTo
<1>8. name \in In(walk[n]) /\ walk[n] \in Scope
  BY <1>2, <1>4, <1>7
<1>9. t.kind \in {"letex", "close"} => name \notin ToSet(t.names)
  BY DEF BindsName
<1>10. t.kind \notin Skipped /\ t.kind # "varbl"
  <2>1. t.kind # "varbl"
    <3>1. t.kind = "varbl" => n = 0
      <4>1. WellFormed(t)
        BY <1>1, TreeTyped
      <4> HIDE DEF t
      <4> QED
        BY <4>1 DEF WellFormed
    <3> HIDE DEF t, n
    <3> QED
      BY <1>2, <1>4, <3>1
  <2> QED
    BY <2>1
<1> HIDE DEF t, n
<1>11. name \in In(LFree[t][s])
  BY <1>1, <1>2, <1>8, <1>9, <1>10, LeavesNames
<1> QED
  BY <1>11 DEF t

(* From a reference up to a lambda, if lfree() looks into all on the way.  *)
LEMMA Presence ==
  ASSUME prog \in Programs, NEW name, NEW u \in Nodes, NEW r \in Below(u), Sets(name, r),
         NodeAt(u).kind \notin Skipped,
         \A q \in Above(r) \cap Below(u) : NodeAt(q).kind \notin Skipped,
         \A q \in Below(u) \cup {u} : ~BindsName(q, name)
  PROVE  Sets(name, u)
<1> DEFINE P == {o \in Nodes : (/\ o \in Below(u) /\ Sets(name, o)
                               /\ \A q \in Above(o) \cap Below(u) : NodeAt(q).kind \notin Skipped)
                              => Sets(name, u)}
<1>1. \A i \in DOMAIN prog : <<i>> \in P
  BY ItemIsNode, AboveItem DEF Below
<1>2. ASSUME NEW o \in Nodes, o \in P, NEW k \in DOMAIN NodeAt(o).kids PROVE Append(o, k) \in P
  <2> DEFINE long == Append(o, k)
  <2>1. long \in Nodes /\ Above(long) = Above(o) \cup {o}
    BY KidIsNode, AboveKid, NodeTyped
  <2> SUFFICES ASSUME long \in Below(u), Sets(name, long),
                      \A q \in Above(long) \cap Below(u) : NodeAt(q).kind \notin Skipped
               PROVE  Sets(name, u)
    BY <2>1
  <2>2. u \in Above(o) \cup {o}
    BY <2>1 DEF Below
  <2>3. CASE u = o
    BY <2>3, SetsUp
  <2>4. CASE u # o
    <3>1. o \in Below(u)
      BY <2>2, <2>4 DEF Below
    <3>2. NodeAt(o).kind \notin Skipped /\ \A q \in Above(o) \cap Below(u) : NodeAt(q).kind \notin Skipped
      BY <2>1, <3>1
    <3>3. \A q \in Below(o) \cup {o} : ~BindsName(q, name)
      BY <3>1, BelowBelow
    <3>4. Sets(name, o)
      BY <3>2, <3>3, SetsUp
    <3> QED
      BY <1>2, <3>1, <3>2, <3>4
  <2> QED
    BY <2>3, <2>4
<1> HIDE DEF P
<1>3. Nodes \subseteq P
  BY <1>1, <1>2, NodesFromTop
<1>4. r \in Nodes /\ r \in P
  BY <1>3, BelowBelow
<1> QED
  BY <1>4 DEF P
-----------------------------------------------------------------------------
(* Where a name is at hand at a node: the variables of its unit, and for a *)
(* lambda its frame.                                                       *)

Nearest(p, name) == {n \in Binders(p, name) : InLambda(p) => n > Depth(p)}
Local(p, name) ==
  IF Nearest(p, name) # {} THEN Innermost(p, name)
  ELSE IF InLambda(p) THEN Frame(UnitOf(p), name) ELSE Unbound

View(p) == [name \in Visible |-> Local(p, name)]
Nowhere == [name \in Visible |-> Unbound]

(* A view in which the first i of some names have been bound.              *)
Binding(at, names, i, view) ==
  [name \in Visible |->
     IF name \in ToSet(SubSeq(names, 1, i))
     THEN Held("variable", at, Latest(SubSeq(names, 1, i), name)) ELSE view[name]]

LEMMA OneMore ==
  ASSUME NEW S, NEW names \in Seq(S), NEW i \in 1 .. Len(names)
  PROVE  /\ SubSeq(names, 1, i) = Append(SubSeq(names, 1, i - 1), names[i])
         /\ SubSeq(names, 1, i - 1) \in Seq(S) /\ Len(SubSeq(names, 1, i - 1)) = i - 1
         /\ SubSeq(names, 1, i) \in Seq(S) /\ Len(SubSeq(names, 1, i)) = i
         /\ \A j \in 1 .. i : SubSeq(names, 1, i)[j] = names[j]
         /\ \A j \in 1 .. i - 1 : SubSeq(names, 1, i - 1)[j] = names[j]
         /\ ToSet(SubSeq(names, 1, i)) = ToSet(SubSeq(names, 1, i - 1)) \cup {names[i]}
<1> DEFINE s == SubSeq(names, 1, i - 1)
           t == SubSeq(names, 1, i)
<1>1. \A j \in 1 .. Len(names) : names[j] \in S
  BY ElementOfSeq
<1>2. s \in Seq(S) /\ Len(s) = i - 1 /\ \A j \in 1 .. i - 1 : s[j] = names[j]
  BY <1>1, SubSeqProperties
<1>3. t \in Seq(S) /\ Len(t) = i /\ \A j \in 1 .. i : t[j] = names[j]
  BY <1>1, SubSeqProperties
<1> HIDE DEF s, t
<1>4. /\ Append(s, names[i]) \in Seq(S) /\ Len(Append(s, names[i])) = i
      /\ \A j \in 1 .. i : Append(s, names[i])[j] = names[j]
  BY <1>1, <1>2
<1>5. t = Append(s, names[i])
  BY <1>3, <1>4, SeqEqual
<1>6. ToSet(Append(s, names[i])) = ToSet(s) \cup {names[i]}
  BY <1>2, ListInSet
<1> QED
  BY <1>2, <1>3, <1>5, <1>6 DEF s, t

LEMMA LatestOneMore ==
  ASSUME NEW S, NEW names \in Seq(S), NEW i \in 1 .. Len(names), NEW name,
         name \in ToSet(SubSeq(names, 1, i))
  PROVE  Latest(SubSeq(names, 1, i), name) =
           IF name = names[i] THEN i ELSE Latest(SubSeq(names, 1, i - 1), name)
<1> DEFINE s == SubSeq(names, 1, i - 1)
           t == SubSeq(names, 1, i)
           a == Latest(s, name)
           b == Latest(t, name)
<1>1. /\ s \in Seq(S) /\ Len(s) = i - 1 /\ t \in Seq(S) /\ Len(t) = i
      /\ \A j \in 1 .. i : t[j] = names[j]
      /\ \A j \in 1 .. i - 1 : s[j] = names[j]
      /\ ToSet(t) = ToSet(s) \cup {names[i]}
  BY OneMore
<1> HIDE DEF s, t
<1>2. b \in 1 .. i /\ t[b] = name /\ \A j \in 1 .. i : t[j] = name => j <= b
  BY <1>1, LatestIs DEF t
<1> HIDE DEF b
<1>3. CASE name = names[i]
  BY <1>1, <1>2, <1>3 DEF b, t
<1>4. CASE name # names[i]
  <2>1. name \in ToSet(s)
    BY <1>1, <1>4 DEF t
  <2>2. a \in 1 .. i - 1 /\ s[a] = name /\ \A j \in 1 .. i - 1 : s[j] = name => j <= a
    BY <1>1, <2>1, LatestIs
  <2> HIDE DEF a
  <2>3. a <= b /\ b <= a
    BY <1>1, <1>2, <1>4, <2>2
  <2>4. a = b
    BY <1>2, <2>2, <2>3
  <2> QED
    BY <1>4, <2>4 DEF a, b, s, t
<1> QED
  BY <1>3, <1>4

LEMMA BindingStarts ==
  ASSUME NEW at, NEW names, NEW view, view = [name \in Visible |-> view[name]]
  PROVE  Binding(at, names, 0, view) = view
<1>1. SubSeq(names, 1, 0) = <<>>
  OBVIOUS
<1>2. ToSet(<<>>) = {}
  BY DEF ToSet
<1>3. Binding(at, names, 0, view) = [name \in Visible |-> view[name]]
  BY <1>1, <1>2 DEF Binding
<1> QED
  BY <1>3

LEMMA BindingGrows ==
  ASSUME NEW at, NEW names \in Seq(Names), NEW view, NEW i \in 1 .. Len(names)
  PROVE  Binding(at, names, i, view) =
           [Binding(at, names, i - 1, view) EXCEPT ![names[i]] = Held("variable", at, i)]
<1> DEFINE s == SubSeq(names, 1, i - 1)
           t == SubSeq(names, 1, i)
           old == Binding(at, names, i - 1, view)
           new == Binding(at, names, i, view)
<1>1. ToSet(t) = ToSet(s) \cup {names[i]}
  BY OneMore
<1>2. \A name \in Visible : old[name] = IF name \in ToSet(s) THEN Held("variable", at, Latest(s, name)) ELSE view[name]
  BY DEF Binding
<1>3. \A name \in Visible : new[name] = IF name \in ToSet(t) THEN Held("variable", at, Latest(t, name)) ELSE view[name]
  BY DEF Binding
<1>4. \A name \in ToSet(t) : Latest(t, name) = IF name = names[i] THEN i ELSE Latest(s, name)
  BY LatestOneMore
<1>5. DOMAIN old = Visible /\ DOMAIN new = Visible /\ old = [name \in Visible |-> old[name]]
      /\ new = [name \in Visible |-> new[name]]
  BY DEF Binding
<1> HIDE DEF s, t, old, new
<1>6. \A name \in Visible : new[name] = IF name = names[i] THEN Held("variable", at, i) ELSE old[name]
  BY <1>1, <1>2, <1>3, <1>4
<1>7. new = [old EXCEPT ![names[i]] = Held("variable", at, i)]
  BY <1>5, <1>6
<1> QED
  BY <1>7 DEF new, old

LEMMA ViewOfLambda ==
  ASSUME prog \in Programs, NEW p \in Nodes, IsLambda(p), NEW k \in DOMAIN NodeAt(p).kids, NEW name
  PROVE  Local(Append(p, k), name) = Frame(p, name)
<1> DEFINE long == Append(p, k)
<1>1. UnitOf(long) = p /\ Depth(long) = Len(p) /\ InLambda(long) /\ Len(p) \in Nat
  BY UnitOfKid, NodeTyped
<1>2. \A n \in Binders(long, name) : n <= Len(p)
  <2>1. \A n \in Binders(p, name) : n \in 0 .. Len(p) - 1
    BY BindersOfKid
  <2>2. \A n \in Binders(long, name) : n \in Binders(p, name) \/ n = Len(p)
    BY BindersOfKid
  <2> HIDE DEF long
  <2> QED
    BY <1>1, <2>1, <2>2
<1>3. \A n \in Binders(long, name) : n \in Int
  BY DEF Binders
<1> HIDE DEF long
<1>4. Nearest(long, name) = {}
  BY <1>1, <1>2, <1>3 DEF Nearest
<1> QED
  BY <1>1, <1>4 DEF Local, long

LEMMA ViewOfOther ==
  ASSUME prog \in Programs, NEW p \in Nodes, ~IsLambda(p), NEW k \in DOMAIN NodeAt(p).kids, NEW name
  PROVE  Local(Append(p, k), name) =
           IF name \in ToSet(BoundBy(Append(p, k), Len(p)))
           THEN Held("variable", p, Latest(BoundBy(Append(p, k), Len(p)), name)) ELSE Local(p, name)
<1> DEFINE long == Append(p, k)
           names == BoundBy(long, Len(p))
<1>1. /\ UnitOf(long) = UnitOf(p) /\ Depth(long) = Depth(p) /\ InLambda(long) = InLambda(p)
      /\ Len(p) \in Nat \ {0} /\ Depth(p) \in 0 .. Len(p) - 1 /\ long \in Nodes
  BY UnitOfKid, UnitTyped, NodeTyped, KidIsNode
<1>2. /\ Binders(long, name) = Binders(p, name) \cup (IF name \in ToSet(names) THEN {Len(p)} ELSE {})
      /\ \A n \in Binders(p, name) : n \in 0 .. Len(p) - 1
      /\ \A n \in 0 .. Len(p) - 1 : BoundBy(long, n) = BoundBy(p, n) /\ Owner(long, n) = Owner(p, n)
      /\ Owner(long, Len(p)) = p
  BY BindersOfKid
<1> HIDE DEF long
<1>3. CASE name \in ToSet(names)
  <2>1. Len(p) \in Binders(long, name) /\ \A m \in Binders(long, name) : m <= Len(p)
    BY <1>1, <1>2, <1>3
  <2>2. Len(p) \in Nearest(long, name)
    BY <1>1, <2>1 DEF Nearest
  <2>3. Innermost(long, name) = Held("variable", Owner(long, Len(p)), Latest(BoundBy(long, Len(p)), name))
    BY <2>1, InnermostIs
  <2> QED
    BY <1>2, <1>3, <2>2, <2>3 DEF Local, long
<1>4. CASE name \notin ToSet(names)
  <2>1. Binders(long, name) = Binders(p, name)
    BY <1>2, <1>4
  <2>2. Nearest(long, name) = Nearest(p, name)
    BY <1>1, <2>1 DEF Nearest
  <2>3. ASSUME Nearest(p, name) # {} PROVE Innermost(long, name) = Innermost(p, name)
    <3>1. PICK n \in Binders(p, name) : \A m \in Binders(p, name) : m <= n
      BY <2>3, GreatestBinder DEF Nearest
    <3>2. Innermost(p, name) = Held("variable", Owner(p, n), Latest(BoundBy(p, n), name))
      BY <3>1, InnermostIs
    <3>3. Innermost(long, name) = Held("variable", Owner(long, n), Latest(BoundBy(long, n), name))
      BY <2>1, <3>1, InnermostIs
    <3> QED
      BY <1>2, <3>1, <3>2, <3>3
  <2> QED
    BY <1>1, <1>4, <2>2, <2>3 DEF Local, long
<1> QED
  BY <1>3, <1>4

(* The views of items and of kids.                                         *)
LEMMA ViewOfItem ==
  ASSUME prog \in Programs, NEW i \in DOMAIN prog
  PROVE  /\ prog[i].kind = "deffn" =>
              View(<<i>>) = Binding(<<i, 0>>, prog[i].params, Len(prog[i].params), Nowhere)
         /\ prog[i].kind # "deffn" => View(<<i>>) = Nowhere
<1> DEFINE params == IF prog[i].kind = "deffn" THEN prog[i].params ELSE <<>>
<1>1. ~InLambda(<<i>>) /\ Len(<<i>>) = 1 /\ <<i>>[1] = i
  BY UnitOfItem
<1>2. BoundBy(<<i>>, 0) = params
  BY <1>1 DEF BoundBy
<1>3. Owner(<<i>>, 0) = <<i, 0>>
  BY <1>1 DEF Owner
<1>9. 0 .. Len(<<i>>) - 1 = {0}
  BY <1>1
<1> HIDE DEF params
<1>4. ASSUME NEW name PROVE Local(<<i>>, name) = IF name \in ToSet(params) THEN Held("variable", <<i, 0>>, Latest(params, name)) ELSE Unbound
  <2>1. Binders(<<i>>, name) = IF name \in ToSet(params) THEN {0} ELSE {}
    BY <1>2, <1>9 DEF Binders
  <2>2. Nearest(<<i>>, name) = Binders(<<i>>, name)
    BY <1>1 DEF Nearest
  <2>3. CASE name \in ToSet(params)
    <3>1. 0 \in Binders(<<i>>, name) /\ \A m \in Binders(<<i>>, name) : m <= 0
      BY <2>1, <2>3
    <3>2. Innermost(<<i>>, name) = Held("variable", <<i, 0>>, Latest(params, name))
      BY <1>2, <1>3, <3>1, InnermostIs
    <3> QED
      BY <2>2, <2>3, <3>1, <3>2 DEF Local
  <2>4. CASE name \notin ToSet(params)
    BY <1>1, <2>1, <2>2, <2>4 DEF Local
  <2> QED
    BY <2>3, <2>4
<1>5. CASE prog[i].kind = "deffn"
  <2>1. params = prog[i].params
    BY <1>5 DEF params
  <2>2. params \in Seq(Names)
    BY <2>1, ItemTyped
  <2>3. SubSeq(params, 1, Len(params)) = params
    BY <2>2, SubSeqFull
  <2> QED
    BY <1>4, <1>5, <2>1, <2>3 DEF View, Binding, Nowhere
<1>6. CASE prog[i].kind # "deffn"
  <2>1. ToSet(params) = {}
    BY <1>6 DEF params, ToSet
  <2> QED
    BY <1>4, <1>6, <2>1 DEF View, Nowhere
<1> QED
  BY <1>5, <1>6

LEMMA ViewOfKid ==
  ASSUME prog \in Programs, NEW p \in Nodes, NEW k \in DOMAIN NodeAt(p).kids
  PROVE  /\ NodeAt(p).kind = "letex" =>
              View(Append(p, k)) =
                Binding(p, NodeAt(p).names,
                        IF k <= Len(NodeAt(p).names) THEN k ELSE Len(NodeAt(p).names), View(p))
         /\ NodeAt(p).kind = "close" => View(Append(p, k)) = [name \in Visible |-> Frame(p, name)]
         /\ NodeAt(p).kind \notin {"letex", "close"} => View(Append(p, k)) = View(p)
<1>1. CASE NodeAt(p).kind = "letex"
  <2>1. ~IsLambda(p)
    BY <1>1 DEF IsLambda
  <2>2. BoundBy(Append(p, k), Len(p)) =
          SubSeq(NodeAt(p).names, 1, IF k <= Len(NodeAt(p).names) THEN k ELSE Len(NodeAt(p).names))
    BY <1>1, BoundForKid
  <2> QED
    BY <1>1, <2>1, <2>2, ViewOfOther DEF View, Binding
<1>2. CASE NodeAt(p).kind = "close"
  BY <1>2, ViewOfLambda DEF View, IsLambda
<1>3. CASE NodeAt(p).kind \notin {"letex", "close"}
  <2>1. ~IsLambda(p)
    BY <1>3 DEF IsLambda
  <2>2. BoundBy(Append(p, k), Len(p)) = <<>>
    BY <1>3, BoundForKid
  <2>3. ToSet(<<>>) = {}
    BY DEF ToSet
  <2> QED
    BY <1>3, <2>1, <2>2, <2>3, ViewOfOther DEF View
<1> QED
  BY <1>1, <1>2, <1>3
-----------------------------------------------------------------------------
(* The way of a name through the environments of lambdas.                  *)

(* Whoever goes n steps from a holder ends at a given one.                 *)
LeadsTo(holder, end, n) ==
  \A walk : (walk[0] = holder /\ \A k \in 1 .. n : walk[k] = Behind(walk[k - 1])) => walk[n] = end

LEMMA LeadsNowhere ==
  ASSUME NEW holder, holder[1] # "captured", NEW n \in Nat
  PROVE  LeadsTo(holder, holder, n)
<1> SUFFICES ASSUME NEW walk, walk[0] = holder, \A k \in 1 .. n : walk[k] = Behind(walk[k - 1])
             PROVE  walk[n] = holder
  BY DEF LeadsTo
<1> DEFINE P == {k \in 0 .. n : walk[k] = holder}
<1>1. 0 \in P
  OBVIOUS
<1>2. ASSUME NEW k \in 1 .. n, k - 1 \in P PROVE k \in P
  BY <1>2 DEF Behind
<1>3. \A k \in 0 .. n : k \in P
  <2> HIDE DEF P
  <2> QED
    BY <1>1, <1>2, UpTo
<1> QED
  BY <1>3

LEMMA LeadsOn ==
  ASSUME NEW holder, NEW end, NEW n \in Nat \ {0}, LeadsTo(Behind(holder), end, n - 1)
  PROVE  LeadsTo(holder, end, n)
<1> SUFFICES ASSUME NEW walk, walk[0] = holder, \A k \in 1 .. n : walk[k] = Behind(walk[k - 1])
             PROVE  walk[n] = end
  BY DEF LeadsTo
<1> DEFINE v == [k \in 0 .. n - 1 |-> walk[k + 1]]
<1>1. v[0] = Behind(holder)
  <2>1. 1 \in 1 .. n /\ 1 - 1 = 0
    OBVIOUS
  <2>2. walk[1] = Behind(walk[0])
    BY <2>1
  <2> QED
    BY <2>2
<1>2. ASSUME NEW k \in 1 .. n - 1 PROVE v[k] = Behind(v[k - 1])
  <2>1. k + 1 \in 1 .. n /\ (k + 1) - 1 = k /\ (k - 1) + 1 = k /\ k - 1 \in 0 .. n - 1
    OBVIOUS
  <2>2. walk[k + 1] = Behind(walk[k])
    BY <2>1
  <2> QED
    BY <2>1, <2>2
<1>3. v[n - 1] = walk[n]
  OBVIOUS
<1> HIDE DEF v
<1>4. v[n - 1] = end
  BY <1>1, <1>2 DEF LeadsTo
<1> QED
  BY <1>3, <1>4

ResolvedEquation(holder, m, f) ==
  f = [n \in 0 .. m |-> IF n = 0 THEN holder ELSE Behind(f[n - 1])]

LEMMA ResolvedExists == ASSUME NEW holder, NEW m \in Nat PROVE \E f : ResolvedEquation(holder, m, f)
<1> DEFINE Good == {n \in 0 .. m : \E f : ResolvedEquation(holder, n, f)}
<1>1. 0 \in Good
  <2>1. ResolvedEquation(holder, 0, [n \in 0 .. 0 |-> holder])
    BY DEF ResolvedEquation
  <2> QED
    BY <2>1
<1>2. ASSUME NEW n \in 1 .. m, n - 1 \in Good PROVE n \in Good
  <2>1. PICK f : ResolvedEquation(holder, n - 1, f)
    BY <1>2
  <2> DEFINE g == [i \in 0 .. n |-> IF i = n THEN Behind(f[n - 1]) ELSE f[i]]
  <2>2. \A i \in 0 .. n - 1 : g[i] = f[i]
    OBVIOUS
  <2>3. g[n] = Behind(f[n - 1])
    OBVIOUS
  <2>4. g = [i \in 0 .. n |-> g[i]]
    OBVIOUS
  <2> HIDE DEF g
  <2>5. ASSUME NEW i \in 0 .. n PROVE g[i] = IF i = 0 THEN holder ELSE Behind(g[i - 1])
    <3>1. i # 0 => i - 1 \in 0 .. n - 1 /\ g[i - 1] = f[i - 1]
      BY <2>2
    <3>2. CASE i = n
      BY <2>3, <3>1, <3>2
    <3>3. CASE i # n
      <4>1. i \in 0 .. n - 1 /\ g[i] = f[i]
        BY <2>2, <3>3
      <4>2. f[i] = IF i = 0 THEN holder ELSE Behind(f[i - 1])
        BY <2>1, <4>1 DEF ResolvedEquation
      <4> QED
        BY <3>1, <4>1, <4>2
    <3> QED
      BY <3>2, <3>3
  <2>6. ResolvedEquation(holder, n, g)
    BY <2>4, <2>5 DEF ResolvedEquation
  <2> QED
    BY <2>6
<1>3. \A n \in 0 .. m : n \in Good
  <2> HIDE DEF Good
  <2> QED
    BY <1>1, <1>2, UpTo
<1> QED
  BY <1>3

LEMMA ResolvedAt ==
  ASSUME NEW holder, NEW end, Len(holder[2]) \in Nat, LeadsTo(holder, end, Len(holder[2]))
  PROVE  Resolved(holder) = end
<1> DEFINE m == Len(holder[2])
           f == CHOOSE w : ResolvedEquation(holder, m, w)
<1>1. Resolved(holder) = f[m]
  BY DEF Resolved, ResolvedEquation
<1> HIDE DEF m
<1>2. m \in Nat
  BY DEF m
<1>3. ResolvedEquation(holder, m, f)
  BY <1>2, ResolvedExists
<1> HIDE DEF f
<1>4. f[0] = holder /\ \A n \in 1 .. m : f[n] = Behind(f[n - 1])
  BY <1>2, <1>3 DEF ResolvedEquation
<1>5. LeadsTo(holder, end, m)
  BY DEF m
<1> QED
  BY <1>1, <1>4, <1>5 DEF LeadsTo

(* The innermost variable of a name, if there is one.                      *)
Lexical(p, name) == IF Binders(p, name) # {} THEN Innermost(p, name) ELSE Unbound

LEMMA InnermostAbove ==
  ASSUME prog \in Programs, NEW p \in Nodes, NEW u \in Above(p), NEW name,
         \A n \in Binders(p, name) : n < Len(u)
  PROVE  Binders(u, name) = Binders(p, name) /\ Lexical(u, name) = Lexical(p, name)
<1>1. Binders(u, name) = Binders(p, name)
  <2>1. Binders(u, name) = {n \in Binders(p, name) : n < Len(u)}
    BY BindersAbove
  <2> DEFINE B == Binders(p, name)
             l == Len(u)
  <2>2. \A n \in B : n < l
    OBVIOUS
  <2> HIDE DEF B, l
  <2>3. {n \in B : n < l} = B
    BY <2>2
  <2> QED
    BY <2>1, <2>3 DEF B, l
<1>2. ASSUME Binders(p, name) # {} PROVE Innermost(u, name) = Innermost(p, name)
  <2>1. PICK n \in Binders(p, name) : \A m \in Binders(p, name) : m <= n
    BY <1>2, GreatestBinder
  <2>2. Innermost(p, name) = Held("variable", Owner(p, n), Latest(BoundBy(p, n), name))
    BY <2>1, InnermostIs
  <2>3. Innermost(u, name) = Held("variable", Owner(u, n), Latest(BoundBy(u, n), name))
    BY <1>1, <2>1, InnermostIs
  <2>4. n \in 0 .. Len(u) - 1
    BY <1>1, <2>1 DEF Binders
  <2> QED
    BY <2>2, <2>3, <2>4, BoundByAbove
<1> QED
  BY <1>1, <1>2 DEF Lexical

(* What a unit's lambda binds.                                             *)
LEMMA FormalsBind ==
  ASSUME prog \in Programs, NEW p \in Nodes, InLambda(p), NEW name, Nearest(p, name) = {}
  PROVE  LET u == UnitOf(p)
         IN  /\ \A n \in Binders(p, name) : n <= Len(u)
             /\ name \notin ToSet(NodeAt(u).names) => \A n \in Binders(p, name) : n < Len(u)
             /\ name \in ToSet(NodeAt(u).names) =>
                  Lexical(p, name) = Held("variable", u, Latest(NodeAt(u).names, name))
<1> DEFINE u == UnitOf(p)
           n == Len(u)
<1>1. /\ u \in Above(p) /\ IsLambda(u) /\ Depth(p) = n /\ u \in Nodes
      /\ n \in 1 .. Len(p) - 1 /\ SubSeq(p, 1, n) = u /\ n \in Nat /\ Len(p) \in Nat
  BY UnitTyped, AboveIs, NodeTyped
<1> HIDE DEF u
<1>2. BoundBy(p, n) = NodeAt(u).names /\ Owner(p, n) = u
  <2>1. n > 0 /\ n # 0 /\ NodeAt(u).kind = "close"
    BY <1>1 DEF IsLambda
  <2> HIDE DEF n
  <2> QED
    BY <1>1, <2>1 DEF BoundBy, Owner
<1>3. \A m \in Binders(p, name) : m \in 0 .. Len(p) - 1
  BY DEF Binders
<1>4. \A m \in Binders(p, name) : m <= n
  BY <1>1, <1>3 DEF Nearest
<1>5. n \in Binders(p, name) <=> name \in ToSet(NodeAt(u).names)
  <2>1. n \in 0 .. Len(p) - 1
    BY <1>1
  <2> HIDE DEF n
  <2> QED
    BY <1>2, <2>1 DEF Binders
<1>6. name \notin ToSet(NodeAt(u).names) => \A m \in Binders(p, name) : m < n
  <2> HIDE DEF n
  <2> QED
    BY <1>1, <1>3, <1>4, <1>5
<1>7. ASSUME name \in ToSet(NodeAt(u).names)
      PROVE  Lexical(p, name) = Held("variable", u, Latest(NodeAt(u).names, name))
  <2>1. n \in Binders(p, name)
    BY <1>5, <1>7
  <2> HIDE DEF n
  <2>2. Innermost(p, name) = Held("variable", Owner(p, n), Latest(BoundBy(p, n), name))
    BY <1>4, <2>1, InnermostIs
  <2> QED
    BY <1>2, <2>1, <2>2 DEF Lexical
<1> QED
  BY <1>4, <1>6, <1>7 DEF u
-----------------------------------------------------------------------------
(* What is recorded of a program that has been compiled.                   *)

Environment(l) == [i \in DOMAIN FreeNames(NodeAt(l)) |-> Local(l, FreeNames(NodeAt(l))[i])]

Expected(p) ==
  LET name == NodeAt(p).name
      kind == NodeAt(p).kind
  IN  IF kind = "callf" /\ name \in Defined THEN Definition
      ELSE IF Local(p, name) # Unbound THEN Local(p, name)
      ELSE IF kind = "varbl" /\ name \in Defined THEN Definition
      ELSE Global

(* A global is found only where it may be.                                 *)
MayBeGlobal(p) == NodeAt(p).kind # "callf" /\ NodeAt(p).name \in NamesOf("globl") \ Defined

Unskipped(l) == \A q \in Above(l) : NodeAt(q).kind \notin Skipped

(* A word that is read or captured is the one it should be, or, for a name *)
(* that is a label too, a temporary.                                       *)
IsOrTemp(word, expected, name) == word = expected \/ (name \in Labels /\ word = Temp)

Recalls(words, l) ==
  /\ DOMAIN words = DOMAIN FreeNames(NodeAt(l))
  /\ \A i \in DOMAIN words : IsOrTemp(words[i], Environment(l)[i], FreeNames(NodeAt(l))[i])

LambdasRecorded ==
  \A l \in OfKind({"close"}) : Recalls(captured[l], l) /\ Unskipped(l)

NoRepeats == \A l \in OfKind({"close"}) : Distinct(NodeAt(l).names)

(* A name that is free in a lambda is not bound inside of it.              *)
Apart(p, name) ==
  \A l \in Above(p) : (IsLambda(l) /\ \A n \in Binders(p, name) : n < Len(l)) =>
    \A q \in Below(l) : ~BindsName(q, name)

EndsAt(holder, end, name, n) ==
  LeadsTo(holder, end, n) \/ (name \in Labels /\ LeadsTo(holder, Temp, n))

Arrives(p, name) ==
  /\ Local(p, name)[1] = "captured" => Local(p, name)[2] \in Above(p)
  /\ Local(p, name)[1] # "captured" => Local(p, name) = Lexical(p, name)
  /\ \A n \in Nat : (Local(p, name)[1] = "captured" => n >= Len(Local(p, name)[2]))
                      => EndsAt(Local(p, name), Lexical(p, name), name, n)

LEMMA HolderKinds ==
  ASSUME NEW at, NEW i
  PROVE  /\ Held("variable", at, i)[1] # "captured" /\ Held("variable", at, i) # Unbound
         /\ Held("captured", at, i)[1] = "captured" /\ Held("captured", at, i)[2] = at
         /\ Held("captured", at, i)[3] = i /\ Held("captured", at, i) # Unbound
         /\ Unbound[1] # "captured" /\ Definition[1] # "captured" /\ Global[1] # "captured"
         /\ Definition # Unbound /\ Global # Unbound /\ Definition # Global
         /\ Temp[1] # "captured" /\ Temp \notin {Definition, Global, Unbound}
  BY DEF Held, Unbound, Definition, Global, Temp

LEMMA LexicalIs ==
  ASSUME prog \in Programs, NEW p \in Nodes, NEW name
  PROVE  /\ Lexical(p, name)[1] # "captured"
         /\ Binders(p, name) # {} => Lexical(p, name) = Innermost(p, name) /\ Lexical(p, name) # Unbound
         /\ Binders(p, name) = {} => Lexical(p, name) = Unbound
<1>1. ASSUME Binders(p, name) # {} PROVE Innermost(p, name)[1] # "captured" /\ Innermost(p, name) # Unbound
  <2>1. PICK n \in Binders(p, name) : \A m \in Binders(p, name) : m <= n
    BY <1>1, GreatestBinder
  <2>2. Innermost(p, name) = Held("variable", Owner(p, n), Latest(BoundBy(p, n), name))
    BY <2>1, InnermostIs
  <2> QED
    BY <2>2, HolderKinds
<1> QED
  BY <1>1, HolderKinds DEF Lexical

LEMMA SetsFree ==
  ASSUME NEW l, IsLambda(l), NodeAt(l) \in Trees, NEW name
  PROVE  Sets(name, l) <=> name \in ToSet(FreeNames(NodeAt(l)))
<1>1. ToSet(FreeNames(NodeAt(l))) = In(LFree[NodeAt(l)][NewScope(1)])
  BY FreeVisible
<1> QED
  BY <1>1, FoundAnywhere, NewScopeTyped DEF Sets

(* Unless what is at hand stays in the unit, it is a captured word.        *)
LEMMA LocalIs ==
  ASSUME prog \in Programs, NEW p \in Nodes, NEW name
  PROVE  /\ Nearest(p, name) # {} => Local(p, name) = Lexical(p, name) /\ Local(p, name) # Unbound
         /\ (Nearest(p, name) = {} /\ ~InLambda(p)) =>
              Binders(p, name) = {} /\ Local(p, name) = Unbound /\ Lexical(p, name) = Unbound
         /\ (Nearest(p, name) = {} /\ InLambda(p)) => Local(p, name) = Frame(UnitOf(p), name)
<1>1. Nearest(p, name) # {} => Binders(p, name) # {}
  BY DEF Nearest
<1>2. ~InLambda(p) => Nearest(p, name) = Binders(p, name)
  BY DEF Nearest
<1> QED
  BY <1>1, <1>2, LexicalIs DEF Local

LEMMA Chain ==
  ASSUME prog \in Programs, LambdasRecorded, NoRepeats, NEW name, NEW p \in Nodes, Apart(p, name),
         Local(p, name) # Unbound \/ (Sets(name, p) /\ Unskipped(p))
  PROVE  Arrives(p, name)
<1> DEFINE Fine(a) == Apart(a, name) /\ (Local(a, name) # Unbound \/ (Sets(name, a) /\ Unskipped(a)))
           P == {m \in 0 .. Len(p) : \A a \in Nodes : (Len(a) = m /\ Fine(a)) => Arrives(a, name)}
           Q == {m \in 0 .. Len(p) : \A j \in 0 .. m : j \in P}
<1>1. Len(p) \in Nat
  BY NodeTyped
<1>2. ASSUME NEW m \in 0 .. Len(p), \A j \in 0 .. m - 1 : j \in P PROVE m \in P
  <2> SUFFICES ASSUME NEW a \in Nodes, Len(a) = m, Fine(a) PROVE Arrives(a, name)
    OBVIOUS
  <2> DEFINE h == Local(a, name)
             e == Lexical(a, name)
             u == UnitOf(a)
  <2>1. ASSUME h = e PROVE Arrives(a, name)
    <3>1. h[1] # "captured"
      BY <2>1, LexicalIs
    <3>2. \A n \in Nat : LeadsTo(h, e, n)
      BY <2>1, <3>1, LeadsNowhere
    <3> QED
      BY <2>1, <3>1, <3>2 DEF Arrives, EndsAt
  <2>2. CASE Nearest(a, name) # {} \/ ~InLambda(a)
    BY <2>1, <2>2, LocalIs
  <2>3. CASE Nearest(a, name) = {} /\ InLambda(a)
    <3> DEFINE names == NodeAt(u).names
               free == FreeNames(NodeAt(u))
    <3>1. /\ u \in Above(a) /\ IsLambda(u) /\ u \in Nodes /\ NodeAt(u) \in Trees /\ Len(u) \in 1 .. Len(a) - 1
      BY <2>3, UnitTyped, AboveIs, NodeTyped
    <3>2. h = Frame(u, name)
      BY <2>3, LocalIs
    <3>3. u \in OfKind({"close"}) /\ Distinct(names) /\ Recalls(captured[u], u) /\ Unskipped(u)
      BY <3>1 DEF OfKind, IsLambda, NoRepeats, LambdasRecorded
    <3>4. CASE name \in ToSet(names)
      <4>1. h = Held("variable", u, Latest(names, name))
        BY <3>1, <3>2, <3>3, <3>4, FrameIs
      <4>2. e = Held("variable", u, Latest(names, name))
        BY <2>3, <3>4, FormalsBind
      <4> QED
        BY <2>1, <4>1, <4>2
    <3>5. CASE name \notin ToSet(names)
      <4>1. \A n \in Binders(a, name) : n < Len(u)
        BY <2>3, <3>5, FormalsBind
      <4>2. \A q \in Below(u) : ~BindsName(q, name)
        BY <3>1, <4>1 DEF Apart
      <4>3. ~BindsName(u, name)
        BY <3>5 DEF BindsName
      <4>4. name \in ToSet(free)
        <5>1. CASE h # Unbound
          BY <3>1, <3>2, <3>5, <5>1, FrameIs
        <5>2. CASE Sets(name, a) /\ Unskipped(a)
          <6>1. NodeAt(u).kind \notin Skipped /\ \A q \in Above(a) \cap Below(u) : NodeAt(q).kind \notin Skipped
            BY <3>1, <5>2 DEF Unskipped
          <6>2. a \in Below(u)
            BY <3>1 DEF Below
          <6>3. Sets(name, u)
            BY <3>1, <4>2, <4>3, <5>2, <6>1, <6>2, Presence
          <6> QED
            BY <3>1, <6>3, SetsFree
        <5> QED
          BY <5>1, <5>2
      <4>5. PICK i \in 1 .. Len(free) : free[i] = name /\ h = Held("captured", u, i)
        BY <3>1, <3>2, <3>3, <3>5, <4>4, FrameIs
      <4>6. h[1] = "captured" /\ h[2] = u /\ h[3] = i
        BY <4>5, HolderKinds
      <4>7. IsOrTemp(Behind(h), Local(u, name), name)
        <5>1. i \in DOMAIN free
          BY <3>1, <4>5, FreeNamesTyped, LenProperties
        <5>2. i \in DOMAIN captured[u] /\ IsOrTemp(captured[u][i], Environment(u)[i], free[i])
          BY <3>3, <5>1 DEF Recalls
        <5>3. Environment(u)[i] = Local(u, name) /\ free[i] = name
          BY <4>5, <5>1 DEF Environment
        <5>4. IsOrTemp(captured[u][i], Local(u, name), name)
          BY <5>2, <5>3
        <5> HIDE DEF h, free
        <5> QED
          BY <4>6, <5>2, <5>4 DEF Behind
      <4>8. Binders(u, name) = Binders(a, name) /\ Lexical(u, name) = e
        BY <3>1, <4>1, InnermostAbove
      <4>9. Fine(u)
        <5>1. Apart(u, name)
          <6> SUFFICES ASSUME NEW l \in Above(u), IsLambda(l), \A n \in Binders(u, name) : n < Len(l)
                       PROVE  \A q \in Below(l) : ~BindsName(q, name)
            BY DEF Apart
          <6>1. l \in Above(a)
            BY <3>1, AboveLine
          <6> QED
            BY <4>8, <6>1 DEF Apart
        <5>2. Sets(name, u)
          BY <3>1, <4>4, SetsFree
        <5> QED
          BY <3>3, <5>1, <5>2
      <4>10. Arrives(u, name)
        <5>1. Len(u) \in 0 .. m - 1 /\ Len(u) \in P
          BY <1>2, <3>1
        <5> HIDE DEF Fine
        <5> QED
          BY <3>1, <4>9, <5>1
      <4>11. ASSUME NEW n \in Nat, n >= Len(u) PROVE EndsAt(h, e, name, n)
        <5>1. n \in Nat \ {0} /\ n - 1 \in Nat
          BY <3>1, <4>11
        <5>2. Local(u, name)[1] = "captured" => n - 1 >= Len(Local(u, name)[2])
          <6> SUFFICES ASSUME Local(u, name)[1] = "captured" PROVE n - 1 >= Len(Local(u, name)[2])
            OBVIOUS
          <6>1. Local(u, name)[2] \in Above(u)
            BY <4>10 DEF Arrives
          <6>2. Len(Local(u, name)[2]) \in 1 .. Len(u) - 1
            BY <3>1, <6>1, AboveIs
          <6> QED
            BY <3>1, <4>11, <6>2
        <5>3. EndsAt(Local(u, name), e, name, n - 1)
          BY <4>8, <4>10, <5>1, <5>2 DEF Arrives
        <5>4. LeadsTo(Temp, Temp, n - 1)
          BY <5>1, HolderKinds, LeadsNowhere
        <5> HIDE DEF h, e
        <5>5. CASE Behind(h) = Local(u, name)
          BY <5>1, <5>3, <5>5, LeadsOn DEF EndsAt
        <5>6. CASE name \in Labels /\ Behind(h) = Temp
          BY <5>1, <5>4, <5>6, LeadsOn DEF EndsAt
        <5> QED
          BY <4>7, <5>5, <5>6 DEF IsOrTemp
      <4> QED
        BY <3>1, <4>6, <4>11 DEF Arrives
    <3> QED
      BY <3>4, <3>5
  <2> QED
    BY <2>2, <2>3
<1>3. 0 \in Q
  <2>1. 0 \in P
    BY <1>1, <1>2
  <2> HIDE DEF P
  <2> QED
    BY <1>1, <2>1
<1>4. ASSUME NEW m \in 1 .. Len(p), m - 1 \in Q PROVE m \in Q
  <2>1. \A j \in 0 .. m - 1 : j \in P
    BY <1>4
  <2>2. m \in P
    BY <1>2, <2>1
  <2> HIDE DEF P
  <2> QED
    BY <1>1, <2>1, <2>2
<1>5. \A m \in 0 .. Len(p) : m \in Q
  <2> HIDE DEF Q
  <2> QED
    BY <1>1, <1>3, <1>4, UpTo
<1>6. Len(p) \in P
  <2> HIDE DEF P
  <2> QED
    BY <1>1, <1>5
<1> QED
  BY <1>6

(* A reference in a lambda that is bound nowhere in it is free in it.      *)
LEMMA IsFree ==
  ASSUME prog \in Programs, NEW p \in References, NEW l \in Above(p), IsLambda(l),
         ~ (NodeAt(p).kind = "callf" /\ NodeAt(p).name \in Defined),
         \A n \in Binders(p, NodeAt(p).name) : n < Len(l)
  PROVE  p \in FreeIn(l) /\ p \in Below(l) /\ l \in OfKind({"close"})
<1>1. p \in Nodes /\ l \in Nodes
  BY AboveIs DEF References, OfKind
<1>2. p \in Below(l) /\ l \in OfKind({"close"})
  BY <1>1 DEF Below, OfKind, IsLambda
<1> QED
  BY <1>2 DEF FreeIn

LEMMA PlainMeans ==
  ASSUME prog \in Programs, Plain
  PROVE  /\ NoRepeats
         /\ \A p \in References :
              ~ (NodeAt(p).kind = "callf" /\ NodeAt(p).name \in Defined) => Apart(p, NodeAt(p).name)
<1>1. ASSUME NEW l \in OfKind({"close"}) PROVE Distinct(NodeAt(l).names)
  BY DEF Plain, Repeats, Distinct
<1>2. ASSUME NEW p \in References, ~ (NodeAt(p).kind = "callf" /\ NodeAt(p).name \in Defined),
             NEW l \in Above(p), IsLambda(l), \A n \in Binders(p, NodeAt(p).name) : n < Len(l),
             NEW q \in Below(l), BindsName(q, NodeAt(p).name)
      PROVE  FALSE
  <2>1. p \in FreeIn(l) /\ l \in OfKind({"close"})
    BY <1>2, IsFree
  <2>2. ~ Rebinds(l)
    BY <2>1 DEF Plain
  <2>3. q \in OfKind({"letex", "close"})
    BY <1>2 DEF BindsName, OfKind, Below
  <2> QED
    BY <1>2, <2>1, <2>2, <2>3 DEF Rebinds, BindsName
<1> QED
  BY <1>1, <1>2 DEF NoRepeats, Apart

LEMMA VarblSets ==
  ASSUME prog \in Programs, NEW p \in Nodes, NodeAt(p).kind = "varbl"
  PROVE  Sets(NodeAt(p).name, p)
<1> SUFFICES ASSUME NEW scope \in Scope PROVE NodeAt(p).name \in In(LFree[NodeAt(p)][scope])
  BY DEF Sets
<1> DEFINE t == NodeAt(p)
<1>1. t \in Trees
  BY NodeTyped
<1>2. PICK walk : /\ WalksThrough(LFree, t.kids, scope, walk)
                  /\ \A k \in 0 .. Len(t.kids) : walk[k] \in Scope
                  /\ LFree[t][scope] = LeavesFree(t, scope, walk[Len(t.kids)])
                  /\ Len(t.kids) \in Nat /\ DOMAIN t.kids = 1 .. Len(t.kids)
  BY <1>1, KidsWalk
<1>3. walk[Len(t.kids)] \in Scope
  BY <1>2
<1>4. t.kind \notin Skipped
  BY DEF Skipped
<1> QED
  BY <1>1, <1>2, <1>3, <1>4, LeavesNames

LEMMA Unmoved ==
  ASSUME NEW holder \in {Definition, Global, Unbound, Temp}
  PROVE  Resolved(holder) = holder
<1>1. holder[1] # "captured"
  BY HolderKinds
<1>2. Len(holder[2]) = 0
  <2>1. holder[2] = <<>>
    BY DEF Definition, Global, Unbound, Temp, Held
  <2> QED
    BY <2>1, EmptySeq
<1>3. Len(holder[2]) \in Nat
  BY <1>2
<1>4. LeadsTo(holder, holder, Len(holder[2]))
  BY <1>1, <1>3, LeadsNowhere
<1> QED
  BY <1>3, <1>4, ResolvedAt, Zenon

LEMMA MeaningIs ==
  ASSUME prog \in Programs, NEW p \in References
  PROVE  LET name == NodeAt(p).name
             kind == NodeAt(p).kind
         IN  /\ (kind = "callf" /\ name \in Defined) => Meaning(p) = Definition
             /\ (~(kind = "callf" /\ name \in Defined) /\ Binders(p, name) # {}) =>
                  Meaning(p) = Lexical(p, name)
             /\ (kind = "varbl" /\ Binders(p, name) = {} /\ name \in Defined) => Meaning(p) = Definition
             /\ (Binders(p, name) = {} /\ MayBeGlobal(p)) => Meaning(p) = Global
             /\ (~(kind = "callf" /\ name \in Defined) /\ Binders(p, name) = {}) =>
                  Meaning(p) \in {Definition, Global, Unbound}
             /\ (kind = "callf" /\ name \notin Defined /\ Binders(p, name) = {}) => Meaning(p) = Unbound
<1> DEFINE name == NodeAt(p).name
           kind == NodeAt(p).kind
           b == Binders(p, name)
<1>1. kind \in {"varbl", "callf", "mutst"}
  BY DEF References, OfKind
<1>2. Meaning(p) =
        CASE kind = "callf" /\ name \in Defined -> Definition
          [] ~(kind = "callf" /\ name \in Defined) /\ b # {} -> Innermost(p, name)
          [] kind = "varbl" /\ b = {} /\ name \in Defined -> Definition
          [] kind # "callf" /\ b = {} /\ name \in NamesOf("globl") \ Defined -> Global
          [] OTHER -> Unbound
  BY DEF Meaning
<1>3. MayBeGlobal(p) <=> kind # "callf" /\ name \in NamesOf("globl") \ Defined
  BY DEF MayBeGlobal
<1>4. b # {} => Lexical(p, name) = Innermost(p, name)
  BY DEF Lexical
<1> HIDE DEF name, kind, b
<1>5. (kind = "callf" /\ name \in Defined) => Meaning(p) = Definition
  BY <1>2
<1>6. (~(kind = "callf" /\ name \in Defined) /\ b # {}) => Meaning(p) = Lexical(p, name)
  BY <1>2, <1>4
<1>7. (kind = "varbl" /\ b = {} /\ name \in Defined) => Meaning(p) = Definition
  BY <1>2
<1>8. (b = {} /\ MayBeGlobal(p)) => Meaning(p) = Global
  BY <1>2, <1>3
<1>9. (~(kind = "callf" /\ name \in Defined) /\ b = {}) => Meaning(p) \in {Definition, Global, Unbound}
  BY <1>2
<1>10. (kind = "callf" /\ name \notin Defined /\ b = {}) => Meaning(p) = Unbound
  BY <1>2
<1> QED
  BY <1>5, <1>6, <1>7, <1>8, <1>9, <1>10 DEF name, kind, b

(* What is found of a name is what it means, once it is followed through   *)
(* the environments.                                                       *)
LEMMA FoundIsMeant ==
  ASSUME prog \in Programs, Plain, LambdasRecorded, NEW p \in References,
         Expected(p) = Global => MayBeGlobal(p)
  PROVE  IsOrTemp(Resolved(Expected(p)), Meaning(p), NodeAt(p).name)
<1> DEFINE name == NodeAt(p).name
           kind == NodeAt(p).kind
           h == Local(p, name)
           e == Lexical(p, name)
           u == UnitOf(p)
<1>1. p \in Nodes /\ kind \in {"varbl", "callf", "mutst"} /\ NoRepeats
  BY PlainMeans DEF References, OfKind
<1>2. CASE kind = "callf" /\ name \in Defined
  <2>1. Expected(p) = Definition /\ Meaning(p) = Definition
    BY <1>2, MeaningIs DEF Expected
  <2> QED
    BY <2>1, Unmoved DEF IsOrTemp
<1>3. CASE ~(kind = "callf" /\ name \in Defined) /\ h # Unbound
  <2>1. Expected(p) = h
    BY <1>3 DEF Expected
  <2>2. Apart(p, name)
    BY <1>3, PlainMeans
  <2>3. Arrives(p, name)
    BY <1>1, <1>3, <2>2, Chain
  <2>4. IsOrTemp(Resolved(h), e, name)
    <3>1. CASE h[1] = "captured"
      <4>1. Len(h[2]) \in Nat
        BY <1>1, <2>3, <3>1, AboveIs, NodeTyped DEF Arrives
      <4>2. Len(h[2]) >= Len(h[2])
        BY <4>1
      <4>3. EndsAt(h, e, name, Len(h[2]))
        BY <2>3, <4>1, <4>2 DEF Arrives
      <4> HIDE DEF h, e, name
      <4>4. CASE LeadsTo(h, e, Len(h[2]))
        BY <4>1, <4>4, ResolvedAt DEF IsOrTemp
      <4>5. CASE name \in Labels /\ LeadsTo(h, Temp, Len(h[2]))
        BY <4>1, <4>5, ResolvedAt DEF IsOrTemp
      <4> QED
        BY <4>3, <4>4, <4>5 DEF EndsAt
    <3>2. CASE h[1] # "captured"
      <4>1. h = e
        BY <2>3, <3>2 DEF Arrives
      <4>2. Binders(p, name) # {}
        BY <1>1, <1>3, <4>1, LexicalIs
      <4>3. PICK n \in Binders(p, name) : \A m \in Binders(p, name) : m <= n
        BY <1>1, <4>2, GreatestBinder
      <4>4. h = Held("variable", Owner(p, n), Latest(BoundBy(p, n), name))
        BY <4>1, <4>2, <4>3, InnermostIs DEF Lexical
      <4>5. h[2] = Owner(p, n)
        BY <4>4 DEF Held
      <4>6. Len(Owner(p, n)) \in Nat
        <5>1. n \in 0 .. Len(p) - 1 /\ p \in Seq(Nat) /\ Len(p) \in Nat
          BY <1>1, <4>3, NodeTyped DEF Binders
        <5>2. Len(<<p[1], 0>>) = 2
          OBVIOUS
        <5>3. n # 0 => Len(SubSeq(p, 1, n)) = n
          <6>1. \A i \in 1 .. n : i \in 1 .. Len(p)
            BY <5>1
          <6>2. \A i \in 1 .. n : p[i] \in Nat
            BY <5>1, <6>1, ElementOfSeq
          <6> QED
            BY <5>1, <6>2, SubSeqProperties
        <5> QED
          BY <5>1, <5>2, <5>3 DEF Owner
      <4>7. LeadsTo(h, e, Len(h[2]))
        BY <3>2, <4>1, <4>5, <4>6, LeadsNowhere
      <4> QED
        BY <4>5, <4>6, <4>7, ResolvedAt DEF IsOrTemp
    <3> QED
      BY <3>1, <3>2
  <2>5. CASE Binders(p, name) # {}
    BY <1>3, <2>1, <2>4, <2>5, MeaningIs
  <2>6. CASE Binders(p, name) = {}
    <3>1. e = Unbound
      BY <1>1, <2>6, LexicalIs
    <3>2. Nearest(p, name) = {}
      BY <2>6 DEF Nearest
    <3>3. InLambda(p)
      BY <1>1, <1>3, <3>2, LocalIs
    <3>4. u \in Above(p) /\ IsLambda(u)
      BY <1>1, <3>3, UnitTyped
    <3>5. p \in FreeIn(u) /\ u \in OfKind({"close"})
      BY <1>3, <2>6, <3>4, IsFree
    <3>6. ~ ReadsTop(u)
      BY <3>5 DEF Plain
    <3>7. kind # "callf" => Meaning(p) \notin {Definition, Global}
      BY <3>5, <3>6 DEF ReadsTop
    <3>8. Meaning(p) = Unbound
      BY <1>3, <2>6, <3>7, MeaningIs
    <3> QED
      BY <2>1, <2>4, <3>1, <3>8
  <2> QED
    BY <2>5, <2>6
<1>4. CASE ~(kind = "callf" /\ name \in Defined) /\ h = Unbound
  <2>1. Expected(p) = IF kind = "varbl" /\ name \in Defined THEN Definition ELSE Global
    BY <1>4 DEF Expected
  <2>2. Resolved(Expected(p)) = Expected(p)
    BY <2>1, Unmoved
  <2>3. kind # "callf" /\ name \in Defined \cup NamesOf("globl")
    <3>1. Expected(p) = Definition => kind = "varbl" /\ name \in Defined
      BY <2>1, HolderKinds
    <3> QED
      BY <2>1, <3>1 DEF MayBeGlobal
  <2>4. Nearest(p, name) = {}
    BY <1>1, <1>4, LocalIs
  <2>5. Binders(p, name) = {}
    <3>1. CASE ~InLambda(p)
      BY <1>1, <2>4, <3>1, LocalIs
    <3>2. CASE InLambda(p)
      <4>1. u \in Above(p) /\ IsLambda(u) /\ u \in Nodes /\ NodeAt(u) \in Trees
        BY <1>1, <3>2, UnitTyped, AboveIs, NodeTyped
      <4>2. Frame(u, name) = Unbound
        BY <1>1, <1>4, <2>4, <3>2, LocalIs
      <4>3. name \notin ToSet(NodeAt(u).names) \cup ToSet(FreeNames(NodeAt(u)))
        <5>1. Unbound[1] \notin {"variable", "captured"}
          BY DEF Unbound, Held
        <5> QED
          BY <4>1, <4>2, <5>1, FrameIs
      <4>4. \A n \in Binders(p, name) : n < Len(u)
        BY <1>1, <2>4, <3>2, <4>3, FormalsBind
      <4>5. p \in FreeIn(u) /\ u \in OfKind({"close"}) /\ p \in Below(u)
        BY <1>4, <4>1, <4>4, IsFree
      <4>6. ~ ReadsTop(u)
        BY <4>5 DEF Plain
      <4>7. ~ Skips(u, p)
        BY <2>3, <4>5, <4>6 DEF ReadsTop
      <4>8. kind = "varbl"
        <5>1. kind \notin Skipped
          BY <4>5, <4>7 DEF Skips
        <5> QED
          BY <1>1, <2>3, <5>1 DEF Skipped
      <4>9. Sets(name, p)
        BY <1>1, <4>8, VarblSets
      <4>10. \A q \in Above(p) \cap Below(u) : NodeAt(q).kind \notin Skipped
        BY <4>7 DEF Skips
      <4>11. \A q \in Below(u) : ~BindsName(q, name)
        BY <1>4, <4>1, <4>4, PlainMeans DEF Apart
      <4>12. ~BindsName(u, name)
        BY <4>3 DEF BindsName
      <4>13. NodeAt(u).kind \notin Skipped
        BY <4>1 DEF IsLambda, Skipped
      <4>14. Sets(name, u)
        BY <1>1, <4>1, <4>5, <4>9, <4>10, <4>11, <4>12, <4>13, Presence
      <4> QED
        BY <4>1, <4>3, <4>14, SetsFree
    <3> QED
      BY <3>1, <3>2
  <2>6. CASE kind = "varbl" /\ name \in Defined
    BY <2>1, <2>2, <2>5, <2>6, MeaningIs DEF IsOrTemp
  <2>7. CASE ~(kind = "varbl" /\ name \in Defined)
    BY <2>1, <2>2, <2>5, <2>7, MeaningIs DEF IsOrTemp
  <2> QED
    BY <2>6, <2>7
<1> QED
  BY <1>2, <1>3, <1>4
=============================================================================
