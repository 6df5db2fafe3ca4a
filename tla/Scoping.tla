------------------------------ MODULE Scoping ------------------------------
(***************************************************************************)
(* What names mean in a program, from its tree alone, and what is claimed  *)
(* of the generator by it.                                                 *)
(***************************************************************************)
EXTENDS Generator

(* No name is a label of asterisks: these are "*" or begin with two of     *)
(* them, or are empty (compile.c:1802); a name begins with a letter or an  *)
(* underscore (lex.c:274), or with one asterisk and a letter if a pass has *)
(* made it (parse.c:1618); only the first word of a text can come out      *)
(* empty (lex.c:222), outside of every scope.  It may be a "binary<N>".    *)
ASSUME ScopingAssumption ==
  /\ \A tree \in Trees : tree.name # Temporary /\ Temporary \notin ToSet(tree.names)
  /\ \A program \in Programs :
       \A i \in DOMAIN program : Temporary \notin ToSet(program[i].params)

(* The paths of all nodes: those of the items, and those of the kids of    *)
(* what is one shorter.  No path is longer than the trees are high.        *)
Paths[n \in 0 .. Len(Levels)] ==
  IF n = 0 THEN {}
  ELSE IF n = 1 THEN {<<i>> : i \in DOMAIN prog}
  ELSE UNION {{Append(p, k) : k \in DOMAIN NodeAt(p).kids} : p \in Paths[n - 1]}

Nodes == UNION {Paths[n] : n \in 1 .. Len(Levels)}
OfKind(kinds) == {p \in Nodes : NodeAt(p).kind \in kinds}
Above(p)      == {SubSeq(p, 1, n) : n \in 1 .. Len(p) - 1}
Below(p)      == {q \in Nodes : p \in Above(q)}

(* The variables that the first n numbers of a path bring into scope and   *)
(* fewer do not: a definition its parameters, a let each variable before   *)
(* its value, a lambda its formals.                                        *)
BoundBy(p, n) ==
  LET node == NodeAt(SubSeq(p, 1, n))
      item == prog[p[1]]
  IN  CASE n = 0 -> IF item.kind = "deffn" THEN item.params ELSE <<>>
        [] n > 0 /\ node.kind = "letex" ->
             SubSeq(node.names, 1, Min({p[n + 1], Len(node.names)}))
        [] n > 0 /\ node.kind = "close" -> node.names
        [] OTHER -> <<>>

Latest(names, name) ==
  CHOOSE j \in DOMAIN names : names[j] = name /\ \A i \in DOMAIN names : names[i] = name => i <= j

(* Where a name is bound on the way down a path, and the innermost of the  *)
(* variables that have it.                                                 *)
Binders(p, name) == {n \in 0 .. Len(p) - 1 : name \in ToSet(BoundBy(p, n))}
Owner(p, n) == IF n = 0 THEN <<p[1], 0>> ELSE SubSeq(p, 1, n)
Innermost(p, name) ==
  LET n == CHOOSE n \in Binders(p, name) : \A m \in Binders(p, name) : m <= n
  IN  Held("variable", Owner(p, n), Latest(BoundBy(p, n), name))

(* The innermost variable of a name, or the definition or the global.  A   *)
(* call of a definition is a call of the definition; a definition cannot   *)
(* be assigned, nor a global called.                                       *)
Meaning(p) ==
  LET name == NodeAt(p).name
      kind == NodeAt(p).kind
  IN  CASE kind = "callf" /\ name \in Defined -> Definition
        [] ~(kind = "callf" /\ name \in Defined) /\ Binders(p, name) # {} -> Innermost(p, name)
        [] kind = "varbl" /\ Binders(p, name) = {} /\ name \in Defined -> Definition
        [] kind # "callf" /\ Binders(p, name) = {} /\ name \in NamesOf("globl") \ Defined -> Global
        [] OTHER -> Unbound

(* The holder a reference ends at, through the environments of lambdas:    *)
(* those of the lambdas around it, of which each has a shorter path.       *)
Behind(holder) ==
  IF holder[1] # "captured" THEN holder
  ELSE IF holder[3] \in DOMAIN captured[holder[2]] THEN captured[holder[2]][holder[3]]
  ELSE Unbound

Resolved(holder) ==
  LET walk[n \in 0 .. Len(holder[2])] == IF n = 0 THEN holder ELSE Behind(walk[n - 1])
  IN  walk[Len(holder[2])]

(* The lambda, or else the item, that a node belongs to. *)
UnitOf(p) ==
  LET Around == {q \in Above(p) : NodeAt(q).kind = "close"}
  IN  IF Around = {} THEN <<p[1]>>
      ELSE CHOOSE q \in Around : \A r \in Around : Len(r) <= Len(q)
-----------------------------------------------------------------------------
References == OfKind({"varbl", "callf", "mutst"})

(* The references in a lambda to what lies outside of it; a call of a       *)
(* definition is none.                                                     *)
FreeIn(l) ==
  {p \in References \cap Below(l) :
     LET name == NodeAt(p).name
     IN  /\ ~ (NodeAt(p).kind = "callf" /\ name \in Defined)
         /\ \A n \in Binders(p, name) : n < Len(l)}

(* The way down from a lambda leads through what lfree does not look into. *)
Skips(l, p) == \E q \in (Above(p) \cup {p}) \cap Below(l) : NodeAt(q).kind \in Skipped

(* What lambdas do not do right: they bind one of their free names again   *)
(* inside; they read a definition or a global, or what they take for one   *)
(* because they did not capture it; they have two formals of one name,     *)
(* which get one slot; they hold, or are held by, what is skipped, or are  *)
(* the value of a global.                                                  *)
Rebinds(l)  == \E p \in FreeIn(l), q \in Below(l) \cap OfKind({"letex", "close"}) :
                 NodeAt(p).name \in ToSet(NodeAt(q).names)
ReadsTop(l) == \E p \in FreeIn(l) :
                 /\ NodeAt(p).kind # "callf"
                 /\ \/ Meaning(p) \in {Definition, Global}
                    \/ Skips(l, p) /\ NodeAt(p).name \in Defined \cup NamesOf("globl")
Repeats(l)  == \E i, j \in DOMAIN NodeAt(l).names : i # j /\ NodeAt(l).names[i] = NodeAt(l).names[j]
Hides(l)    == \/ \E q \in Above(l) : NodeAt(q).kind \in Skipped
               \/ \E p \in FreeIn(l) : Skips(l, p)
               \/ prog[l[1]].kind = "globl"
Plain  == \A l \in OfKind({"close"}) : ~ Rebinds(l) /\ ~ ReadsTop(l) /\ ~ Repeats(l)
Simple == \A l \in OfKind({"close"}) : ~ Hides(l)
-----------------------------------------------------------------------------
(* Every name of a compiled program is read from the word that scoping     *)
(* gives it, through slots and through the environments of lambdas, unless *)
(* a lambda of the program is one of the first three that go wrong.  Two walks *)
(* over a lambda, lfree of compile_closure_create and of compile_closure,  *)
(* must agree on the order of its environment (compile.c:1654, 1696).  In  *)
(* an operation with two operands a name binary<N> can be the label of its *)
(* temporary (compile.c:854), which then hides the variable.               *)
ReadsItsBinding ==
  (status = "done" /\ Plain) =>
    \A p \in References :
      \/ Resolved(found[p]) = Meaning(p)
      \/ NodeAt(p).name \in Labels /\ Resolved(found[p]) = Temp

(* A program is refused only when it has a name that means nothing, or     *)
(* that is a global not yet defined.                                       *)
RefusesOnlyUnbound ==
  (status = "refused" /\ Plain /\ Simple) =>
    \E p \in References :
      \/ Meaning(p) = Unbound
      \/ Meaning(p) = Global /\ prog[p[1]].kind # "deffn"
           /\ ~ \E i \in 1 .. p[1] - 1 : prog[i].kind = "globl" /\ prog[i].name = NodeAt(p).name

(* Each call in tail position becomes a jump, unless the generator has  *)
(* met an assignment of a global there (compile.c:805).                    *)
LastCallsJump ==
  \A p \in DOMAIN jumps :
    (~ jumps[p] /\ InTailPlace(p)) =>
      \E q \in DOMAIN found : /\ NodeAt(q).kind = "mutst" /\ found[q] = Global
                              /\ UnitOf(q) = UnitOf(p)
=============================================================================
