----------------------------- MODULE Rewriting ------------------------------
(***************************************************************************)
(* The passes of parse.c over the tree: parse_printer, which only reads    *)
(* but stops the compiler on what it does not know, parse_match, which     *)
(* turns matches into conditionals under fresh names, and parse_andor,     *)
(* which turns and, or into nested ifs.                                    *)
(*                                                                         *)
(* A pass changes the nodes in place and returns the node to be used       *)
(* instead of the given one.  `up` holds the nodes it came through: a pass *)
(* that meets one of them again runs until the stack is used up.           *)
(***************************************************************************)
EXTENDS Parser

(* The children of a node, in the order in which every pass takes them. *)
Walks ==
  LET none == <<>>  left == <<"left">>  both == <<"left", "right">>
      all == <<"clauses">>  into == <<"clauses", "left">>  value == <<"clauses", "cond">>
  IN  [INTEG |-> none, BOOLV |-> none, DEFLT |-> none, STRNG |-> none, VARBL |-> none,
       ELIST |-> none, QMARK |-> none, LQINT |-> none, LQSTR |-> none, LQFLG |-> none,
       FLCLS |-> none, UQOPR |-> left, QTOPR |-> left, DEFFN |-> left, BINDE |-> left,
       CLOSE |-> left, FLOPN |-> left, FLWRT |-> left, GLOBL |-> left, MUTST |-> left,
       BEGIN |-> all, LQUOT |-> all, CQUOT |-> all,
       LETEX |-> into, IUNOP |-> into, MATCH |-> into,
       IBNOP |-> both, MTCHC |-> both, MULTI |-> both, CONDC |-> both,
       IFEXP |-> <<"cond", "left", "right">>, CONDE |-> value, CALLF |-> value]

Kids(p, id) ==
  LET node == p.mem[id]
      Elements == [i \in DOMAIN node.clauses |-> <<"element", node.clauses[i]>>]
      Of(field) == IF field = "clauses" THEN Elements
                   ELSE IF node[field] = 0 THEN <<>> ELSE <<<<field, node[field]>>>>
  IN  FlattenSeq([i \in DOMAIN Walks[node.ntype] |-> Of(Walks[node.ntype][i])])

(* What came back for a child takes its place; in an array, as a copy. *)
Replace(p, id, kid) ==
  IF kid[1] = "element" THEN Fill(p, kid[2], p.mem[p.ret])
  ELSE Fill(p, id, (kid[1] :> p.ret))

(* The outcome of reading a node, where a pass knows these kinds. *)
Reads(p, id, up, kinds) ==
  CASE p.mem[id].ntype = "GONE" -> End(p, "unspecified")
    [] p.mem[id].ntype \notin kinds -> Refuse(p)
    [] id \in up -> End(p, "crashed")
    [] OTHER -> p

(* parse_printer, which is on by default (__trace__). *)
RECURSIVE Prints(_, _, _)
Prints(p, id, up) ==
  LET q == Reads(p, id, up, DOMAIN Walks)
  IN  IF ~Running(q) THEN q
      ELSE FoldLeft(LAMBDA acc, kid : Prints(acc, kid[2], up \cup {id}), q, Kids(q, id))
-----------------------------------------------------------------------------
(* A let of names to nodes around a body, taken as a local variable. *)
Let(p, names, values, body) ==
  LET Bind(acc, i) == AppendNode(acc, Len(p.mem) + 1,
                        [Blank EXCEPT !.ntype = "BINDE", !.sval = names[i], !.left = values[i]])
  IN  FoldLeft(Bind, Place(p, [Blank EXCEPT !.ntype = "LETEX", !.left = body]),
               [i \in DOMAIN names |-> i])

(* The let, around what came back, in a node of its own. *)
LetIn(p, id, names, values) ==
  LET l == Let(p, names, values, p.ret)
  IN  Returns(Fill(l, id, l.mem[l.ret]), id)

(* An and of two conditions in this node. *)
Conjoin(p, id, a, b) ==
  LET q == Fill(p, id, [ntype |-> "IUNOP", otype |-> "OP_AND"])
  IN  Returns(AppendNode(AppendNode(q, id, a), id, b), id)

Check(check, arg)   == [Blank EXCEPT !.ntype = "IUNOP", !.otype = check, !.left = arg]
Compare(op, a, b)   == [Blank EXCEPT !.ntype = "IBNOP", !.otype = op, !.left = a, !.right = b]

(* Takes a variable of a fresh name; `part` is what it will be bound to.   *)
FreshVarbl(p, prefix, part) ==
  LET u == Make(Gensym(p), part)
      v == Make(u, [ntype |-> "VARBL", sval |-> Fresh(u, prefix)])
  IN  [p |-> v, name |-> Fresh(u, prefix), part |-> u.ret, varbl |-> v.ret]

(* The car and the cdr of the argument under fresh names. *)
FreshParts(p, arg) ==
  LET car == Make(p, Check("OP_CAR", arg))
      cdr == Make(Gensym(car), Check("OP_CDR", arg))
      one == Fresh(cdr, "*car")
      two == Fresh(Gensym(cdr), "*cdr")
      a   == Make(Gensym(cdr), [ntype |-> "VARBL", sval |-> one])
      b   == Make(a, [ntype |-> "VARBL", sval |-> two])
  IN  [p |-> b, names |-> <<one, two>>, parts |-> <<car.ret, cdr.ret>>,
       car |-> a.ret, cdr |-> b.ret]

(* The part of a box or of a quoted value that a pattern looks into. *)
Unwrap(node, arg) ==
  IF node.ntype = "UQOPR" THEN [Blank EXCEPT !.ntype = "UQOPR", !.left = arg]
  ELSE Check("OP_UBX", arg)
Prefix(node) == IF node.ntype = "UQOPR" THEN "*unquot" ELSE "*box"
Wraps(node)  ==
  \/ node.ntype = "UQOPR"
  \/ node.ntype = "IUNOP" /\ node.otype = "OP_BOX"
IsCons(node) == node.ntype = "IBNOP" /\ node.otype = "OP_CNS"

(* A literal is compared with the argument; of a string and of a symbol    *)
(* the type is checked first.                                              *)
PatternLiteral(p, id, arg, node) ==
  LET text  == node.ntype = "STRNG"
      chk   == Make(p, Check(IF text THEN "CHKSTR" ELSE "CHKSYM", arg))
      eql   == New(chk)
      val   == Make(eql, [ntype |-> node.ntype, sval |-> node.sval])
      equal == Compare(IF text THEN "CMP_RE" ELSE "CMP_SE", val.ret, arg)
      word  == Make(p, [ntype |-> node.ntype, ival |-> node.ival])
  IN  IF node.ntype \in {"STRNG", "LQUOT"}
      THEN Returns(FreeBoth(Conjoin(val, id, val.mem[chk.ret], equal), chk.ret, eql.ret), id)
      ELSE Returns(Fill(word, id, Compare("CMP_EQ", arg, word.ret)), id)

(* A check and the condition that came back, in this node: the condition   *)
(* under a let of the parts of the argument.                               *)
UnderLet(p, id, check, names, parts) ==
  LET l == Let(p, names, parts, p.ret) IN Conjoin(l, id, check, l.mem[l.ret])

(* The conditions for the car and the cdr, of which `b` came back last.    *)
Halves(a, b) == LET n == New(b) IN Conjoin(n, n.ret, n.mem[a.ret], n.mem[b.ret])

(* parse_pattern: the condition that the argument matches the pattern.  A  *)
(* question becomes the condition itself.                                  *)
RECURSIVE Pattern(_, _, _)
PatternWrapped(c, arg, node, u) ==
  UnderLet(Pattern(u.p, u.varbl, node.left), c.ret,
         Check(IF node.ntype = "UQOPR" THEN "CHKSYM" ELSE "CHKBOX", arg), <<u.name>>, <<u.part>>)
PatternCdr(f, a, node) == Halves(a, Pattern(a, f.cdr, node.right))
PatternCons(c, arg, node, f) ==
  UnderLet(PatternCdr(f, Pattern(f.p, f.car, node.left), node), c.ret,
         Check("CHKCNS", arg), f.names, f.parts)
PatternKind(c, arg, node) ==
  CASE node.ntype \in {"ELIST", "BOOLV", "INTEG", "STRNG", "LQUOT"} ->
         PatternLiteral(c, c.ret, arg, node)
    [] node.ntype = "VARBL" -> Returns(Fill(c, c.ret, [ntype |-> "BOOLV", ival |-> 1]), c.ret)
    [] Wraps(node) -> PatternWrapped(c, arg, node, FreshVarbl(c, Prefix(node), Unwrap(node, arg)))
    [] IsCons(node) -> PatternCons(c, arg, node, FreshParts(c, arg))
    [] node.ntype = "QMARK" /\ c.mem[node.left].ntype = "IUNOP" ->
         Returns(Fill(c, node.left, [left |-> arg]), node.left)
    [] node.ntype = "QMARK" -> Returns(AppendNode(c, node.left, c.mem[arg]), node.left)
    [] OTHER -> Refuse(c)
Pattern(p, arg, pat) == IF Running(p) THEN PatternKind(New(p), arg, p.mem[pat]) ELSE p

(* parse_pattern_bind: the expression with the variables of the pattern    *)
(* around it.  A question without a variable has no pattern below it.      *)
RECURSIVE Bind(_, _, _, _)
BindWrapped(r, node, expr, u) ==
  LetIn(Bind(u.p, u.varbl, node.left, expr), r.ret, <<u.name>>, <<u.part>>)
BindCar(b, node, f) == Bind(b, f.car, node.left, b.ret)
BindCons(r, node, expr, f) ==
  LetIn(BindCar(Bind(f.p, f.cdr, node.right, expr), node, f), r.ret, f.names, f.parts)
BindKind(r, arg, node, expr) ==
  CASE node.ntype \in {"ELIST", "BOOLV", "INTEG", "STRNG", "LQUOT"} -> Unneeded(r, r.ret, expr)
    [] node.ntype = "VARBL" -> LetIn(Returns(r, expr), r.ret, <<node.sval>>, <<arg>>)
    [] Wraps(node) -> BindWrapped(r, node, expr, FreshVarbl(r, Prefix(node), Unwrap(node, arg)))
    [] IsCons(node) -> BindCons(r, node, expr, FreshParts(r, arg))
    [] node.ntype = "QMARK" -> Bind(Free(r, r.ret), arg, node.right, expr)
    [] OTHER -> Refuse(r)
Bind(p, arg, pat, expr) ==
  CASE ~Running(p) -> p
    [] pat = 0 -> End(New(p), "crashed")
    [] OTHER -> BindKind(New(p), arg, p.mem[pat], expr)

(* A clause with its condition, `v` having come back last. *)
AppendClause(v, id, condition) ==
  AppendNode(v, id, [Blank EXCEPT !.ntype = "CONDC", !.left = condition, !.right = v.ret])
MatchClause(c, id, arg, clause) ==
  AppendClause(Bind(c, arg, clause.left, clause.right), id, c.ret)

(* The clauses of a match as clauses of `id`; those behind a default are   *)
(* dropped.                                                                *)
RECURSIVE MatchClauses(_, _, _, _)
MatchClauses(p, id, arg, clauses) ==
  LET clause == p.mem[Head(clauses)]
  IN  CASE ~Running(p) \/ clauses = <<>> -> p
        [] p.mem[clause.left].ntype = "DEFLT" -> Fill(p, id, [cond |-> clause.right])
        [] OTHER -> MatchClauses(MatchClause(Pattern(p, arg, clause.left), id, arg, clause),
                                 id, arg, Tail(clauses))

(* With no default a conditional ends in (add1 #f), which fails when it is *)
(* run.                                                                    *)
EndsIn(e, f, id) == Fill(Fill(f, e.ret, [left |-> f.ret]), id, [cond |-> e.ret])
Failing(e, id)   == EndsIn(e, Make(e, [ntype |-> "BOOLV"]), id)
Complete(m, id)  ==
  IF ~Running(m) \/ m.mem[id].cond # 0 THEN m
  ELSE Failing(Make(m, [ntype |-> "IUNOP", otype |-> "OP_INC"]), id)

(* A match binds its subject, and tries its clauses in a conditional.      *)
Bound(m, id, name, subject, conditional) ==
  IF Running(m) THEN LetIn(Returns(m, conditional), id, <<name>>, <<subject>>) ELSE m
Tries(c, id, v, match) ==
  Bound(Complete(MatchClauses(c, c.ret, v, match.clauses), c.ret),
        id, c.mem[v].sval, match.left, c.ret)
Binds(v, id, match) == Tries(Make(v, [ntype |-> "CONDE"]), id, v.ret, match)
Subject(new, match) ==
  Binds(Make(new, [ntype |-> "VARBL", sval |-> Fresh(new, "*match")]), new.ret, match)
RewriteMatch(p, id) ==
  IF p.mem[id].clauses = <<>> THEN Refuse(p) ELSE Subject(Gensym(New(p)), p.mem[id])

(* parse_match *)
RECURSIVE Matches(_, _, _)
Matches(p, id, up) ==
  LET q == Reads(p, id, up, DOMAIN Walks)
      Visit(acc, kid) == Replace(Matches(acc, kid[2], up \cup {id}), id, kid)
      Own(r) == CASE ~Running(r) -> r
                  [] p.mem[id].ntype = "MATCH" -> RewriteMatch(r, id)
                  [] OTHER -> Returns(r, id)
  IN  CASE ~Running(p) -> p
        [] ~Running(q) -> q
        [] OTHER -> Own(FoldLeft(Visit, q, Kids(q, id)))
-----------------------------------------------------------------------------
(* The kinds that parse_match leaves. *)
CoreUnquotesNot == DOMAIN Walks \ {"MATCH", "MTCHC", "DEFLT", "QMARK", "UQOPR"}
Core == DOMAIN Walks \ {"MATCH", "MTCHC", "DEFLT", "QMARK"}

(* The branch in which the other operands are tried. *)
OpenSwapped(op) == IF op = "OP_AND" THEN "right" ELSE "left"
Open(op) == IF op = "OP_AND" THEN "left" ELSE "right"

(* and, or: one if for each operand. *)
Ifs(p, id) ==
  LET f == Make(p, [ntype |-> "BOOLV", ival |-> 0])
      t == Make(f, [ntype |-> "BOOLV", ival |-> 1])
      open == Open(p.mem[id].otype)
      first == New(t)
      If(acc, element) == Fill(acc, acc.ret, [ntype |-> "IFEXP", cond |-> element,
                                              left |-> t.ret, right |-> f.ret])
      Next(acc, element) == LET n == New(acc)
                            IN  If(Fill(n, acc.ret, (open :> n.ret)), element)
  IN  Returns(FoldLeft(Next, If(first, p.mem[id].clauses[1]), Tail(p.mem[id].clauses)), first.ret)

(* parse_andor *)
RECURSIVE AndOrs(_, _, _)
AndOrs(p, id, up) ==
  LET q == Reads(p, id, up, Core)
      Visit(acc, kid) == Replace(AndOrs(acc, kid[2], up \cup {id}), id, kid)
      r == FoldLeft(Visit, q, Kids(q, id))
      node == r.mem[id]
  IN  CASE ~Running(p) -> p
        [] ~Running(q) -> q
        [] ~Running(r) -> r
        [] node.ntype = "IUNOP" /\ node.otype \in {"OP_AND", "OP_LOR"} -> Ifs(r, id)
        [] OTHER -> Returns(r, id)
=============================================================================
