------------------------------- MODULE Parser -------------------------------
(***************************************************************************)
(* The recursive descent of parse.c over the tokens of one expression: the *)
(* nodes it takes and releases, in the order of the code.                  *)
(*                                                                         *)
(* A parse function gets the node that its caller took for it, and returns *)
(* a node that need not be the same: a sum of three operands and a         *)
(* sequence return a node above the given one.                             *)
(***************************************************************************)
EXTENDS Nodes

(* What a token is turned into; the tokens have the names of lex.h without *)
(* TOK_, the operations those of parse.h.                                  *)
UnaryOp ==
  [PRTOPR |-> "OP_PRT", INCOPR |-> "OP_INC", DECOPR |-> "OP_DEC", NOTNOT |-> "OP_NOT",
   ABSOPR |-> "OP_ABS", SUBOPR |-> "OP_NEG", MULOPR |-> "OP_ABS", DIVOPR |-> "OP_ABS",
   ADDOPR |-> "OP_ABS", ANDAND |-> "OP_AND", OROROR |-> "OP_LOR", LENGTH |-> "OP_LEN",
   ZEROIF |-> "CMP_ZR", CARCAR |-> "OP_CAR", CDRCDR |-> "OP_CDR", BOXBOX |-> "OP_BOX",
   UNBOXE |-> "OP_UBX", CHKSTR |-> "CHKSTR", CHKLST |-> "CHKLST", CHKELS |-> "CHKELS",
   CHKINT |-> "CHKINT", CHKFLG |-> "CHKFLG", CHKBOO |-> "CHKBOO", CHKSYM |-> "CHKSYM",
   CHKPRC |-> "CHKPRC", CHKBOX |-> "CHKBOX", CHKBYT |-> "CHKBYT", CHKCNS |-> "CHKCNS",
   FNPROC |-> "OP_UND"]
VariadicOp ==
  [SUBOPR |-> "OP_SUB", MULOPR |-> "OP_MUL", DIVOPR |-> "OP_DIV", ADDOPR |-> "OP_ADD"]
BinaryOp ==
  [GTCOMP |-> "CMP_GT", GECOMP |-> "CMP_GE", LECOMP |-> "CMP_LE", LTCOMP |-> "CMP_LT",
   EQCOMP |-> "CMP_EQ", NECOMP |-> "CMP_NE", CONSLT |-> "OP_CNS", STREQL |-> "CMP_RE",
   SYMEQL |-> "CMP_SE", MODMOD |-> "OP_MOD", BITAND |-> "BITAND", BITLOR |-> "BITLOR",
   BITXOR |-> "BITXOR", BITSHL |-> "BITSHL", BITSHR |-> "BITSHR", SYMAPP |-> "OP_SAP"]

(* The checks that a (? ...) pattern may name. *)
Questions == {t \in DOMAIN UnaryOp : UnaryOp[t] = t}
-----------------------------------------------------------------------------
Token(p)   == p.toks[p.off]
Tok(p)     == IF Running(p) THEN Token(p).tok ELSE "NONE"
Consume(p) == IF Running(p) THEN [p EXCEPT !.off = @ + 1] ELSE p
WantSkips(p, t) == IF Tok(p) = "ENDOFL" THEN Refuse(p) ELSE Consume(p)
Want(p, t) == IF Tok(p) = t THEN Consume(p) ELSE Refuse(p)
AtEnd(p)   == Tok(p) \in {"RPAREN", "NONE"}

(* Fills the node that stands for the token alone. *)
Leaf(p, id, fields) == Returns(Consume(Fill(p, id, fields)), id)

(* parse_name: the identifier goes into the node. *)
Name(p, id) ==
  IF Tok(p) = "IDENTF" THEN Leaf(p, id, [sval |-> Token(p).s]) ELSE Refuse(p)

(* What is quoted: the text of a symbol that reads as a string, a flag or  *)
(* an integer is one.                                                      *)
Literal(token) ==
  CASE token.reads = "string" -> [ntype |-> "LQSTR", sval |-> token.s]
    [] token.reads = "flag"   -> [ntype |-> "LQFLG", ival |-> token.n]
    [] token.reads = "int"    -> [ntype |-> "LQINT", ival |-> token.n]
    [] OTHER                  -> [ntype |-> "LQUOT", sval |-> token.s]
-----------------------------------------------------------------------------
RECURSIVE ParseExpr(_, _, _), ParseMultivar(_, _), ParseQuote(_, _, _),
          ParseRight(_, _, _), ParseCall(_, _), ParseCond(_, _), ParseBindings(_, _),
          ParseParams(_, _), ParseMatchClauses(_, _), ParseAndOr(_, _)

(* A new node, parsed. *)
Child(p) == LET n == New(p) IN ParseExpr(n, n.ret, FALSE)

(* A child that becomes a field of the node. *)
IntoGiven(p, id, field) ==
  LET n == New(p)
      c == ParseExpr(n, n.ret, FALSE)
  IN  Returns(Fill(c, id, (field :> n.ret)), id)
Into(p, id, field) == LET c == Child(p) IN Returns(Fill(c, id, (field :> c.ret)), id)

(* parse_multivar: the operands so far are the left side of the next one. *)
ParseMultivar(p, id) ==
  LET c    == Child(p)
      node == c.mem[id]
      more == IF node.right = 0 THEN Returns(Fill(c, id, [right |-> c.ret]), id)
              ELSE Make(c, [ntype |-> node.ntype, otype |-> node.otype,
                            left |-> id, right |-> c.ret])
  IN  IF AtEnd(more) THEN more ELSE ParseMultivar(more, more.ret)

(* and, or: the operands are copied into an array, and the node of the     *)
(* first one is released while `left` still holds it.  The other ones are  *)
(* parsed into a local variable.                                           *)
ParseAndOr(p, id) ==
  IF AtEnd(p) THEN Returns(p, id)
  ELSE LET local == Place(p, Blank)
           c     == ParseExpr(local, local.ret, FALSE)
       IN  ParseAndOr(Leave(AppendNode(c, id, c.mem[c.ret]), local.ret), id)

ParseUnary(p, id) ==
  LET t == Tok(p)
      c == Into(Fill(Consume(p), id, [ntype |-> "IUNOP"]), id, "left")
      q == Fill(c, id, [otype |-> UnaryOp[t]])
      x == q.mem[id].left
  IN  CASE t \in DOMAIN VariadicOp /\ ~AtEnd(q) ->
             ParseMultivar(Fill(q, id, [ntype |-> "IBNOP", otype |-> VariadicOp[t]]), id)
        [] t \in {"ANDAND", "OROROR"} ->
             ParseAndOr(Free(AppendNode(q, id, q.mem[x]), x), id)
        [] t = "FNPROC" -> Refuse(q)
        [] OTHER -> q

ParseBinary(p, id) ==
  LET fields == [ntype |-> "IBNOP", otype |-> BinaryOp[Tok(p)]]
  IN  Fill(Into(Into(Consume(p), id, "left"), id, "right"), id, fields)

(* The nodes of both branches are taken before the first one is parsed. *)
ParseIf(p, id) ==
  LET c == Into(Fill(Consume(p), id, [ntype |-> "IFEXP"]), id, "cond")
      l == New(c)
      r == New(l)
      a == ParseExpr(r, l.ret, FALSE)
      b == ParseExpr(a, r.ret, FALSE)
  IN  Returns(Fill(b, id, [left |-> a.ret, right |-> b.ret]), id)

(* parse_cond *)
ParseCond(p, id) ==
  LET q == Want(p, "LPAREN")
      l == New(q)
      r == New(l)
      a == ParseExpr(r, l.ret, FALSE)
      b == ParseExpr(a, r.ret, FALSE)
      clause == [Blank EXCEPT !.ntype = "CONDC", !.left = a.ret, !.right = b.ret]
  IN  CASE ~Running(q) -> q
        [] Tok(q) = "ELSEWD" -> Want(Into(Consume(q), id, "cond"), "RPAREN")
        [] OTHER -> ParseCond(AppendNode(Want(b, "RPAREN"), id, clause), id)

(* parse_bindings *)
ParseBindings(p, id) ==
  LET local == Place(Want(p, "LPAREN"), [Blank EXCEPT !.ntype = "BINDE"])
      b     == local.ret
      c     == Into(Name(local, b), b, "left")
      q     == Want(AppendNode(c, id, c.mem[b]), "RPAREN")
  IN  IF AtEnd(q) THEN q ELSE ParseBindings(q, id)

(* parse_paramlist *)
ParseParams(p, id) ==
  IF AtEnd(p) THEN p
  ELSE LET q == Name(Place(p, [Blank EXCEPT !.ntype = "VARBL"]), Len(p.mem) + 1)
       IN  ParseParams(AppendNode(q, id, q.mem[Len(p.mem) + 1]), id)

(* parse_call: the node that came back is copied, and the one that was     *)
(* taken for the argument is released.                                     *)
ParseCall(p, id) ==
  IF AtEnd(p) THEN Returns(p, id)
  ELSE LET arg == New(p)
           c   == ParseExpr(arg, arg.ret, FALSE)
       IN  ParseCall(Free(AppendNode(c, id, c.mem[c.ret]), arg.ret), id)

(* parse_multivar_right, from the second element of a list on. *)
ParseRight(p, first, last) ==
  LET c  == Child(p)
      op == Make(c, [ntype |-> "IBNOP", otype |-> "OP_CNS", left |-> c.ret])
      q  == Fill(op, last, [right |-> op.ret])
      e  == Make(q, [ntype |-> "ELIST"])
  IN  IF AtEnd(q) THEN Returns(Fill(e, op.ret, [right |-> e.ret]), first)
      ELSE ParseRight(q, first, op.ret)

(* A list is conses that end in the empty list; the node taken for the     *)
(* latter is given back when a second element follows.                     *)
ParseList(p, id) ==
  LET q == Fill(Consume(p), id, [ntype |-> "ELIST"])
      l == New(Fill(q, id, [ntype |-> "IBNOP", otype |-> "OP_CNS"]))
      r == Make(l, [ntype |-> "ELIST"])
      c == ParseExpr(r, l.ret, FALSE)
      d == Fill(c, id, [left |-> c.ret, right |-> r.ret])
  IN  CASE AtEnd(q) -> Returns(q, id)
        [] AtEnd(d) -> Returns(d, id)
        [] OTHER    -> ParseRight(Fill(Free(d, r.ret), id, [right |-> 0]), id, id)

ParseMatchClauses(p, id) ==
  IF AtEnd(p) THEN Returns(p, id)
  ELSE LET a == Child(Want(p, "LPAREN"))
           b == Child(a)
           clause == [Blank EXCEPT !.ntype = "MTCHC", !.left = a.ret, !.right = b.ret]
       IN  ParseMatchClauses(Want(AppendNode(b, id, clause), "RPAREN"), id)

(* A pattern (? check variable), whose variable may be left out. *)
ParseQuestion(p, id) ==
  LET q == Consume(p)
      e == Make(q, IF Tok(q) = "IDENTF" THEN [ntype |-> "CALLF", sval |-> Token(q).s]
                   ELSE [ntype |-> "IUNOP", otype |-> UnaryOp[Tok(q)]])
      r == Consume(Fill(e, id, [ntype |-> "QMARK", left |-> e.ret]))
      v == Make(r, [ntype |-> "VARBL", sval |-> Token(r).s])
  IN  CASE Tok(q) \notin Questions \cup {"IDENTF"} -> Refuse(q)
        [] Tok(r) = "IDENTF" -> Returns(Consume(Fill(v, id, [right |-> v.ret])), id)
        [] OTHER -> Returns(r, id)

(* A name alone is a global, one in parentheses a function. *)
ParseDefine(p, id) ==
  LET q == Consume(p)
      f == Name(Want(Fill(q, id, [ntype |-> "DEFFN"]), "LPAREN"), id)
  IN  IF Tok(q) = "IDENTF" THEN Into(Name(Fill(q, id, [ntype |-> "GLOBL"]), id), id, "left")
      ELSE Into(Want(ParseParams(f, id), "RPAREN"), id, "left")
-----------------------------------------------------------------------------
(* parse_quote, parse_quasiquote: the elements up to the closing            *)
(* parenthesis, then what ends the list.                                    *)
ParseQuote(p, id, quasi) ==
  LET q      == IF Tok(p) = "PERIOD" THEN Consume(p) ELSE p
      e      == Place(q, Blank)
      nested == ParseQuote(Fill(Consume(e), e.ret, [ntype |-> "CQUOT"]), e.ret, quasi)
      symbol == Leaf(e, e.ret, Literal(Token(q)))
      unquot == Into(Consume(Fill(e, e.ret, [ntype |-> "QTOPR"])), e.ret, "left")
      Then(r) == LET s == AppendNode(r, id, r.mem[e.ret])
                 IN  IF Tok(p) = "PERIOD" THEN Want(s, "RPAREN") ELSE ParseQuote(s, id, quasi)
  IN  CASE ~Running(p) -> p
        [] Tok(p) = "RPAREN" -> AppendNode(Consume(p), id, [Blank EXCEPT !.ntype = "ELIST"])
        [] Tok(q) = "LPAREN" -> Then(nested)
        [] Tok(q) = "SYMBOL" -> Then(symbol)
        [] Tok(p) = "UNQUOT" /\ quasi -> Then(unquot)
        [] OTHER -> Refuse(q)

(* What follows a quote or a backtick. *)
Quoted(p, id, quasi) ==
  CASE Tok(p) = "LPAREN" ->
         Returns(ParseQuote(Consume(Fill(p, id, [ntype |-> "CQUOT"])), id, quasi), id)
    [] Tok(p) = "UNQUOT" /\ quasi ->
         LET n == New(p)
             c == ParseExpr(Consume(n), n.ret, FALSE)
         IN  Returns(Fill(c, id, [ntype |-> "QTOPR", left |-> c.ret]), id)
    [] OTHER -> Leaf(p, id, Literal(Token(p)))

(* parse_cpexpr: what follows an opening parenthesis. *)
ParseCpExpr(p, id) ==
  LET t == Tok(p)
      Kind(kind) == Consume(Fill(p, id, [ntype |-> kind]))
  IN  CASE t = "MUTSET" -> Into(Name(Kind("MUTST"), id), id, "left")
        [] t = "MATCHE" -> ParseMatchClauses(Into(Kind("MATCH"), id, "left"), id)
        [] t \in DOMAIN UnaryOp -> ParseUnary(p, id)
        [] t \in DOMAIN BinaryOp -> ParseBinary(p, id)
        [] t = "IFWORD" -> ParseIf(p, id)
        [] t = "CONDIT" ->
             Returns(Want(ParseCond(Want(Kind("CONDE"), "LPAREN"), id), "RPAREN"), id)
        [] t = "LETLET" ->
             Into(Want(ParseBindings(Want(Kind("LETEX"), "LPAREN"), id), "RPAREN"), id, "left")
        [] t = "DEFINE" -> ParseDefine(p, id)
        [] t = "LISTBD" -> ParseList(p, id)
        [] t = "QUMARK" -> ParseQuestion(p, id)
        [] t = "IDENTF" -> ParseCall(Name(Fill(p, id, [ntype |-> "CALLF"]), id), id)
        [] t = "LPAREN" -> ParseCall(Into(Fill(p, id, [ntype |-> "CALLF"]), id, "cond"), id)
        [] t = "FLOPEN" -> Into(Kind("FLOPN"), id, "left")
        [] t = "FLWRIT" -> Into(Kind("FLWRT"), id, "left")
        [] t = "FLCLOS" -> Returns(Kind("FLCLS"), id)
        [] t = "LAMBDA" ->
             Into(Want(ParseParams(Want(Kind("CLOSE"), "LPAREN"), id), "RPAREN"), id, "left")
        [] OTHER -> Refuse(p)

(* The forms that parse_expr knows. *)
Form(p, id) ==
  LET t == Tok(p)
  IN  CASE t = "MTCHDF" -> Leaf(p, id, [ntype |-> "DEFLT"])
        [] t = "LPAREN" -> Want(ParseCpExpr(Consume(p), id), "RPAREN")
        [] t = "NUMLIT" -> Leaf(p, id, [ntype |-> "INTEG", ival |-> Token(p).n])
        [] t = "STRLIT" -> Leaf(p, id, [ntype |-> "STRNG", sval |-> Token(p).s])
        [] t = "BVTRUE" -> Leaf(p, id, [ntype |-> "BOOLV", ival |-> 1])
        [] t = "BVFALS" -> Leaf(p, id, [ntype |-> "BOOLV", ival |-> 0])
        [] t = "IDENTF" -> Leaf(p, id, [ntype |-> "VARBL", sval |-> Token(p).s])
        [] t = "UNQUOT" -> Into(Leaf(p, id, [ntype |-> "UQOPR"]), id, "left")
        [] t = "LQUOTE" -> Quoted(Consume(p), id, FALSE)
        [] t = "QQUOTE" -> Quoted(Consume(p), id, TRUE)
        [] t = "EMPTYL" -> Leaf(p, id, [ntype |-> "ELIST"])
        [] OTHER -> Refuse(p)

(* Behind an expression that is not a whole item, #; begins the second     *)
(* half of a sequence, in a node above the given one.                      *)
Second(m) == Into(m, m.ret, "right")
Sequel(q, globe) ==
  IF ~globe /\ Tok(q) = "SUPRSS"
  THEN Second(Make(Consume(q), [ntype |-> "MULTI", left |-> q.ret])) ELSE q

(* parse_expr *)
ParseExpr(p, id, globe) == Sequel(Form(p, id), globe)
=============================================================================
