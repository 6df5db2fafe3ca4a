------------------------------ MODULE Programs ------------------------------
(***************************************************************************)
(* The language that the front end reads: programs as terms, the tokens    *)
(* they are written with, the tree each of them stands for, and the tree   *)
(* that the nodes of the parser hold.                                      *)
(*                                                                         *)
(* A term has the kind of the node that stands for it; `cls` are the       *)
(* operands, parameters or clauses that the node keeps in an array, `subs` *)
(* the other parts.  Two kinds exist in programs only: SUM, an operation   *)
(* of any number of operands, and LIST.                                    *)
(***************************************************************************)
EXTENDS Rewriting

Term(kind, op, s, n, cls, subs) ==
  [kind |-> kind, op |-> op, s |-> s, n |-> n, cls |-> cls, subs |-> subs]

Num(n)        == Term("INTEG", "OP_UND", "", n, <<>>, <<>>)
Flag(n)       == Term("BOOLV", "OP_UND", "", n, <<>>, <<>>)
Text(s)       == Term("STRNG", "OP_UND", s, 0, <<>>, <<>>)
Var(s)        == Term("VARBL", "OP_UND", s, 0, <<>>, <<>>)
Nil           == Term("ELIST", "OP_UND", "", 0, <<>>, <<>>)
Default       == Term("DEFLT", "OP_UND", "", 0, <<>>, <<>>)
Symbol(s)     == Term("LQUOT", "OP_UND", s, 0, <<>>, <<>>)
QuotedInt(n)  == Term("LQINT", "OP_UND", "", n, <<>>, <<>>)
QuotedFlag(n) == Term("LQFLG", "OP_UND", "", n, <<>>, <<>>)
QuotedText(s) == Term("LQSTR", "OP_UND", s, 0, <<>>, <<>>)
QuotedList(ts, end) == Term("CQUOT", "OP_UND", "", 0, Append(ts, end), <<>>)
QuotedTerm(t) == Term("QTOPR", "OP_UND", "", 0, <<>>, <<t>>)
Unquote(t)    == Term("UQOPR", "OP_UND", "", 0, <<>>, <<t>>)
Unary(op, a)  == Term("IUNOP", op, "", 0, <<>>, <<a>>)
Logic(op, ts) == Term("IUNOP", op, "", 0, ts, <<>>)
Binary(op, a, b) == Term("IBNOP", op, "", 0, <<>>, <<a, b>>)
Pair(a, b)    == Binary("OP_CNS", a, b)
Sum(op, ts)   == Term("SUM", op, "", 0, <<>>, ts)
List(ts)      == Term("LIST", "OP_UND", "", 0, <<>>, ts)
If(c, a, b)   == Term("IFEXP", "OP_UND", "", 0, <<>>, <<c, a, b>>)
Clause(c, a)  == Term("CONDC", "OP_UND", "", 0, <<>>, <<c, a>>)
Cond(cs, e)   == Term("CONDE", "OP_UND", "", 0, cs, <<e>>)
Case(pat, a)  == Term("MTCHC", "OP_UND", "", 0, <<>>, <<pat, a>>)
Match(a, cs)  == Term("MATCH", "OP_UND", "", 0, cs, <<a>>)
Question(c, v) == Term("QMARK", c, v, 0, <<>>, <<>>)
Binding(s, a) == Term("BINDE", "OP_UND", s, 0, <<>>, <<a>>)
LetBe(bs, a)  == Term("LETEX", "OP_UND", "", 0, bs, <<a>>)
Lambda(vs, a) == Term("CLOSE", "OP_UND", "", 0, [i \in DOMAIN vs |-> Var(vs[i])], <<a>>)
Call(s, ts)   == Term("CALLF", "OP_UND", s, 0, ts, <<>>)
CallOf(f, ts) == Term("CALLF", "OP_UND", "", 0, ts, <<f>>)
Both(a, b)    == Term("MULTI", "OP_UND", "", 0, <<>>, <<a, b>>)
Set(s, a)     == Term("MUTST", "OP_UND", s, 0, <<>>, <<a>>)
Global(s, a)  == Term("GLOBL", "OP_UND", s, 0, <<>>, <<a>>)
Define(s, vs, a) == Term("DEFFN", "OP_UND", s, 0, [i \in DOMAIN vs |-> Var(vs[i])], <<a>>)
File(kind, ts) == Term(kind, "OP_UND", "", 0, <<>>, ts)
-----------------------------------------------------------------------------
(* How the operations are written (README.md, Operations and Constructors; *)
(* the names of the tokens are those of lex.h); a check is written with    *)
(* its name.                                                               *)
Spelling ==
  [OP_PRT |-> "PRTOPR", OP_INC |-> "INCOPR", OP_DEC |-> "DECOPR", OP_NOT |-> "NOTNOT",
   OP_ABS |-> "ABSOPR", OP_LEN |-> "LENGTH", CMP_ZR |-> "ZEROIF", OP_CAR |-> "CARCAR",
   OP_CDR |-> "CDRCDR", OP_BOX |-> "BOXBOX", OP_UBX |-> "UNBOXE", OP_ADD |-> "ADDOPR",
   OP_SUB |-> "SUBOPR", OP_MUL |-> "MULOPR", OP_DIV |-> "DIVOPR", OP_MOD |-> "MODMOD",
   OP_AND |-> "ANDAND", OP_LOR |-> "OROROR", CMP_GT |-> "GTCOMP", CMP_GE |-> "GECOMP",
   CMP_LE |-> "LECOMP", CMP_LT |-> "LTCOMP", CMP_EQ |-> "EQCOMP", CMP_NE |-> "NECOMP",
   OP_CNS |-> "CONSLT", CMP_RE |-> "STREQL", CMP_SE |-> "SYMEQL", OP_SAP |-> "SYMAPP"]
Spelt(op) == IF op \in DOMAIN Spelling THEN Spelling[op] ELSE op

T(tok)     == <<[tok |-> tok, s |-> "", n |-> 0, reads |-> "other"]>>
Id(s)      == <<[tok |-> "IDENTF", s |-> s, n |-> 0, reads |-> "other"]>>
Quotes(s, n, reads) == <<[tok |-> "SYMBOL", s |-> s, n |-> n, reads |-> reads]>>
Enclosed(ts) == IF ts = <<>> THEN T("EMPTYL") ELSE T("LPAREN") \o ts \o T("RPAREN")

RECURSIVE Show(_), ShowQuoted(_)
Shown(ts) == FlattenSeq([i \in DOMAIN ts |-> Show(ts[i])])
Show(t) ==
  LET cls == Shown(t.cls)
      subs == Shown(t.subs)
      Word(tok) == Enclosed(T(tok) \o cls \o subs)
  IN  CASE t.kind = "INTEG" -> <<[T("NUMLIT")[1] EXCEPT !.n = t.n]>>
        [] t.kind = "STRNG" -> <<[T("STRLIT")[1] EXCEPT !.s = t.s]>>
        [] t.kind = "BOOLV" -> T(IF t.n = 1 THEN "BVTRUE" ELSE "BVFALS")
        [] t.kind = "VARBL" -> Id(t.s)
        [] t.kind = "ELIST" -> T("EMPTYL")
        [] t.kind = "DEFLT" -> T("MTCHDF")
        [] t.kind \in {"IUNOP", "IBNOP", "SUM"} -> Word(Spelt(t.op))
        [] t.kind = "LIST"  -> Word("LISTBD")
        [] t.kind = "IFEXP" -> Word("IFWORD")
        [] t.kind \in {"CONDC", "MTCHC"} -> Enclosed(subs)
        [] t.kind = "CONDE" -> Enclosed(T("CONDIT") \o Enclosed(cls \o Enclosed(T("ELSEWD") \o subs)))
        [] t.kind = "MATCH" -> Enclosed(T("MATCHE") \o subs \o cls)
        [] t.kind = "QMARK" -> Enclosed(T("QUMARK")
                                 \o (IF t.op \in Questions THEN T(t.op) ELSE Id(t.op))
                                 \o (IF t.s = "" THEN <<>> ELSE Id(t.s)))
        [] t.kind = "BINDE" -> Enclosed(Id(t.s) \o subs)
        [] t.kind = "LETEX" -> Enclosed(T("LETLET") \o Enclosed(cls) \o subs)
        [] t.kind = "CLOSE" -> Enclosed(T("LAMBDA") \o Enclosed(cls) \o subs)
        [] t.kind = "CALLF" -> Enclosed((IF t.subs = <<>> THEN Id(t.s) ELSE subs) \o cls)
        [] t.kind = "MULTI" -> Show(t.subs[1]) \o T("SUPRSS") \o Show(t.subs[2])
        [] t.kind = "MUTST" -> Enclosed(T("MUTSET") \o Id(t.s) \o subs)
        [] t.kind = "GLOBL" -> Enclosed(T("DEFINE") \o Id(t.s) \o subs)
        [] t.kind = "DEFFN" -> Enclosed(T("DEFINE") \o Enclosed(Id(t.s) \o cls) \o subs)
        [] t.kind = "FLOPN" -> Word("FLOPEN")
        [] t.kind = "FLWRT" -> Word("FLWRIT")
        [] t.kind = "FLCLS" -> Word("FLCLOS")
        [] t.kind = "UQOPR" -> T("UNQUOT") \o subs
        [] OTHER -> T("QQUOTE") \o ShowQuoted(t)
(* Behind a quote or a backtick. *)
ShowQuoted(t) ==
  CASE t.kind = "CQUOT" ->
         Enclosed(FlattenSeq([i \in DOMAIN Front(t.cls) |-> ShowQuoted(t.cls[i])])
                  \o (IF Last(t.cls) = Nil THEN <<>> ELSE T("PERIOD") \o ShowQuoted(Last(t.cls))))
    [] t.kind = "QTOPR" -> T("UNQUOT") \o Shown(t.subs)
    [] t.kind = "LQINT" -> Quotes("", t.n, "int")
    [] t.kind = "LQFLG" -> Quotes("", t.n, "flag")
    [] t.kind = "LQSTR" -> Quotes(t.s, 0, "string")
    [] OTHER            -> Quotes(t.s, 0, "other")
-----------------------------------------------------------------------------
(* The tree that a program stands for: an operation of one operand is the  *)
(* absolute value, or for - the negation; one of more is taken from the    *)
(* left; a list is conses.                                                 *)
RECURSIVE Meant(_)
MeantAll(ts) == [i \in DOMAIN ts |-> Meant(ts[i])]
Meant(t) ==
  LET ts == MeantAll(t.subs)
  IN  CASE t.kind = "SUM" /\ Len(ts) = 1 ->
             Unary(IF t.op = "OP_SUB" THEN "OP_NEG" ELSE "OP_ABS", ts[1])
        [] t.kind = "SUM" -> FoldLeft(LAMBDA a, b : Binary(t.op, a, b), ts[1], Tail(ts))
        [] t.kind = "LIST" -> FoldRight(Pair, ts, Nil)
        [] OTHER -> [t EXCEPT !.cls = MeantAll(@), !.subs = ts]

(* The tree below a node.  An and, an or does not count what its first     *)
(* operand was taken from, and a question is its check and its name.       *)
RECURSIVE Unfold(_, _)
Unfold(p, id) ==
  LET node == p.mem[id]
      Named(field) == IF node[field] = 0 THEN "" ELSE p.mem[node[field]].sval
      parts == SelectSeq(Kids(p, id), LAMBDA kid : kid[1] # "element")
      Trees(ids) == [i \in DOMAIN ids |-> Unfold(p, ids[i])]
  IN  IF node.ntype = "QMARK"
      THEN Question(IF Named("left") = "" THEN p.mem[node.left].otype ELSE Named("left"), Named("right"))
      ELSE Term(node.ntype, node.otype, node.sval, node.ival, Trees(node.clauses),
                IF node.otype \in {"OP_AND", "OP_LOR"} THEN <<>>
                ELSE Trees([i \in DOMAIN parts |-> parts[i][2]]))
=============================================================================
