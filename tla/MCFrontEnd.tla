----------------------------- MODULE MCFrontEnd -----------------------------
(***************************************************************************)
(* The programs that TLC compiles, and what it checks of them.             *)
(***************************************************************************)
EXTENDS FrontEnd

Item(t)  == [term |-> t, quiet |-> FALSE]
Quiet(t) == [term |-> t, quiet |-> TRUE]

x == Var("x")
v == Var("v")
w == Var("w")
T1 == Flag(1)
F0 == Flag(0)
In(t) == LetBe(<<Binding("x", Num(2))>>, t)

(* The expressions with operands a, b, c. *)
Shapes(a, b, c) ==
  {Unary(op, a) : op \in {"OP_INC", "OP_ABS", "OP_NOT", "CMP_ZR", "OP_BOX", "CHKCNS", "CHKLST", "OP_LEN"}}
  \cup {Sum(op, ts) : op \in {"OP_ADD", "OP_MUL"}, ts \in {<<a>>, <<a, b>>, <<a, b, c>>}}
  \cup {List(ts) : ts \in {<<>>, <<a>>, <<a, b>>, <<a, b, c>>}}
  \cup {Sum("OP_SUB", <<a>>), Pair(a, b), Binary("BITXOR", a, b), Binary("CMP_EQ", a, b),
        If(T1, a, b), If(a, b, c), Cond(<<Clause(F0, a), Clause(T1, b)>>, c), Cond(<<Clause(a, b)>>, c),
        LetBe(<<Binding("y", a), Binding("z", b)>>, Pair(Var("y"), Var("z"))), In(a),
        LetBe(<<Binding("y", a)>>, List(<<Binary("CMP_EQ", Var("y"), Var("y")), Binary("CMP_NE", Var("y"), b)>>)),
        LetBe(<<Binding("x", a)>>, Pair(x, b)),
        CallOf(Lambda(<<"x">>, a), <<b>>), CallOf(Lambda(<<"y">>, Pair(a, Var("y"))), <<b>>),
        Call("f", <<a>>), Call("f", <<Pair(a, b)>>), Unquote(QuotedTerm(a)),
        QuotedTerm(a), Unquote(QuotedList(<<QuotedInt(7), QuotedTerm(a)>>, Symbol("s"))),
        Match(a, <<Case(Num(3), b), Case(v, Pair(v, c))>>),
        Match(Pair(a, b), <<Case(Pair(v, w), List(<<w, v, c>>)), Case(Default, a)>>),
        Match(a, <<Case(Question("CHKINT", "v"), Pair(v, b)), Case(Default, c)>>)}
  (* A comma and a sequence take the #; behind them for their own. *)
  \cup (IF a.kind \in {"UQOPR", "QTOPR", "MULTI"} THEN {} ELSE {Both(a, b)})
Logics(a, b, c) ==
  {Logic(op, ts) : op \in {"OP_AND", "OP_LOR"}, ts \in {<<a>>, <<a, b>>, <<a, b, c>>}}

Flat   == Shapes(Num(3), x, T1) \cup Shapes(x, Num(3), x) \cup Shapes(F0, T1, x)
Nested == UNION {Shapes(t, Num(3), T1) \cup Shapes(x, t, Num(1)) \cup Shapes(Num(3), x, t) :
                   t \in {s \in Shapes(x, Num(3), Num(1)) : s.op # "OP_SUB"}}
Logical == UNION {Logics(T1, t, F0) \cup Logics(t, F0, T1) : t \in Logics(T1, F0, T1) \cup {x, T1, F0}}

(* A definition f(x) is there, and an expression behind it. *)
Around(t)   == <<Item(Define("f", <<"x">>, Pair(x, Nil))), Item(In(t)), Item(Num(9))>>
Defining(t) == <<Item(Define("f", <<"x">>, t)), Quiet(Call("f", <<Num(5)>>)), Item(Call("f", <<T1>>))>>
Without     == {t \in Flat : t.s # "f"}

(* A match of every subject with two of the patterns. *)
Cases ==
  {Case(Num(3), x), Case(F0, x), Case(Nil, Num(1)), Case(Text("a"), x), Case(Symbol("s"), x),
   Case(v, Pair(v, x)), Case(Pair(v, w), Pair(w, v)), Case(Pair(Num(1), v), v),
   Case(Pair(Pair(v, w), Var("u")), List(<<Var("u"), w, v>>)), Case(List(<<v, w>>), Pair(w, v)), Case(Unary("OP_BOX", v), v), Case(Unquote(v), v),
   Case(Unary("OP_BOX", Pair(v, Pair(w, Nil))), Pair(v, w)),
   Case(Question("CHKINT", "v"), Sum("OP_ADD", <<v, Num(1)>>)),
   Case(Question("g", "v"), Pair(v, v)),
   Case(Pair(Question("CHKINT", "v"), Pair(Question("g", "w"), Nil)), Pair(v, w))}
Others == {Case(Num(4), x), Case(Pair(v, w), v), Case(v, v), Case(Default, x)}
Subjects ==
  {Num(3), Num(4), F0, Nil, Text("a"), Text("b"), Symbol("s"), QuotedInt(7), Pair(Num(1), Num(2)),
   Pair(Pair(Num(1), Num(2)), Num(3)), List(<<Num(1), Num(3)>>), Unary("OP_BOX", Num(3)), Unary("OP_BOX", List(<<Num(3), x>>)), x}
Matching ==
  {<<Item(Define("g", <<"x">>, Binary("CMP_EQ", x, Num(3)))), Item(In(Match(s, <<a, b>>)))>> :
     s \in Subjects, a \in Cases, b \in Others}

(* What acts beyond its value is read only. *)
Acting ==
  {<<Item(Global("g", Num(3))), Quiet(t), Item(t)>> :
     t \in {Set("g", Num(4)), File("FLOPN", <<Text("a")>>), File("FLWRT", <<Var("g")>>),
            File("FLCLS", <<>>), Unary("OP_PRT", Num(3)), Binary("OP_SAP", Symbol("s"), Symbol("s")),
            If(T1, Both(Set("g", F0), Var("g")), Nil), Binary("BITSHL", Var("g"), Num(1)),
            LetBe(<<Binding("x", Set("g", T1))>>, If(x, Var("g"), Lambda(<<"y">>, x)))}}

(* Globals that are read in each other, and in a definition.               *)
Globals ==
  {<<Item(Define("f", <<"x">>, Pair(x, Var("g")))), Item(Global("g", t)), Item(Call("f", <<Num(1)>>)),
     Item(Global("h", Pair(Var("g"), Nil))), Item(Binary("CMP_EQ", Unary("OP_CAR", Var("h")), Var("g")))>> :
     t \in {Num(3), Text("a"), Pair(Text("a"), Nil), Match(Nil, <<Case(v, Pair(v, v))>>), Binary("CMP_EQ", Nil, Nil)}}

One(programs) == {<<program>> : program \in programs}

(* Examples of README.md, in its order. *)
Works ==
  <<Unary("OP_ABS", Num(1)), Unary("OP_ABS", Num(-1)), Unary("OP_ABS", Unary("OP_INC", Num(-1))),
    Unary("OP_INC", Num(7)), Unary("OP_DEC", Unary("OP_INC", Num(-1))), Binary("BITAND", Num(5), Num(3)),
    Binary("BITLOR", Num(1), Num(2)), Binary("BITXOR", Num(7), Num(2)), Binary("CMP_GT", Num(1), Num(2)),
    Binary("CMP_LT", Num(1), Num(2)), Binary("CMP_GE", Num(3), Num(2)), Binary("CMP_EQ", Num(1), Num(2)),
    Binary("CMP_EQ", T1, T1), Binary("CMP_EQ", Text("a"), Text("a")), Binary("CMP_NE", Text("a"), Text("b")),
    LetBe(<<Binding("x", Text("foo"))>>, Binary("CMP_EQ", x, x)),
    LetBe(<<Binding("x", Text("bar"))>>, Binary("CMP_NE", x, x)),
    Unary("CHKLST", Pair(Text("a"), Num(2))), Unary("CHKINT", Num(2)), Unary("CHKINT", T1),
    Unary("CHKPRC", Lambda(<<"x">>, x)), Unary("CHKCNS", Nil), Unary("CHKSYM", Symbol("foo")),
    Unary("CMP_ZR", Num(0)), Binary("OP_MOD", Num(7), Num(2)), Unary("OP_NOT", T1),
    Binary("CMP_SE", Symbol("a"), Symbol("b")), Binary("CMP_RE", Text("a"), Text("a")),
    Unary("OP_LEN", Nil), Unary("OP_LEN", Pair(Num(1), Num(2))),
    Unary("OP_LEN", List(<<Num(1), Num(2), Num(3), Num(4)>>)), Unary("OP_CAR", Pair(Num(1), Num(2))),
    Unary("OP_UBX", Unary("OP_BOX", T1)), Sum("OP_ADD", <<Num(-1)>>), Sum("OP_SUB", <<Num(1)>>),
    Sum("OP_ADD", <<Num(-1), Num(2), Num(3)>>), Sum("OP_MUL", <<Num(-1), Num(-2)>>),
    Sum("OP_DIV", <<Num(8), Num(2), Num(2)>>), List(<<>>), List(<<T1, F0, Pair(Symbol("sym"), Nil)>>),
    CallOf(Lambda(<<"x", "y">>, Sum("OP_ADD", <<x, Var("y")>>)), <<Num(1), Num(2)>>),
    QuotedText("abc"), QuotedFlag(1),
    QuotedList(<<Symbol("node"), QuotedTerm(Unary("OP_INC", Num(7))),
                 QuotedTerm(Pair(Text("a"), Text("b")))>>, Nil),
    Unquote(QuotedInt(7)), Unquote(Symbol("abc")),
    Unquote(QuotedList(<<Symbol("a"), Symbol("b"), Symbol("c")>>, Nil))>>

(* Behind a quote the lexer reads other tokens: a quote is never missing.  *)
Unquoting == {t \in Flat : ~\E s \in Subterms(t) : s.kind \in {"QTOPR", "CQUOT"}}
Small == {<<Item(Define("f", <<"x">>, t))>> : t \in Unquoting} \cup {<<Item(In(t))>> : t \in Unquoting \cap Without}
No    == {}
Compiled ==
  One(Small) \cup
  One({Around(t) : t \in Flat \cup Nested \cup Logical} \cup {Defining(t) : t \in Without}
      \cup Matching \cup Acting \cup Globals)
  \cup {[i \in DOMAIN Works |-> <<Item(Works[i])>>]}
=============================================================================
