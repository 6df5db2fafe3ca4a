----------------------------- MODULE MCCompiler -----------------------------
(***************************************************************************)
(* Programs that do not print what README.md says.                         *)
(***************************************************************************)
EXTENDS Compiler, MCFrontEnd

(* By README.md they print #f / #t / -4 / #f / #t / -2 / 2 (a question     *)
(* need not have a name) / 2, from a lambda / 6, where f returns what it   *)
(* is given / 5 alone, twice, where an item is silenced with #; / #t, the  *)
(* empty list being a list / an error, as 5 has no length / 1, for x.      *)
Fails ==
  <<<<Item(Logic("OP_AND", <<T1, F0>>))>>, <<Item(Logic("OP_LOR", <<T1, F0>>))>>,
    <<Item(Sum("OP_SUB", <<Num(1), Num(2), Num(3)>>))>>,
    <<Item(Binary("CMP_LT", Num(2), Num(2)))>>, <<Item(Binary("CMP_LE", Num(2), Num(2)))>>,
    <<Item(Sum("OP_MUL", <<Num(-1), Num(2)>>))>>,
    <<Item(Match(T1, <<Case(Question("CHKINT", ""), Num(1)), Case(Default, Num(2))>>))>>,
    <<Item(CallOf(Lambda(<<"x">>, Match(x, <<Case(Default, Num(2))>>)), <<Num(1)>>))>>,
    <<Item(Define("f", <<"x">>, x)), Item(Call("f", <<Sum("OP_ADD", <<Num(1), Num(2), Num(3)>>)>>))>>,
    <<Quiet(Match(Num(4), <<Case(Default, Num(4))>>)), Item(Num(5))>>,
    <<Quiet(Unquote(QuotedInt(7))), Item(Num(5))>>,
    <<Item(Unary("CHKLST", Nil))>>,
    <<Item(Unary("OP_LEN", Num(5)))>>,
    <<Item(LetBe(<<Binding("x", Num(1))>>, LetBe(<<Binding("x", x)>>, x)))>>>>

(* Programs that the lexer does not read as they are written: one that     *)
(* begins with a number; one that begins with a blank; a comment in a      *)
(* quotation; a quotation in an unquoted expression; a carriage return in  *)
(* a string.                                                               *)
Laid(items, layout) == [items |-> items, layout |-> layout]
FailsInText ==
  <<Laid(<<Item(Num(5))>>, "tight"),
    Laid(<<Item(Pair(Num(1), Num(2)))>>, "indented"),
    Laid(<<Item(Unquote(QuotedList(<<Symbol("a"), Symbol("b")>>, Nil)))>>, "commented"),
    Laid(<<Item(QuotedList(<<Symbol("a"), QuotedTerm(Pair(Num(1), Symbol("b"))), Symbol("c")>>, Nil))>>, "tight"),
    Laid(<<Item(Pair(Text("\r"), Nil))>>, "tight")>>

Examples == {[i \in DOMAIN Fails |-> Laid(Fails[i], "tight")] \o FailsInText}
=============================================================================
