------------------------------ MODULE MCLexer -------------------------------
(***************************************************************************)
(* The texts that TLC reads with the lexer: programs written in several    *)
(* ways, and short sequences of characters.                                *)
(***************************************************************************)
EXTENDS Lexer, Writing

a == Symbol("a")
x == Var("x")

(* Expressions, and quotations around an unquoted one. *)
Plain ==
  {Num(3), Num(-3), x, Flag(1), Text("b"), Text("\n"), Unary("OP_INC", x), Pair(Num(1), x), List(<<x, Flag(0)>>),
   LetBe(<<Binding("x", Num(3))>>, Pair(x, Nil)), CallOf(Lambda(<<"x">>, x), <<Num(3)>>),
   Sum("OP_SUB", <<Num(1), Num(-3)>>), Match(x, <<Case(Question("CHKINT", "x"), x), Case(Default, x)>>)}
Around(t) ==
  {QuotedTerm(t), QuotedList(<<QuotedTerm(t)>>, Nil), QuotedList(<<a, QuotedTerm(t), a>>, Nil),
   QuotedList(<<QuotedList(<<a, QuotedTerm(t)>>, Nil), QuotedInt(3)>>, a),
   QuotedList(<<a>>, QuotedTerm(t))}
Still ==
  {a, QuotedInt(3), QuotedFlag(1), QuotedText("b"), QuotedList(<<a, QuotedInt(3)>>, Nil), QuotedList(<<a>>, a),
   QuotedList(<<QuotedList(<<a>>, Nil), QuotedList(<<a, a>>, a), QuotedText("b")>>, Nil)}
Once == UNION {Around(t) : t \in Plain \cup Still}
Some == UNION {Around(t) : t \in {Num(3), Pair(x, Text("b")), a}}
Twice ==
  UNION {Around(t) : t \in Some \cup {Pair(q, Num(3)) : q \in Some} \cup {Pair(Num(3), q) : q \in Some}}
Within(t) == {t, Pair(t, x), Pair(x, t), Unquote(t)}

(* The tokens of the programs: each word and sign, and each expression     *)
(* with something behind it.                                               *)
Bare(tok) == T("LPAREN") \o T(tok) \o Id("x") \o T("RPAREN") \o T("SUPRSS")
Values(table) == {table[c] : c \in DOMAIN table}
Simple ==
  {Bare(tok) : tok \in (Values(Keywords) \cup Values(Signs) \cup Values(WithEqual)) \ {"LQUOTE", "QQUOTE"}}
  \cup {Show(Pair(t, x)) \o Show(Pair(x, t)) : t \in Plain}
QuotedOnes ==
  {Show(u) \o Show(Pair(Num(3), x)) : u \in Twice \cup UNION {Within(t) : t \in Still \cup Once}}
  \cup {Straight(Show(u) \o Show(x)) : u \in UNION {Within(t) : t \in Still}}

Source(ts, layout) == [text |-> Write(ts, layout), toks |-> Lexed(ts \o T("ENDOFL"))]
Written_ ==
  {Source(ts, layout) : ts \in Simple, layout \in Layouts}
  \cup {Source(ts, layout) : ts \in QuotedOnes, layout \in {"tight", "loose", "square"}}

(* Short texts: what a quotation can hold, and what can be out of place.   *)
InQuotation == {"(", ")", ",", "backtick", "'", "x", " "}
Anything    == {"(", ")", ".", ";", "#", "t", "\"", "\\", "-", "3", "x", "?", "<", "=", "'", "backtick", " ", "\n"}
Random ==
  {<<"backtick", "(">> \o s \o <<")">> : s \in BoundedSeq(InQuotation, 4)}
  \cup BoundedSeq(Anything, 3)

MCSources == Written_ \cup {[text |-> t, toks |-> <<>>] : t \in Random}
-----------------------------------------------------------------------------
(* Texts that the lexer takes otherwise than it should: those that begin   *)
(* with a word or a number; a comma before (); and, in an unquoted         *)
(* expression, a word with a quote mark directly before a closing bracket, *)
(* which lex_quote takes for its own.                                      *)
BlankFrom(i, j) == \A k \in i..j : text[k] \in Blanks
BeginsInside == Len(text) > 0 /\ (text[1] \in Letters \cup Digits \/ (text[1] = "-" /\ Char(2) \in Digits))
Empties(i) == \E j \in i + 1..Len(text) - 1 : BlankFrom(i + 1, j - 1) /\ text[j] = "(" /\ text[j + 1] = ")"
Takes(i) ==
  \E j \in i + 1..Len(text) :
    /\ text[j] \in Closing
    /\ \E k \in i + 1..j :
         /\ BlankFrom(i + 1, k - 1)
         /\ \A l \in k..j - 1 : text[l] \notin Blanks \cup Opening \cup Closing \cup (IF text[i] = "'" THEN {} ELSE {","})
Commas == {i \in DOMAIN text : text[i] = ","}
Marks  == {i \in DOMAIN text : text[i] \in {"'", "backtick"}}
Misread == (\E i \in Commas : Empties(i)) \/ (Commas # {} /\ \E i \in Marks : Takes(i))

(* The tokens of a program are those it is written with, whichever way it  *)
(* is laid out and however quotations and unquoted expressions are nested. *)
(* It is what the parser starts from.                                      *)
ReadsTokens ==
  Done /\ program # <<>> /\ ~BeginsInside /\ ~Misread => toks = program

(* What follows a comma is read as one expression (README.md:360), in any  *)
(* text, until lex_quasiquote goes on by its own rules.                    *)
Sums(ts, k) ==
  Len(SelectSeq(SubSeq(ts, 1, k), LAMBDA t : t.tok = "LPAREN"))
    - Len(SelectSeq(SubSeq(ts, 1, k), LAMBDA t : t.tok = "RPAREN"))
Openers == {"UNQUOT", "LQUOTE", "QQUOTE", "UNQTLS"}
IsExpression(ts) ==
  /\ ts # <<>> /\ Last(ts).tok \notin Openers
  /\ Sums(ts, Len(ts)) = 0
  /\ \A k \in 1..Len(ts) - 1 : Sums(ts, k) > 0 \/ (Sums(ts, k) = 0 /\ ts[k].tok \in Openers)
Misplaced == \E i \in Commas : \E j \in i + 1..Len(text) : BlankFrom(i + 1, j - 1) /\ text[j] \in Closing
OneExpression ==
  [][Len(calls') < Len(calls) /\ Len(calls) > 1 /\ Top.fn = "normal" /\ ~ended' /\ ~Misread /\ ~Misplaced
     => IsExpression(SubSeq(toks', Top.before + 1, Len(toks')))]_vars

(* Every text is read to its end or refused. *)
Ends == <>(Done \/ refused)
=============================================================================
