------------------------------ MODULE Writing -------------------------------
(***************************************************************************)
(* How a program is written: the characters of its tokens and what may     *)
(* stand between them (README.md, Language Overview and Miscellaneous).    *)
(***************************************************************************)
EXTENDS Programs, Alphabet

Numeral(n) == IF n < 0 THEN <<"-", ToString(-n)>> ELSE <<ToString(n)>>

(* The escapes that lex_string lists in its comment (lex.c:805). *)
Escaped ==
  ("\n" :> "n") @@ ("\r" :> "r") @@ ("\t" :> "t") @@ ("\\" :> "\\") @@ ("\"" :> "\"") @@ ("'" :> "'")
Literally(s) == IF s \in DOMAIN Escaped THEN <<"\\", Escaped[s]>> ELSE <<s>>

Fixed ==
  [LPAREN |-> <<"(">>, RPAREN |-> <<")">>, EMPTYL |-> <<"(", ")">>, QUMARK |-> <<"?">>, PERIOD |-> <<".">>,
   BVTRUE |-> <<"#", "t">>, BVFALS |-> <<"#", "f">>, SUPRSS |-> <<"#", ";">>, UNQTLS |-> <<",", "@">>]

Chars(token) ==
  LET Sought(table) == CHOOSE c \in DOMAIN table : table[c] = token.tok
      In(table) == \E c \in DOMAIN table : table[c] = token.tok
  IN  CASE token.tok \in DOMAIN Fixed -> Fixed[token.tok]
        [] token.tok = "NUMLIT" -> Numeral(token.n)
        [] token.tok = "STRLIT" -> <<"\"">> \o Literally(token.s) \o <<"\"">>
        [] token.tok = "IDENTF" -> <<token.s>>
        [] token.tok = "SYMBOL" ->
             (CASE token.reads = "int"    -> Numeral(token.n)
                [] token.reads = "flag"   -> <<"#", IF token.n = 1 THEN "t" ELSE "f">>
                [] token.reads = "string" -> <<"\"", token.s, "\"">>
                [] token.reads = "other"  -> <<token.s>>)
        [] In(Keywords) -> <<Sought(Keywords)>>
        [] In(WithEqual) -> <<Sought(WithEqual), "=">>
        [] OTHER -> <<Sought(Signs)>>

(* A quotation without a comma can be written with either mark. *)
Straight(toks) ==
  [i \in DOMAIN toks |-> IF toks[i].tok = "QQUOTE" THEN T("LQUOTE")[1] ELSE toks[i]]
Square(c) == CASE c = "(" -> "[" [] c = ")" -> "]" [] OTHER -> c

Layouts == {"tight", "loose", "lines", "square", "commented"}
Gap(left, right, layout) ==
  CASE layout = "loose" -> <<" ">>
    [] layout = "lines" -> <<"\n", " ">>
    [] layout = "commented" -> <<" ", ";", "x", "(", "\n">>
    [] left.tok \in {"LPAREN", "LQUOTE", "QQUOTE", "UNQUOT", "UNQTLS"} \/ right.tok = "RPAREN" -> <<>>
    [] OTHER -> <<" ">>

(* Unless it is indented the text starts with a token.                     *)
Write(toks, layout) ==
  LET Piece(i) ==
        (IF layout = "square" /\ toks[i].tok \in {"LPAREN", "RPAREN"}
         THEN <<Square(Chars(toks[i])[1])>> ELSE Chars(toks[i]))
          \o (IF i < Len(toks) THEN Gap(toks[i], toks[i + 1], layout) ELSE <<>>)
  IN  (IF layout = "indented" THEN <<" ">> ELSE <<>>) \o FlattenSeq([i \in DOMAIN toks |-> Piece(i)])

(* What the lexer is to make of a token. *)
Meaningful(token) ==
  CASE token.tok = "NUMLIT" -> Numeral(token.n)
    [] token.tok \in {"STRLIT", "IDENTF"} -> <<token.s>>
    [] token.tok = "SYMBOL" -> Chars(token)
    [] OTHER -> <<>>
Lexed(toks) == [i \in DOMAIN toks |-> [tok |-> toks[i].tok, val |-> Meaningful(toks[i])]]
=============================================================================
