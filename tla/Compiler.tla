------------------------------ MODULE Compiler ------------------------------
(***************************************************************************)
(* The compiler from the text of a program on: the lexer reads it to its   *)
(* end, the parser is given the tokens, and the rest follows (compile() of *)
(* compile.c).  Every program of a queue is written in a layout.           *)
(***************************************************************************)
EXTENDS FrontEnd, Writing

CONSTANT Jobs        \* sequences of programs to be compiled and their layouts

VARIABLES
  layouts,           \* the layouts of the programs in the queue
  text, at, calls, depth, lastone, ended, toks, refused, program  \* the lexer

Lex == INSTANCE Lexer WITH Sources <- {}

frontVars == <<queue, drop, p, stage, verdicts, layouts>>
lexVars   == <<text, at, calls, depth, lastone, ended, toks, refused, program>>
allVars   == <<frontVars, lexVars>>

Source(items, layout) ==
  [text |-> Write(Front(Tokens(items)), layout), toks |-> Lexed(Tokens(items))]

(* What the parser makes of the characters of a token: a character string  *)
(* ends at the first zero, and what is no number counts as zero.           *)
Numbers     == -9 .. 9
IsNumber(v) == \E n \in Numbers : Numeral(n) = v
NumberOf(v) == IF IsNumber(v) THEN CHOOSE n \in Numbers : Numeral(n) = v ELSE 0
NameOf(v)   == IF "nul" \in ToSet(v) THEN "" ELSE FoldLeft(LAMBDA s, c : s \o c, "", v)
SymbolOf(v) ==
  CASE v = <<>> \/ IsNumber(v) -> Quotes("", NumberOf(v), "int")
    [] v \in {<<"#", "t">>, <<"#", "f">>} -> Quotes("", IF v[2] = "t" THEN 1 ELSE 0, "flag")
    [] Len(v) = 3 /\ v[1] = "\"" /\ v[3] = "\"" -> Quotes(v[2], 0, "string")
    [] OTHER -> Quotes(NameOf(v), 0, "other")
Given(lexeme) ==
  CASE lexeme.tok = "NUMLIT" -> <<[T("NUMLIT")[1] EXCEPT !.n = NumberOf(lexeme.val)]>>
    [] lexeme.tok = "STRLIT" -> <<[T("STRLIT")[1] EXCEPT !.s = NameOf(lexeme.val)]>>
    [] lexeme.tok = "IDENTF" -> Id(NameOf(lexeme.val))
    [] lexeme.tok = "SYMBOL" -> SymbolOf(lexeme.val)
    [] OTHER -> T(lexeme.tok)
GivenAll == FlattenSeq([i \in DOMAIN toks |-> Given(toks[i])])

CompilerInit ==
  /\ \E job \in Jobs : /\ queue = [i \in DOMAIN job |-> job[i].items]
                       /\ layouts = [i \in DOMAIN job |-> job[i].layout]
  /\ drop = 0
  /\ \E keeps \in BOOLEAN : p = Begin(T("ENDOFL"), keeps)
  /\ stage = "lex"
  /\ verdicts = <<>>
  /\ Lex!Begins(Source(Head(queue), Head(layouts)))
-----------------------------------------------------------------------------
ReadText ==
  /\ stage = "lex" /\ Lex!Next
  /\ UNCHANGED frontVars

RefuseText ==
  /\ stage = "lex" /\ refused /\ Running(p)
  /\ p' = End(p, "refused")
  /\ UNCHANGED <<queue, drop, stage, verdicts, layouts, lexVars>>

BeginParse ==
  /\ stage = "lex" /\ Lex!Done
  /\ p' = Begin(GivenAll, p.keeps)
  /\ stage' = "parse"
  /\ UNCHANGED <<queue, drop, verdicts, layouts, lexVars>>

Work ==
  /\ stage # "lex"
  /\ ParseItem \/ EndParse \/ PrintTree \/ RewriteMatches \/ RewriteAndOrs \/ Generate
  /\ UNCHANGED <<layouts, lexVars>>

(* The lexer before the next program, with its variables as at first. *)
BeginAgain(source) ==
  /\ text' = Lex!Buffer(source.text) /\ program' = source.toks
  /\ at' = 0 /\ calls' = <<>> /\ toks' = <<>>
  /\ depth' = [fn \in DOMAIN depth |-> -1]
  /\ lastone' = FALSE /\ ended' = FALSE /\ refused' = FALSE

(* The next program, in a compiler of its own. *)
NextText ==
  /\ ~Running(p) /\ Len(queue) > 1
  /\ verdicts' = Append(verdicts, Verdict)
  /\ queue' = Tail(queue) /\ layouts' = Tail(layouts)
  /\ p' = Begin(T("ENDOFL"), p.keeps)
  /\ stage' = "lex"
  /\ BeginAgain(Source(queue[2], layouts[2]))
  /\ UNCHANGED drop

CompilerNext == ReadText \/ RefuseText \/ BeginParse \/ Work \/ NextText

CompilerSpec == CompilerInit /\ [][CompilerNext]_allVars
=============================================================================
