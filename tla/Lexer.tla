-------------------------------- MODULE Lexer -------------------------------
(***************************************************************************)
(* The lexer of the compiler (lex.c).  lex() calls lex_normal for one      *)
(* expression after the other; a quote mark makes lex_normal call          *)
(* lex_quote or lex_quasiquote, which read by other rules, and a comma     *)
(* makes lex_quasiquote call lex_normal again.  Each of the three counts   *)
(* the brackets it has read in a global variable that it saves, sets to    *)
(* zero and restores, and returns when the count is back at zero.          *)
(*                                                                         *)
(* A step is what one round of their loops reads.  The position `at` is    *)
(* that of lex->ch, the character read ahead: 0 before the first one, one  *)
(* past the text at its end.                                               *)
(***************************************************************************)
EXTENDS Alphabet, FiniteSetsExt, Integers

CONSTANT Sources     \* files, with the tokens they were written from, if any

VARIABLES
  text,              \* lex->buf, as characters
  at,                \* lex->r, which is also that of lex->ch
  calls,             \* the activations of the three functions, the innermost first
  depth,             \* __lex_exprdepth__, __lex_parendepth__, __lex_parendepth2__
  lastone,           \* __lex_lastone__
  ended,             \* lex->tok = TOK_ENDOFL
  toks,              \* the tokens
  refused,           \* lex_error has ended the compiler
  program            \* history: the tokens the text was written from, or <<>>

vars == <<text, at, calls, depth, lastone, ended, toks, refused, program>>

(* compile() puts two line ends behind what it has read of the file.       *)
Buffer(file) == file \o <<"\n", "\n">>

Begins(source) ==
  /\ text = Buffer(source.text) /\ program = source.toks
  /\ at = 0
  /\ calls = <<>>
  /\ depth = [normal |-> -1, quote |-> -1, quasi |-> -1]
  /\ lastone = FALSE
  /\ ended = FALSE
  /\ toks = <<>>
  /\ refused = FALSE

Init == \E source \in Sources : Begins(source)
-----------------------------------------------------------------------------
(***************************************************************************)
(* Characters.                                                             *)
(***************************************************************************)
Eof     == Len(text) + 1
Char(i) == IF i \in DOMAIN text THEN text[i] ELSE IF i = 0 THEN "none" ELSE "eof"

(* lex_nextch. *)
Nextch(i) == IF i < Eof THEN i + 1 ELSE Eof

(* The first character from one on that is not, or is, in a set. *)
RECURSIVE Past(_, _), Until(_, _)
Past(i, chars)  == IF i < Eof /\ Char(i) \in chars THEN Past(i + 1, chars) ELSE i
Until(i, chars) == IF i < Eof /\ Char(i) \notin chars THEN Until(i + 1, chars) ELSE i

(* Mutant: the line of a comment is not passed when it is empty. *)
StaysAtEmpty(i) == IF Char(i) = "\n" THEN i - 1 ELSE Nextch(Until(i, {"\n"}))

(* lex_skipto, to the end of a line. *)
Skipto(i) == Nextch(Until(i, {"\n"}))

(* lex_segment: what was read from `from` on, without the character ahead. *)
(* What starts the text is taken from one before it, where the allocator   *)
(* keeps a byte of zeros.                                                  *)
Segment(from, to) ==
  (IF from = 0 THEN <<"nul">> ELSE <<>>)
    \o SubSeq(text, Max({from, 1}), Min({to, Len(text)}) - 1)
-----------------------------------------------------------------------------
(***************************************************************************)
(* lex_next: the token that starts at a character.                         *)
(***************************************************************************)
Sign(tok, to)      == [tok |-> tok, val |-> <<>>, to |-> to]
Cut(tok, from, to) == [tok |-> tok, val |-> Segment(from, to), to |-> to]
Refusal            == Sign("UNDEFN", 0)

LexNumber(from, i) == Cut("NUMLIT", from, Past(i, Digits))

LexKeyword(word) ==
  IF Len(word.val) = 1 /\ Head(word.val) \in DOMAIN Keywords
  THEN Sign(Keywords[Head(word.val)], word.to) ELSE word
EndsIdent == Blanks \cup Opening \cup Closing \cup {";", "\""}
LexIdent(from, i) == LexKeyword(Cut("IDENTF", from, Until(i, EndsIdent)))

(* The closing quote of a string; a backslash takes a character with it.   *)
RECURSIVE Closes(_), Unescaped(_)
Closes(i) ==
  CASE Char(i) \in {"\"", "eof"} -> i
    [] Char(i) = "\\" -> Closes(Nextch(Nextch(i)))
    [] OTHER -> Closes(Nextch(i))
Unescaped(chars) ==
  CASE chars = <<>> -> <<>>
    [] Head(chars) # "\\" -> <<Head(chars)>> \o Unescaped(Tail(chars))
    [] chars[2] \in DOMAIN Escapes -> <<Escapes[chars[2]]>> \o Unescaped(Tail(Tail(chars)))
    [] OTHER -> <<"invalid">> \o Unescaped(Tail(Tail(chars)))
LexString(i, close) ==
  IF Nextch(close) = Eof \/ "invalid" \in ToSet(Unescaped(Segment(i, close))) THEN Refusal
  ELSE [tok |-> "STRLIT", val |-> Unescaped(Segment(i, close)), to |-> Nextch(close)]

LexOctothorp(i) ==
  CASE Char(i) = "t" -> Sign("BVTRUE", Nextch(i))
    [] Char(i) = "f" -> Sign("BVFALS", Nextch(i))
    [] Char(i) = ";" -> Sign("SUPRSS", Nextch(i))
    [] OTHER -> Refusal

LexNext(from, i, c, ahead) ==
  CASE c \in Opening -> IF c = "(" /\ ahead = ")" THEN Sign("EMPTYL", i + 2) ELSE Sign("LPAREN", i + 1)
    [] c \in Closing -> Sign("RPAREN", i + 1)
    [] c \in DOMAIN Signs ->
         (CASE c = "-" /\ ahead \in Digits -> LexNumber(from, i + 1)
            [] c \in DOMAIN WithEqual /\ ahead = "=" -> Sign(WithEqual[c], i + 2)
            [] OTHER -> Sign(Signs[c], i + 1))
    [] c = "\"" -> LexString(i + 1, Closes(i + 1))
    (* Without a blank behind it a ? is taken for an octothorp. *)
    [] c = "?" -> IF ahead \in Blanks THEN Sign("QUMARK", i + 1) ELSE LexOctothorp(Nextch(i + 1))
    [] c = "#" -> LexOctothorp(i + 1)
    [] c \in Digits -> LexNumber(from, i)
    [] c \in Letters -> LexIdent(from, i + 1)
    [] OTHER -> Refusal
-----------------------------------------------------------------------------
(***************************************************************************)
(* Calls and returns.                                                      *)
(***************************************************************************)
Top   == Head(calls)
Count == depth[Top.fn]

(* A function has a string of tokens of its own, which it returns; it is   *)
(* empty until the function appends to it.                                 *)
Enter(fn, callers) ==
  /\ calls' = <<[fn |-> fn, saved |-> depth[fn], before |-> Len(toks'), waits |-> FALSE]>> \o callers
  /\ depth' = [depth EXCEPT ![fn] = 0]
CallFrom(fn) == Enter(fn, <<[Top EXCEPT !.waits = TRUE]>> \o Tail(calls))

(* Mutant: the count that is given back is that of a fresh start. *)
Forgotten(frame) == 0

Restored(frame) == frame.saved

Return ==
  /\ calls' = Tail(calls)
  /\ depth' = [depth EXCEPT ![Top.fn] = Restored(Top)]

(* The end of a round: the count is d, and at zero the function returns.   *)
Goes(d) ==
  IF d <= 0 THEN Return ELSE depth' = [depth EXCEPT ![Top.fn] = d] /\ UNCHANGED calls

Lexeme(tok, val)  == [tok |-> tok, val |-> val]
Emits(new, to) ==
  /\ toks' = toks \o new
  /\ at' = to
  /\ UNCHANGED <<text, refused, program>>

Runs(fn) == ~refused /\ calls # <<>> /\ Top.fn = fn /\ ~Top.waits

(* Where the next token starts; the first character of all is not looked   *)
(* at before that.                                                         *)
From  == Past(at, Blanks)
First == Max({From, 1})
-----------------------------------------------------------------------------
(***************************************************************************)
(* lex() and lex_normal.                                                   *)
(***************************************************************************)
Lex ==
  /\ ~refused /\ calls = <<>> /\ ~ended
  /\ UNCHANGED <<text, at, lastone, ended, toks, refused, program>>
  /\ Enter("normal", <<>>)

Comment ==
  /\ Runs("normal") /\ Char(First) = ";"
  /\ at' = Skipto(First + 1)
  /\ UNCHANGED <<text, calls, depth, lastone, ended, toks, refused, program>>

EndNormal ==
  /\ Runs("normal") /\ Char(From) = "eof"
  /\ Emits(<<Lexeme("ENDOFL", <<>>)>>, From)
  /\ ended' = TRUE
  /\ Return
  /\ UNCHANGED lastone

Scans(Step(_)) ==
  /\ Runs("normal") /\ Char(From) # "eof" /\ Char(First) # ";"
  /\ \E read \in {LexNext(From, First, Char(First), Char(First + 1))} : Step(read)
  /\ UNCHANGED <<lastone, ended>>
Given(read) == Emits(<<Lexeme(read.tok, read.val)>>, read.to)

RefuseToken(read) ==
  /\ read.tok = "UNDEFN"
  /\ refused' = TRUE
  /\ UNCHANGED <<text, at, calls, depth, toks, program>>

(* Mutant: a string is not taken for an expression. *)
StringForgotten == {"NUMLIT", "BVTRUE", "BVFALS", "IDENTF"}

Atoms == {"STRLIT", "NUMLIT", "BVTRUE", "BVFALS", "IDENTF"}
ReadAtom(read) ==
  /\ read.tok \in Atoms
  /\ Given(read)
  /\ Goes(Count)

ReadBracket(read) ==
  /\ read.tok \in {"LPAREN", "RPAREN"}
  /\ Given(read)
  /\ Goes(IF read.tok = "LPAREN" THEN Count + 1 ELSE Count - 1)

Modes == [LQUOTE |-> "quote", QQUOTE |-> "quasi"]
ReadMark(read) ==
  /\ read.tok \in DOMAIN Modes
  /\ Given(read)
  /\ CallFrom(Modes[read.tok])

(* The names of operations, and () as well. *)
ReadOther(read) ==
  /\ read.tok \notin Atoms \cup {"LPAREN", "RPAREN", "UNDEFN"} \cup DOMAIN Modes
  /\ Given(read)
  /\ UNCHANGED <<calls, depth>>

(* The function called has returned. *)
Resume ==
  /\ ~refused /\ calls # <<>> /\ Top.waits
  /\ IF Count <= 0 THEN Return
     ELSE calls' = [calls EXCEPT ![1].waits = FALSE] /\ UNCHANGED depth
  /\ lastone' = (lastone /\ (Top.fn = "normal" \/ Count <= 0))
  /\ UNCHANGED <<text, at, ended, toks, refused, program>>
-----------------------------------------------------------------------------
(***************************************************************************)
(* lex_quote and lex_quasiquote.  A round skips blanks, reads a word, and  *)
(* goes by the character behind it.                                        *)
(***************************************************************************)
Quotations == {"quote", "quasi"}
EndsWord ==
  Blanks \cup Opening \cup Closing
    \cup (IF Top.fn = "quasi" THEN {","} ELSE {}) \cup (IF Count > 0 THEN {"."} ELSE {})
Stop   == Until(From, EndsWord)
ReadsWord == lastone \/ Stop > From
Word == Lexeme("SYMBOL", Segment(From, Stop))

Round(new, to, d) ==
  /\ Emits(new, to)
  /\ Goes(d)
  /\ lastone' = (ReadsWord /\ d <= 0)
  /\ UNCHANGED ended

InQuote == (\E fn \in Quotations : Runs(fn)) /\ Char(From) # "eof"

(* At the end of the text the counts are not restored, and the end is not  *)
(* among the tokens when lex_quasiquote has none to append it to.          *)
EndQuote ==
  /\ \E fn \in Quotations : Runs(fn)
  /\ Char(From) = "eof"
  /\ Emits(IF Top.fn = "quasi" /\ Len(toks) = Top.before THEN <<>> ELSE <<Lexeme("ENDOFL", <<>>)>>, From)
  /\ ended' = TRUE
  /\ calls' = Tail(calls)
  /\ UNCHANGED <<depth, lastone>>

(* A word directly before one of these three is dropped. *)
QuoteOpens ==
  /\ InQuote /\ Char(Stop) \in Opening
  /\ Round(<<Lexeme("LPAREN", <<>>)>>, Stop + 1, Count + 1)

QuoteDot ==
  /\ InQuote /\ Char(Stop) = "."
  /\ Round(<<Lexeme("PERIOD", <<>>)>>, Stop + 1, Count)

UnquoteMark == IF Char(Stop + 1) = "@" THEN Sign("UNQTLS", Stop + 2) ELSE Sign("UNQUOT", Nextch(Stop))
Unquotes ==
  /\ InQuote /\ Char(Stop) = ","
  /\ Emits(<<Lexeme(UnquoteMark.tok, <<>>)>>, UnquoteMark.to)
  /\ CallFrom("normal")
  /\ lastone' = ReadsWord
  /\ UNCHANGED ended

(* The closing bracket is read with the word before it, even when the      *)
(* quotation is that word alone and the bracket is not its own.            *)
QuoteCloses ==
  /\ InQuote /\ Char(Stop) \in Closing
  /\ Round((IF ReadsWord /\ Char(Stop - 1) \notin Blanks \cup Opening THEN <<Word>> ELSE <<>>)
             \o <<Lexeme("RPAREN", <<>>)>>,
           Stop + 1, Count - 1)

QuoteSymbol ==
  /\ InQuote /\ Char(Stop) \in Blanks \cup {"eof"}
  /\ Round(<<Word>>, Nextch(Stop), Count)
-----------------------------------------------------------------------------
Next ==
  \/ Lex \/ Comment \/ EndNormal
  \/ Scans(RefuseToken) \/ Scans(ReadAtom) \/ Scans(ReadBracket) \/ Scans(ReadMark) \/ Scans(ReadOther)
  \/ Resume
  \/ EndQuote \/ QuoteOpens \/ QuoteDot \/ Unquotes \/ QuoteCloses \/ QuoteSymbol

Spec == Init /\ [][Next]_vars

(* lex() is a loop that the processor keeps executing. *)
FairSpec == Spec /\ WF_vars(Next)

Done == calls = <<>> /\ ended
=============================================================================
