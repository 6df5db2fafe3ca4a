------------------------------ MODULE Alphabet ------------------------------
(***************************************************************************)
(* The characters of a program and the tables of the lexer.  A whole word  *)
(* or number counts as one character: the lexer looks at their letters and *)
(* digits only to find where they end.                                     *)
(***************************************************************************)
EXTENDS SequencesExt, TLC

CONSTANTS
  Idents,             \* words that are not reserved; t and f may be among them
  Digits             \* numbers without a sign

Blanks  == {" ", "\n"}
Opening == {"(", "["}
Closing == {")", "]"}

(* lex_keyword. *)
Keywords ==
  [cond |-> "CONDIT", abs |-> "ABSOPR", if |-> "IFWORD", else |-> "ELSEWD", add1 |-> "INCOPR",
   sub1 |-> "DECOPR", print |-> "PRTOPR", let |-> "LETLET", box |-> "BOXBOX", unbox |-> "UNBOXE",
   cons |-> "CONSLT", car |-> "CARCAR", cdr |-> "CDRCDR", define |-> "DEFINE", fun |-> "FNPROC",
   call |-> "FNCALL", lambda |-> "LAMBDA", and |-> "ANDAND", or |-> "OROROR", length |-> "LENGTH",
   list |-> "LISTBD", mod |-> "MODMOD", bitand |-> "BITAND", bitor |-> "BITLOR", bitxor |-> "BITXOR",
   bitshl |-> "BITSHL", bitshr |-> "BITSHR", not |-> "NOTNOT", match |-> "MATCHE"]
  @@ ("zero?" :> "ZEROIF") @@ ("string?" :> "CHKSTR") @@ ("integer?" :> "CHKINT")
  @@ ("flag?" :> "CHKFLG") @@ ("boolean?" :> "CHKBOO") @@ ("list?" :> "CHKLST")
  @@ ("emptylist?" :> "CHKELS") @@ ("box?" :> "CHKBOX") @@ ("proc?" :> "CHKPRC")
  @@ ("bytes?" :> "CHKBYT") @@ ("symbol?" :> "CHKSYM") @@ ("cons?" :> "CHKCNS")
  @@ ("string=?" :> "STREQL") @@ ("symbol=?" :> "SYMEQL") @@ ("set!" :> "MUTSET")
  @@ ("file-open" :> "FLOPEN") @@ ("file-write" :> "FLWRIT") @@ ("file-close" :> "FLCLOS")
  @@ ("symbol-append" :> "SYMAPP") @@ ("_" :> "MTCHDF")
Letters == Idents \cup DOMAIN Keywords

(* What is written with one character, and what with an = behind it. *)
Signs ==
  ("+" :> "ADDOPR") @@ ("-" :> "SUBOPR") @@ ("*" :> "MULOPR") @@ ("/" :> "DIVOPR")
  @@ ("," :> "UNQUOT") @@ (">" :> "GTCOMP") @@ ("<" :> "LTCOMP") @@ ("=" :> "EQCOMP")
  @@ ("~" :> "NECOMP") @@ ("'" :> "LQUOTE") @@ ("backtick" :> "QQUOTE")
WithEqual == (">" :> "GECOMP") @@ ("<" :> "LECOMP")

(* lex_string: the escapes it knows; the one for r is a carriage return.   *)
Escapes ==
  ("n" :> "\n") @@ ("t" :> "\t") @@ ("\r" :> "\r") @@ ("\\" :> "\\") @@ ("\"" :> "\"") @@ ("'" :> "'")
=============================================================================
