------------------------------- MODULE Trees -------------------------------
(***************************************************************************)
(* The tree of a program as the code generator sees it after parse(): what *)
(* tells apart how names are bound, read and captured, and which calls are *)
(* in tail position.  A node is [kind, name, names, kids]:                 *)
(*                                                                         *)
(*   integ    a constant (NODE_INTEG, BOOLV, ELIST, LQINT, LQFLG, FLCLS,   *)
(*            and the empty CQUOT)                                         *)
(*   strng    a string or a symbol (NODE_STRNG, LQUOT)                     *)
(*   lqstr    a quoted string (NODE_LQSTR)                                 *)
(*   varbl    a name that is read                                          *)
(*   unary    an operation on kids[1] (NODE_IUNOP, UQOPR)                  *)
(*   boxop    kids[1] put into a cell (OP_BOX, NODE_QTOPR)                 *)
(*   binary   an operation on kids[1], kids[2] (NODE_IBNOP)                *)
(*   cons     a cell for kids[1], kids[2] (OP_CNS)                         *)
(*   cquot    a quoted list of all but the last of the kids, and its end   *)
(*            (NODE_CQUOT)                                                 *)
(*   ifexp    kids: condition, first and second branch                     *)
(*   conde    kids: condition and value of each clause, then the default   *)
(*   fileop   an operation on the log file (NODE_FLOPN, FLWRT)             *)
(*   letex    binds names[i] to kids[i]; the body is the last of the kids  *)
(*   close    a lambda with formals names and body kids[1]                 *)
(*   callf    a call of name with arguments kids                           *)
(*   calle    a call of the value of the last of the kids                  *)
(*   mutst    set! of name to kids[1]                                      *)
(*   multi    kids[1] evaluated and dropped, then kids[2]                  *)
(***************************************************************************)
EXTENDS Naturals, SequencesExt

CONSTANT NoName

Node(kind, name, names, kids) ==
  [kind |-> kind, name |-> name, names |-> names, kids |-> kids]

Integ              == Node("integ", NoName, <<>>, <<>>)
Varbl(n)           == Node("varbl", n, <<>>, <<>>)
Strng              == Node("strng", NoName, <<>>, <<>>)
QuotedStrng        == Node("lqstr", NoName, <<>>, <<>>)
Unary(a)           == Node("unary", NoName, <<>>, <<a>>)
BoxOp(a)           == Node("boxop", NoName, <<>>, <<a>>)
Pair(a, b)         == Node("cons", NoName, <<>>, <<a, b>>)
Quoted(as, b)      == Node("cquot", NoName, <<>>, Append(as, b))
Binary(a, b)       == Node("binary", NoName, <<>>, <<a, b>>)
IfExp(c, a, b)     == Node("ifexp", NoName, <<>>, <<c, a, b>>)
Cond(clauses, b)   == Node("conde", NoName, <<>>, Append(clauses, b))
FileOp(a)          == Node("fileop", NoName, <<>>, <<a>>)
Let(ns, inits, b)  == Node("letex", NoName, ns, Append(inits, b))
Close(ns, b)       == Node("close", NoName, ns, <<b>>)
CallF(n, args)     == Node("callf", n, <<>>, args)
CallE(f, args)     == Node("calle", NoName, <<>>, Append(args, f))
MutSt(n, a)        == Node("mutst", n, <<>>, <<a>>)
Multi(a, b)        == Node("multi", NoName, <<>>, <<a, b>>)

Kinds == {"integ", "strng", "lqstr", "varbl", "unary", "boxop", "binary", "cons", "cquot",
          "ifexp", "conde", "fileop", "letex", "close", "callf", "calle", "mutst", "multi"}

(* Each kind of node has the kids that its construction gives it.          *)
WellFormed(node) ==
  LET kids == Len(node.kids)
  IN  /\ node.kind \in {"integ", "strng", "lqstr", "varbl"} => kids = 0
      /\ node.kind \in {"unary", "boxop", "fileop", "close", "mutst"} => kids = 1
      /\ node.kind \in {"binary", "cons", "multi"} => kids = 2
      /\ node.kind = "cquot" => kids >= 2
      /\ node.kind = "ifexp" => kids = 3
      /\ node.kind = "conde" => kids % 2 = 1
      /\ node.kind = "letex" => kids = Len(node.names) + 1
      /\ node.kind = "calle" => kids > 0
=============================================================================
