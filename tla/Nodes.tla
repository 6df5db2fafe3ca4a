------------------------------- MODULE Nodes --------------------------------
(***************************************************************************)
(* The nodes of the parser (parse.h, parse.c) in the memory that malloc()  *)
(* and free() manage, as one record that the operators of the parser pass  *)
(* on:                                                                     *)
(*                                                                         *)
(*   toks, off  the tokens and the one that is read next                   *)
(*   mem        the nodes; 0 is NULL, a node's number its address          *)
(*   free       the released addresses, the one to be given out next first *)
(*   keeps      whether free() leaves the contents alone                   *)
(*   fresh      __pgensym                                                  *)
(*   ret        the node that the last operation returned                  *)
(*   status     running, refused (a message and exit(1)), crashed, or      *)
(*              unspecified once a node of a stack frame that has ended    *)
(*              is read                                                    *)
(*                                                                         *)
(* Arrays of clauses hold nodes by value: their elements get addresses of  *)
(* their own, which are never released.                                    *)
(***************************************************************************)
EXTENDS Integers, SequencesExt, TLC

(* newnode() *)
Blank == [ntype |-> "UNDEF", otype |-> "OP_UND", sval |-> "", ival |-> 0,
          left |-> 0, right |-> 0, cond |-> 0, clauses |-> <<>>, supress |-> FALSE]

Start(toks, keeps) ==
  [toks |-> toks, off |-> 1, mem |-> <<>>, free |-> <<>>, keeps |-> keeps,
   fresh |-> 1, ret |-> 0, status |-> "running"]

Running(p)  == p.status = "running"
End(p, how) == IF Running(p) THEN [p EXCEPT !.status = how] ELSE p

(* parse_error and tok_error. *)
Refuse(p) == End(p, "refused")

Fill(p, id, fields) == [p EXCEPT !.mem[id] = fields @@ @]
Returns(p, id)      == [p EXCEPT !.ret = id]

(* A place that malloc() does not manage: an element of an array, or a     *)
(* local variable of the C code.                                           *)
Place(p, node) == Returns([p EXCEPT !.mem = Append(@, node)], Len(p.mem) + 1)

(* newnode(malloc(sizeof(node_t))): the address released last comes first. *)
New(p) ==
  IF p.free = <<>> THEN Place(p, Blank)
  ELSE Returns([p EXCEPT !.mem[Head(p.free)] = Blank, !.free = Tail(@)], Head(p.free))

(* free(): unless it leaves the contents alone, it writes its own list     *)
(* over the first fields, the kind of the node among them.                 *)
Free(p, id) ==
  [p EXCEPT !.free = <<id>> \o @,
            !.mem[id].ntype = IF p.keeps THEN @ ELSE "SCRIBBLED"]

(* A local variable goes out of scope. *)
Leave(p, id) == Fill(p, id, [ntype |-> "GONE"])

(* parse_clause_append, parse_make_clauses *)
AppendNode(p, id, node) ==
  [p EXCEPT !.mem = Append([@ EXCEPT ![id].clauses = Append(@, Len(p.mem) + 1)], node)]

(* A new node with these fields. *)
Make(p, fields) == LET n == New(p) IN Fill(n, n.ret, fields)

(* The nodes that were copied into another one are given back. *)
FreeFirstTwice(p, id, other) == Free(Free(p, id), id)
FreeBoth(p, id, other) == Free(Free(p, id), other)

(* A node that turned out not to be needed, and the one to be used instead. *)
UnneededUsed(p, id, instead) == Returns(Free(p, id), id)
Unneeded(p, id, instead) == Returns(Free(p, id), instead)

(* pgensym(): the name is a prefix and a number that no other name has. *)
GensymStuck(p) == p
Gensym(p) == [p EXCEPT !.fresh = @ + 1]
Fresh(p, prefix) == prefix \o ToString(p.fresh)
=============================================================================
