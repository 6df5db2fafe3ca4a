------------------------------ MODULE FrontEnd ------------------------------
(***************************************************************************)
(* The compiler up to the code generator: it parses one expression of the  *)
(* program after the other, prints the tree, rewrites the matches, prints, *)
(* rewrites and, or, prints, and hands the tree on.  Whatever goes wrong   *)
(* ends it.  The compiler is run on one program after the other.           *)
(*                                                                         *)
(* A program is a sequence of items [term, quiet]: quiet ones are followed *)
(* by #; and not printed.                                                  *)
(***************************************************************************)
EXTENDS Meaning

CONSTANTS
  Queues,            \* sequences of programs to be compiled
  Damaged            \* programs that are also compiled with a token missing

VARIABLES
  queue,             \* the programs left, the first one being compiled
  drop,              \* the token that is missing, 0 when none is
  p,                 \* the parser
  stage,             \* what is done next
  verdicts           \* what became of the programs compiled so far

vars == <<queue, drop, p, stage, verdicts>>

Stages == <<"parse", "tree 0", "match", "tree 1", "andor", "tree 2", "generate", "done">>
After(s) == Stages[1 + CHOOSE i \in DOMAIN Stages : Stages[i] = s]

Root == 1

Tokens(program) ==
  FlattenSeq([i \in DOMAIN program |->
                Show(program[i].term) \o (IF program[i].quiet THEN T("SUPRSS") ELSE <<>>)])
    \o T("ENDOFL")

(* The tokens without the i-th one; the lexer reads "()" as one token.     *)
Missing(toks, i) ==
  LET before == SubSeq(toks, 1, i - 1)
      after  == SubSeq(toks, i + 1, Len(toks))
  IN  IF i > 1 /\ toks[i - 1].tok = "LPAREN" /\ toks[i + 1].tok = "RPAREN"
      THEN Front(before) \o T("EMPTYL") \o Tail(after) ELSE before \o after

(* parse(): the node of the whole program is the first one. *)
Begin(toks, keeps) == Make(Start(toks, keeps), [ntype |-> "BEGIN"])

Init ==
  /\ queue \in Queues
  /\ drop \in {0} \cup (IF ToSet(queue) \subseteq Damaged
                       THEN 1..Len(Tokens(Head(queue))) - 1 ELSE {})
  /\ \E keeps \in BOOLEAN :
       p = Begin(IF drop = 0 THEN Tokens(Head(queue)) ELSE Missing(Tokens(Head(queue)), drop), keeps)
  /\ stage = "parse"
  /\ verdicts = <<>>
-----------------------------------------------------------------------------
(* The program that the nodes hold. *)
HeldBy(q) ==
  LET ids == q.mem[Root].clauses
  IN  [i \in DOMAIN ids |-> [term |-> Unfold(q, ids[i]), quiet |-> q.mem[ids[i]].supress]]
Held == HeldBy(p)

(* lfree(): the free names of the body of a lambda, after those found so   *)
(* far.  It does not look into some kinds of nodes, and a name that is     *)
(* bound in the body is forgotten altogether.                              *)
Skipped == {"MULTI", "MUTST", "GLOBL", "DEFFN", "FLOPN", "FLWRT", "FLCLS"}
Names(ts) == {ts[i].s : i \in DOMAIN ts}
RECURSIVE Gathers(_, _)
Gathers(found, t) ==
  LET all == FoldLeft(Gathers, found, t.cls \o t.subs)
  IN  CASE t.kind \in Skipped -> found
        [] t.kind = "VARBL" -> found \cup {t.s}
        [] t.kind = "CALLF" -> all \cup ({t.s} \ {""})
        [] t.kind = "CLOSE" -> Gathers(found, t.subs[1]) \ Names(t.cls)
        [] t.kind = "LETEX" -> all \ Names(t.cls)
        [] OTHER -> all

(* The names in nodes of a kind (VARBL, CALLF, MUTST) for which the        *)
(* generator finds no slot: a let binds each of its names before the value *)
(* is compiled, and a lambda holds every name that lfree has found,        *)
(* whether it means something outside or not.                              *)
RECURSIVE FreeNames(_, _)
FreeNames(t, kind) ==
  LET Within(ts) == UNION {FreeNames(ts[i], kind) : i \in DOMAIN ts}
  IN  CASE t.kind = "CLOSE" -> {}
        [] t.kind = "DEFFN" -> Within(t.subs) \ Names(t.cls)
        [] t.kind = "LETEX" /\ t.cls # <<>> ->
             (Within(t.cls[1].subs) \cup FreeNames([t EXCEPT !.cls = Tail(@)], kind)) \ {t.cls[1].s}
        [] t.kind = kind -> ({t.s} \ {""}) \cup Within(t.cls) \cup Within(t.subs)
        [] OTHER -> Within(t.cls) \cup Within(t.subs)
Misses(lambda, kind) ==
  FreeNames(lambda.subs[1], kind) \ (Names(lambda.cls) \cup Gathers({}, lambda))

RECURSIVE Subterms(_)
Subterms(t) == {t} \cup UNION {Subterms(part) : part \in ToSet(t.cls \o t.subs)}
All(items) == UNION {Subterms(items[i].term) : i \in DOMAIN items}

(* The names that the items define.  The others have to be: a definition   *)
(* where they are called, a definition or a global where they are read,    *)
(* and a global where they are set.  All globals are known in lambdas, in  *)
(* definitions and in expressions, which are compiled behind the values of *)
(* the globals; in these only the globals before.                          *)
NamesOf(items, kind) == {items[i].term.s : i \in {j \in DOMAIN items : items[j].term.kind = kind}}
Closed(items) ==
  LET defs == NamesOf(items, "DEFFN")
      all  == NamesOf(items, "GLOBL")
      Places(globals) == [CALLF |-> defs, VARBL |-> defs \cup globals, MUTST |-> globals \ defs]
      Globals(i) == IF items[i].term.kind = "GLOBL" THEN NamesOf(SubSeq(items, 1, i - 1), "GLOBL")
                    ELSE all
  IN  \A kind \in {"VARBL", "CALLF", "MUTST"} :
        /\ \A i \in DOMAIN items : FreeNames(items[i].term, kind) \subseteq Places(Globals(i))[kind]
        /\ \A t \in All(items) : t.kind = "CLOSE" => Misses(t, kind) \subseteq Places(all)[kind]

(* What the compiled program prints: the value of every item that is not   *)
(* quiet, up to the first one without a value, and how it ends.  The       *)
(* entry code computes the globals first, each of them 0 until then.       *)
Outcome(items, machine) ==
  LET Where(kinds) == SelectSeq([i \in DOMAIN items |-> i], LAMBDA i : items[i].term.kind \in kinds)
      others == {items[i].term.kind : i \in DOMAIN items} \ {"DEFFN", "GLOBL"}
      order == IF machine THEN Where({"GLOBL"}) \o Where(others) ELSE Where({"GLOBL"} \cup others)
      Surroundings(top, defs, i) == [top |-> top, defs |-> defs, machine |-> machine, at |-> <<i>>]
      Definition(s) ==
        LET i == CHOOSE i \in DOMAIN items : items[i].term.kind = "DEFFN" /\ items[i].term.s = s
            t == items[i].term
        IN  Closure([k \in DOMAIN t.cls |-> t.cls[k].s], t.subs[1], <<>>, Surroundings(<<>>, <<>>, i))
      defs == [s \in NamesOf(items, "DEFFN") |-> Definition(s)]
      unset == [s \in NamesOf(items, "GLOBL") |-> IF machine THEN Number(0) ELSE Failure]
      Run(acc, i) ==
        LET t == items[i].term
            v == Value(IF t.kind = "GLOBL" THEN t.subs[1] ELSE t, <<>>, Surroundings(acc.top, defs, i))
        IN  CASE acc.ended # "done" -> acc
              [] v.t = "stop" -> [acc EXCEPT !.ended = v.s]
              [] t.kind = "GLOBL" -> [acc EXCEPT !.top[t.s] = v]
              [] OTHER -> [acc EXCEPT !.out = IF items[i].quiet THEN @ ELSE Append(@, Seen(v))]
      all == FoldLeft(Run, [top |-> unset, ended |-> "done", out |-> <<>>], order)
  IN  [ended |-> all.ended, out |-> all.out]

(* What does more than it is worth: left out of the comparison of values.  *)
Acts(items) ==
  \E t \in All(items) : \/ t.kind \in {"MUTST", "FLOPN", "FLWRT", "FLCLS"}
                        \/ t.op \in {"OP_PRT", "OP_SAP", "BITSHL", "BITSHR"}

(* What became of the program, and what README.md says it prints.          *)
Program == Head(queue)
Verdict == [how  |-> p.status,
            runs |-> IF p.status = "compiled" /\ ~Acts(Program) THEN <<Outcome(Held, TRUE)>> ELSE <<>>,
            says |-> IF Acts(Program) THEN <<>> ELSE <<Outcome(Program, FALSE)>>]

(* The kinds that compile_expr knows, and compile_unary's operations. *)
RECURSIVE Known(_)
Known(t) ==
  /\ t.kind \in Core
  /\ t.op \notin {"OP_AND", "OP_LOR"}
  /\ \A i \in DOMAIN t.cls : Known(t.cls[i])
  /\ \A i \in DOMAIN t.subs : Known(t.subs[i])
-----------------------------------------------------------------------------
(* One round of the loop of parse(): an item, the mark behind it, and its  *)
(* copy among those of the program.                                        *)
TopLevel(n) == ParseExpr(n, n.ret, TRUE)
Marked(q)   == IF Tok(q) = "SUPRSS" THEN Fill(Consume(q), q.ret, [supress |-> TRUE]) ELSE q
Stored(q)   == IF Running(q) THEN AppendNode(q, Root, q.mem[q.ret]) ELSE q
ParseItem ==
  /\ stage = "parse" /\ Running(p) /\ Tok(p) # "ENDOFL"
  /\ p' = Stored(Marked(TopLevel(New(p))))
  /\ UNCHANGED <<queue, drop, stage, verdicts>>

EndParse ==
  /\ stage = "parse" /\ Running(p) /\ Tok(p) = "ENDOFL"
  /\ stage' = After(stage)
  /\ UNCHANGED <<queue, drop, p, verdicts>>

PrintTree ==
  /\ stage \in {"tree 0", "tree 1", "tree 2"} /\ Running(p)
  /\ p' = Prints(p, Root, {})
  /\ stage' = After(stage)
  /\ UNCHANGED <<queue, drop, verdicts>>

RewriteMatches ==
  /\ stage = "match" /\ Running(p)
  /\ p' = Matches(p, Root, {})
  /\ stage' = After(stage)
  /\ UNCHANGED <<queue, drop, verdicts>>

RewriteAndOrs ==
  /\ stage = "andor" /\ Running(p)
  /\ p' = AndOrs(p, Root, {})
  /\ stage' = After(stage)
  /\ UNCHANGED <<queue, drop, verdicts>>

(* A match of a default alone leaves a conditional without an array of     *)
(* clauses, through which lfree goes when it is in a lambda.               *)
LacksClauses ==
  \E t \in All(Held) :
    t.kind = "CLOSE" /\ \E u \in Subterms(t) : u.kind = "CONDE" /\ u.cls = <<>>

(* The code generator stops on a name without a binding and on a node that *)
(* it does not know.                                                       *)
Generate ==
  /\ stage = "generate" /\ Running(p)
  /\ p' = End(p, CASE LacksClauses -> "crashed"
                  [] Closed(Held) /\ \A i \in DOMAIN Held : Known(Held[i].term) -> "compiled"
                  [] OTHER -> "refused")
  /\ stage' = After(stage)
  /\ UNCHANGED <<queue, drop, verdicts>>

(* The next program, in a compiler of its own. *)
NextProgram ==
  /\ ~Running(p) /\ Len(queue) > 1 /\ drop = 0
  /\ verdicts' = Append(verdicts, Verdict)
  /\ queue' = Tail(queue)
  /\ p' = Begin(Tokens(queue[2]), p.keeps)
  /\ stage' = "parse"
  /\ UNCHANGED drop

Next ==
  \/ ParseItem
  \/ EndParse
  \/ PrintTree
  \/ RewriteMatches
  \/ RewriteAndOrs
  \/ Generate
  \/ NextProgram

Spec == Init /\ [][Next]_vars
-----------------------------------------------------------------------------
Parsed == stage = "tree 0" /\ Running(p)

(* Terms with which the compiler releases a node that the tree still       *)
(* holds: that of the first operand of an and, an or, and that of an       *)
(* argument which came back as a node above the one taken for it.          *)
AndOr(t) == t.kind = "IUNOP" /\ t.op \in {"OP_AND", "OP_LOR"}
Above(t) == t.kind = "MULTI" \/ (t.kind = "SUM" /\ Len(t.subs) > 2)
LosesArgument(t) == t.kind = "CALLF" /\ \E i \in DOMAIN t.cls : Above(t.cls[i])

(* Terms that crash it: a question without a variable, and, in a lambda, a *)
(* match whose first clause is the default.                                *)
Crashes(t) ==
  \/ t.kind = "QMARK" /\ t.s = ""
  \/ /\ t.kind = "CLOSE"
     /\ \E u \in Subterms(t) : u.kind = "MATCH" /\ u.cls[1].subs[1] = Default
Nameless == \E i \in 1..Len(p.toks) - 2 : p.toks[i].tok = "QUMARK" /\ p.toks[i + 2].tok = "RPAREN"

(* A lambda in a node that lambdas() and lfree() do not look into has no   *)
(* label, and the names in such a node are not found.                      *)
Hides(t) ==
  \/ t.kind \in Skipped \ {"DEFFN"} /\ \E u \in Subterms(t) : u.kind = "CLOSE"
  \/ t.kind = "CLOSE" /\ \E u \in Subterms(t) : u.kind \in Skipped

(* Terms that the instructions give another value than README.md: a let    *)
(* whose value has the name of the variable, and a quoted symbol.          *)
Makers == {"LQUOT", "LQINT", "LQFLG", "LQSTR", "CQUOT", "QTOPR"}
Departs(t) ==
  \/ t.kind = "BINDE" /\ \E u \in Subterms(t.subs[1]) : u.kind \in {"VARBL", "CALLF"} /\ u.s = t.s
  \/ t.kind = "QTOPR" /\ \E u \in Subterms(t.subs[1]) : u.kind \in Makers

Intact    == drop = 0
Releasing == \E t \in All(Program) : AndOr(t) \/ LosesArgument(t)
Hiding    == \E t \in All(Program) : Hides(t)

(* The nodes that the passes reach, and whether they go round in a circle. *)
ReadKids(id) == IF p.mem[id].ntype \in DOMAIN Walks THEN Kids(p, id) ELSE <<>>
RECURSIVE Below(_, _), Circles(_, _)
Below(id, up) ==
  IF id \in up THEN {id}
  ELSE {id} \cup UNION {Below(kid[2], up \cup {id}) : kid \in ToSet(ReadKids(id))}
Circles(id, up) ==
  id \in up \/ \E kid \in ToSet(ReadKids(id)) : Circles(kid[2], up \cup {id})

(* The state of the parser is one it can be in; the token after the last   *)
(* is never read, and no node is released twice.                           *)
TypeOK ==
  /\ stage \in ToSet(Stages)
  /\ p.status \in {"running", "refused", "crashed", "unspecified", "compiled"}
  /\ p.off \in DOMAIN p.toks
  /\ ToSet(p.free) \subseteq DOMAIN p.mem /\ IsInjective(p.free) /\ Root \notin ToSet(p.free)
  /\ \A id \in DOMAIN p.mem :
       LET node == p.mem[id]
       IN  /\ {node.left, node.right, node.cond} \subseteq DOMAIN p.mem \cup {0}
           /\ ToSet(node.clauses) \subseteq DOMAIN p.mem

(* What parse() builds is the tree of the program (README.md:64), for      *)
(* every nesting of its parts: no operand is lost, taken twice or hung     *)
(* under the wrong node when nodes come back above the given ones.         *)
ReadsBack ==
  Parsed /\ Intact /\ ~Releasing =>
    Held = [i \in DOMAIN Program |-> [Program[i] EXCEPT !.term = Meant(@)]]

(* A program without the terms above is compiled: no pass meets a node it  *)
(* does not know, and every name the passes make is bound where it is      *)
(* used.                                                                   *)
Accepts ==
  Intact /\ ~Releasing /\ ~Hiding /\ ~(\E t \in All(Program) : Crashes(t))
    => p.status \in {"running", "compiled"}

(* No node of the tree is one that free() was given or a local variable of *)
(* a function that has returned (parse.c:563, 736, 858, 2073), and none is *)
(* below itself, as one would be that is given out again while the tree    *)
(* holds it.                                                               *)
Live == /\ \A id \in Below(Root, {}) : id \notin ToSet(p.free) /\ p.mem[id].ntype # "GONE"
        /\ ~Circles(Root, {})
NoStale == Running(p) /\ Intact /\ ~Releasing => Live

(* The names and literals among tokens. *)
Written == {"IDENTF", "NUMLIT", "STRLIT", "SYMBOL", "BVTRUE", "BVFALS", "MTCHDF"}
WrittenIn(toks) == SelectSeq(toks, LAMBDA token : token.tok \in Written)

(* A program in which a token is missing is refused with a message, or it  *)
(* is read as another program, none of whose names and literals is dropped *)
(* or put elsewhere (parse_want, parse.c:1342); no pass crashes on it,     *)
(* unless a question has lost its name.                                    *)
ReadsOrRefuses ==
  ~Releasing =>
    /\ p.status \in {"crashed", "unspecified"} => Nameless
    /\ Parsed /\ Live => WrittenIn(Tokens(Held)) = WrittenIn(p.toks)

(* A compiled program prints what its source means, the emitted arithmetic *)
(* and the names made by the passes included; and, or are covered wherever *)
(* they are compiled at all.  Left out are, besides the terms above, the   *)
(* programs in which a list? never ends (compile.c:1203), and those in     *)
(* which length is given what is no list (README.md:243).                  *)
KeepsMeaning ==
  /\ p.status = "compiled" /\ Intact
  /\ ~Acts(Program) /\ ~Hiding
  /\ ~(\E t \in All(Program) : LosesArgument(t) \/ Departs(t))
  => LET runs == Outcome(Held, TRUE)
         says == Outcome(Program, FALSE)
     IN  runs.ended = "loops" \/ says.ended = "length" \/ runs = says

(* parse_match and parse_andor keep the meaning of the tree they are       *)
(* given, right or wrong.                                                  *)
PassesKeepMeaning ==
  [][/\ stage \in {"match", "andor"} /\ stage' = After(stage)
     /\ Running(p') /\ Intact /\ ~Acts(Program)
     => \A q \in {p'} : Outcome(HeldBy(q), FALSE) = Outcome(Held, FALSE)]_vars

(* Every program is compiled and prints what README.md says.               *)
AsDocumented ==
  ~Running(p) /\ Len(queue) = 1 =>
    \A verdict \in ToSet(Append(verdicts, Verdict)) : verdict.how = "compiled" /\ verdict.runs = verdict.says
=============================================================================
