------------------------------ MODULE Meaning -------------------------------
(***************************************************************************)
(* What an expression evaluates to.  Of a program it is what README.md     *)
(* promises (Operations, Constructors, Binding and Conditionals): integers *)
(* are numbers, a sum is taken from the left, a match takes its first      *)
(* clause that fits.  Of the tree that the front end hands to the code     *)
(* generator it is what the emitted instructions compute, on words; names  *)
(* are taken to be read where they are bound (see Scoping).                *)
(*                                                                         *)
(* A value that is a pointer has the place of the evaluation that          *)
(* allocated it, `at`: the way down the program from its item.             *)
(*                                                                         *)
(* Left out: printing, files, set! and symbol-append, which act beyond the *)
(* value of the expression.                                                *)
(***************************************************************************)
EXTENDS Programs, Arithmetic

Val(t, n, s, kids) == [t |-> t, n |-> n, s |-> s, kids |-> kids, at |-> <<>>]
Number(n)   == Val("int", n, "", <<>>)
Truth(b)    == Val("flag", IF b THEN 1 ELSE 0, "", <<>>)
Empty       == Val("nil", 0, "", <<>>)

(* The surroundings of an evaluation, at its place; the i-th part of it.   *)
At(g, i)         == [g EXCEPT !.at = Append(@, i)]
Made(t, kids, g) == [Val(t, 0, "", kids) EXCEPT !.at = g.at]
Spell(t, s, g)   == [Val(t, 0, s, <<>>) EXCEPT !.at = g.at]
Closure(vs, body, env, g) == Made("proc", <<>>, g) @@ [vs |-> vs, body |-> body, env |-> env]

(* What is printed of it. *)
RECURSIVE Seen(_)
Seen(v) == Val(v.t, v.n, v.s, [i \in DOMAIN v.kids |-> Seen(v.kids[i])])

(* Physical equality: of flat values, and of pointers to one allocation    *)
(* that have one tag.                                                      *)
Immediate  == {"int", "flag", "nil"}
Same(a, b) == a.t = b.t /\ (IF a.t \in Immediate THEN a.n = b.n ELSE a.at = b.at)

(* An evaluation without a value: "error", a failed assertion or a fault;  *)
(* "length", the assertion that the operand of length is a list;           *)
(* "loops", instructions that never end.                                   *)
Stop(why) == Val("stop", 0, why, <<>>)
Failure   == Stop("error")
Stops(vs) == SelectSeq(vs, LAMBDA v : v.t = "stop")

(* What the operands come to: the value, unless one of them has stopped.   *)
Ends(vs, v) == IF Stops(vs) = <<>> THEN v ELSE Head(Stops(vs))

(* A quoted value; a symbol is left alone by the instructions.             *)
Wrapped(v, g) == Ends(<<v>>, Made("symbol", <<v>>, g))
Quote(v, g)   == IF g.machine /\ v.t = "symbol" THEN v ELSE Wrapped(v, g)

(* A cell for each of the values, the last one first. *)
Chain(vs, end, g) ==
  FoldRight(LAMBDA i, rest : Made("cons", <<vs[i], rest>>, At(At(g, 0), i)),
            [i \in DOMAIN vs |-> i], end)

(* The parts of a quoted list in the order in which they are evaluated:    *)
(* the last element, the end of the list, then the other elements          *)
(* backwards.                                                              *)
Backwards(vs) ==
  LET n == Len(vs)
  IN  IF n < 2 THEN vs ELSE SubSeq(vs, n - 1, n) \o Reverse(SubSeq(vs, 1, n - 2))

Checked(check, v) ==
  CASE check = "CHKINT" -> v.t = "int"
    [] check \in {"CHKFLG", "CHKBOO"} -> v.t = "flag"
    [] check = "CHKELS" -> v.t = "nil"
    [] check = "CHKCNS" -> v.t = "cons"
    [] check = "CHKLST" -> v.t \in {"cons", "nil"}
    [] check = "CHKBOX" -> v.t = "box"
    [] check = "CHKSTR" -> v.t = "string"
    [] check = "CHKSYM" -> v.t = "symbol"
    [] check = "CHKPRC" -> v.t = "proc"
    [] OTHER -> FALSE

(* list? goes round and round when the value is no cons: it has the flag   *)
(* it is to return in RAX when it looks at the value again.                *)
Asks(check, v, machine) ==
  IF machine /\ check = "CHKLST" /\ v.t # "cons" THEN Stop("loops") ELSE Truth(Checked(check, v))

Integral   == {"OP_ABS", "OP_NEG", "OP_INC", "OP_DEC", "CMP_ZR", "OP_ADD", "OP_SUB", "OP_MUL",
               "OP_DIV", "OP_MOD", "BITAND", "BITLOR", "BITXOR", "CMP_GT", "CMP_GE", "CMP_LE", "CMP_LT"}
Comparison == {"CMP_GT", "CMP_GE", "CMP_LE", "CMP_LT"}
-----------------------------------------------------------------------------
(* The integer operations as README.md describes them. *)
Numeric(op, a, b) ==
  CASE op = "OP_ABS" -> Number(IF a < 0 THEN -a ELSE a)
    [] op = "OP_NEG" -> Number(-a)
    [] op = "OP_INC" -> Number(a + 1)
    [] op = "OP_DEC" -> Number(a - 1)
    [] op = "CMP_ZR" -> Truth(a = 0)
    [] op = "OP_ADD" -> Number(a + b)
    [] op = "OP_SUB" -> Number(a - b)
    [] op = "OP_MUL" -> Number(a * b)
    [] op = "OP_DIV" -> Number(a \div b)
    [] op = "OP_MOD" -> Number(a % b)
    [] op = "CMP_GT" -> Truth(a > b)
    [] op = "CMP_GE" -> Truth(a >= b)
    [] op = "CMP_LE" -> Truth(a <= b)
    [] op = "CMP_LT" -> Truth(a < b)
    [] op = "BITAND" -> Number(a & b)
    [] op = "BITLOR" -> Number(a | b)
    [] op = "BITXOR" -> Number(a ^^ b)

(* The integer operations as the instructions compute them. *)
OnWords(op, a, b) ==
  CASE op \in Comparison -> Truth(Compared(op, Word(a), Word(b)))
    [] op = "CMP_ZR" -> Truth(Word(a) = 0)
    [] op \in {"OP_ABS", "OP_NEG", "OP_INC", "OP_DEC"} -> Number(Integer(EmittedUnary(op, Word(a))))
    [] Faults(op, Word(a), Word(b)) -> Failure
    [] OTHER -> Number(Integer(Emitted(op, Word(a), Word(b))))

RECURSIVE Length(_)
Length(v) == IF v.t = "cons" THEN 1 + Length(v.kids[2]) ELSE 0

(* What is asserted of an operand, as soon as it has been evaluated; that  *)
(* the operand of length is a list is asserted by README.md alone.         *)
Asserted(op, v, machine) ==
  LET Of(types) == IF v.t \in types \cup {"stop"} THEN v ELSE Failure
  IN  CASE op \in Integral -> Of({"int"})
        [] op = "OP_NOT" -> Of({"flag"})
        [] op \in {"OP_CAR", "OP_CDR"} -> Of({"cons"})
        [] op = "OP_UBX" -> Of({"box"})
        [] op = "CMP_RE" -> Of({"string"})
        [] op = "CMP_SE" -> Of({"symbol"})
        [] op = "OP_LEN" -> IF machine \/ v.t \in {"cons", "nil", "stop"} THEN v ELSE Stop("length")
        [] OTHER -> v

(* The operations, when all is as asserted. *)
Computed(op, a, b, g) ==
  CASE op \in Integral -> IF g.machine THEN OnWords(op, a.n, b.n) ELSE Numeric(op, a.n, b.n)
    [] op \in Questions -> Asks(op, a, g.machine)
    [] op = "CMP_EQ" -> Truth(Same(a, b))
    [] op = "CMP_NE" -> Truth(~Same(a, b))
    [] op = "OP_NOT" -> Truth(a.n = 0)
    [] op = "OP_CNS" -> Made("cons", <<a, b>>, g)
    [] op = "OP_BOX" -> Made("box", <<a>>, g)
    [] op = "OP_LEN" -> Number(Length(a))
    [] op = "OP_CDR" -> a.kids[2]
    [] op \in {"OP_CAR", "OP_UBX"} -> a.kids[1]
    [] op = "CMP_RE" -> Truth(a.s = b.s)
    [] op = "CMP_SE" -> Truth(a.s = b.s /\ a.kids = <<>> /\ b.kids = <<>>)

(* compile_unary, compile_binary, compile_compare. *)
Operate(op, vs, g) ==
  LET asserted == [i \in DOMAIN vs |-> Asserted(op, vs[i], g.machine)]
  IN  IF Stops(asserted) # <<>> THEN Head(Stops(asserted))
      ELSE Computed(op, vs[1], vs[Len(vs)], g)
-----------------------------------------------------------------------------
(* The value of a term where `env` has the values of its variables, g.top  *)
(* those of the globals and g.defs the definitions; g.at is the place of   *)
(* the evaluation, and g.machine tells the emitted instructions from the   *)
(* documentation.  The instructions allocate the closure of a definition   *)
(* each time.                                                              *)
Named(s, env, g) ==
  CASE s \in DOMAIN env -> env[s]
    [] s \notin DOMAIN env /\ s \in DOMAIN g.defs ->
         IF g.machine THEN [g.defs[s] EXCEPT !.at = g.at] ELSE g.defs[s]
    [] OTHER -> g.top[s]

(* What a name calls: no variable hides a definition. *)
Called(s, env, g) == IF s \in DOMAIN g.defs THEN g.defs[s] ELSE Named(s, env, g)

RECURSIVE Value(_, _, _), Applied(_, _, _), Fits(_, _, _, _), Chosen(_, _, _, _)

Applied(f, vs, g) ==
  IF f.t # "proc" \/ Len(f.vs) # Len(vs) THEN Failure
  ELSE Value(f.body, [v \in ToSet(f.vs) |-> vs[CHOOSE i \in DOMAIN vs : f.vs[i] = v]] @@ f.env,
             At(g, 0))

Unquoted(v) == IF v.kids = <<>> THEN v ELSE v.kids[1]

(* Whether a value matches a pattern. *)
Fits(pat, v, env, g) ==
  LET In(i, part) == Fits(pat.subs[i], part, env, g)
      list == v.t = "cons"
  IN  CASE pat.kind \in {"DEFLT", "VARBL"} -> TRUE
        [] pat.kind = "QMARK" ->
             IF pat.op \in Questions THEN Checked(pat.op, v)
             ELSE Applied(Called(pat.op, env, g), <<v>>, At(g, 1)) = Truth(TRUE)
        [] pat.kind = "LIST" ->
             IF pat.subs = <<>> THEN v.t = "nil"
             ELSE list /\ In(1, v.kids[1]) /\ Fits([pat EXCEPT !.subs = Tail(@)], v.kids[2], env, g)
        [] pat.op = "OP_CNS" -> list /\ In(1, v.kids[1]) /\ In(2, v.kids[2])
        [] pat.op = "OP_BOX" -> v.t = "box" /\ In(1, v.kids[1])
        [] pat.kind = "UQOPR" -> v.t = "symbol" /\ In(1, Unquoted(v))
        [] OTHER -> Seen(v) = Seen(Value(pat, env, g))

(* The names that a pattern gives to the parts of a value it fits. *)
RECURSIVE Caught(_, _)
Caught(pat, v) ==
  CASE pat.kind = "VARBL" -> (pat.s :> v)
    [] pat.kind = "QMARK" -> IF pat.s = "" THEN <<>> ELSE (pat.s :> v)
    [] pat.kind = "LIST"  -> IF pat.subs = <<>> THEN <<>>
                             ELSE Caught(pat.subs[1], v.kids[1])
                                  @@ Caught([pat EXCEPT !.subs = Tail(@)], v.kids[2])
    [] pat.op = "OP_CNS"  -> Caught(pat.subs[1], v.kids[1]) @@ Caught(pat.subs[2], v.kids[2])
    [] pat.op = "OP_BOX"  -> Caught(pat.subs[1], v.kids[1])
    [] pat.kind = "UQOPR" -> Caught(pat.subs[1], Unquoted(v))
    [] OTHER -> <<>>

(* The first clause of a match that fits; without one the program fails.   *)
Chosen(cases, v, env, g) ==
  IF cases = <<>> THEN Failure
  ELSE LET pat == Head(cases).subs[1]
       IN  IF Fits(pat, v, env, g)
           THEN Value(Head(cases).subs[2], Caught(pat, v) @@ env, At(g, 2))
           ELSE Chosen(Tail(cases), v, env, At(g, 0))

(* A conditional, whose test has to be a flag; and, or stop at the first   *)
(* operand that decides.                                                   *)
Decides(v, yes, no) ==
  CASE v = Truth(TRUE) -> yes [] v = Truth(FALSE) -> no [] OTHER -> Ends(<<v>>, Failure)

(* The clauses and the operands of and, or are taken one by one, the       *)
(* others being the part 0.  The instructions of a let give a variable its *)
(* slot, with a zero in it, before its value is computed.                  *)
Value(t, env, g) ==
  LET Sub(i) == Value(t.subs[i], env, At(g, Len(t.cls) + i))
      Operands  == [i \in DOMAIN t.subs |-> Sub(i)]
      Arguments == [i \in DOMAIN t.cls |-> Value(t.cls[i], env, At(g, i))]
      First     == Value(t.cls[1], env, At(g, 1))
      Part(i, e) == Value(t.cls[1].subs[i], e, At(g, i))
      Others(e) == Value([t EXCEPT !.cls = Tail(@)], e, At(g, 0))
      With(v)   == (t.cls[1].s :> v) @@ env
      Then(v, w) == IF v.t = "stop" THEN v ELSE w
  IN  CASE t.kind = "INTEG" -> Number(t.n)
        [] t.kind = "BOOLV" -> Truth(t.n = 1)
        [] t.kind = "ELIST" -> Empty
        [] t.kind = "STRNG" -> Spell("string", t.s, g)
        [] t.kind = "LQUOT" -> Spell("symbol", t.s, g)
        [] t.kind = "LQINT" -> Wrapped(Number(t.n), g)
        [] t.kind = "LQFLG" -> Wrapped(Truth(t.n = 1), g)
        [] t.kind = "LQSTR" -> Wrapped(Spell("string", t.s, g), g)
        [] t.kind = "QTOPR" -> Quote(Sub(1), g)
        [] t.kind = "UQOPR" -> IF Sub(1).t = "symbol" THEN Unquoted(Sub(1)) ELSE Ends(Operands, Failure)
        [] t.kind = "CQUOT" -> Ends(Backwards(Arguments),
                                    Wrapped(Chain(Front(Arguments), Last(Arguments), g), g))
        [] t.kind = "VARBL" -> Named(t.s, env, g)
        [] t.kind = "CLOSE" -> Closure([i \in DOMAIN t.cls |-> t.cls[i].s], t.subs[1], env, g)
        [] t.kind = "MULTI" -> Then(Sub(1), Sub(2))
        [] t.kind = "IFEXP" -> Decides(Sub(1), Sub(2), Sub(3))
        [] t.kind = "CONDE" -> IF t.cls = <<>> THEN Sub(1)
                               ELSE Decides(Part(1, env), Part(2, env), Others(env))
        [] t.kind = "LETEX" -> IF t.cls = <<>> THEN Sub(1)
                               ELSE LET v == Part(1, IF g.machine THEN With(Number(0)) ELSE env)
                                    IN  Then(v, Others(With(v)))
        [] t.kind = "CALLF" ->
             LET f == IF t.subs = <<>> THEN Called(t.s, env, g) ELSE Sub(1)
             IN  IF Stops(<<f>> \o Arguments) # <<>> THEN Ends(<<f>> \o Arguments, f)
                 ELSE Applied(f, Arguments, g)
        [] t.kind = "MATCH" -> Then(Sub(1), Chosen(t.cls, Sub(1), env, At(g, 0)))
        [] t.kind = "LIST"  -> Ends(Operands, Chain(Operands, Empty, g))
        [] t.op \in {"OP_AND", "OP_LOR"} ->
             IF t.cls = <<>> THEN Truth(t.op = "OP_AND")
             ELSE IF t.op = "OP_AND" THEN Decides(First, Others(env), Truth(FALSE))
             ELSE Decides(First, Truth(TRUE), Others(env))
        [] t.kind = "SUM" /\ Len(t.subs) = 1 ->
             Operate(IF t.op = "OP_SUB" THEN "OP_NEG" ELSE "OP_ABS", Operands, g)
        [] t.kind = "SUM" ->
             FoldLeft(LAMBDA v, w : Operate(t.op, <<v, w>>, g), Operands[1], Tail(Operands))
        [] OTHER -> Operate(t.op, Operands, g)
=============================================================================
