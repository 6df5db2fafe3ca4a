---------------------------- MODULE MCGenerator ----------------------------
(***************************************************************************)
(* The programs that TLC walks over.                                       *)
(***************************************************************************)
EXTENDS Scoping

CONSTANTS x, y, f, g, binary1

ItemOf(kind, name, params, body) ==
  [kind |-> kind, name |-> name, params |-> params, body |-> body]
Expression(body) == ItemOf("expr", NoName, <<>>, body)

(* One node above the given ones. *)
Lets(A, B)    == {Let(<<n>>, <<a>>, b) : n \in {x, y}, a \in A, b \in B}
Closes(A)     == {Close(ns, a) : ns \in {<<>>, <<x>>, <<y>>}, a \in A}
Binaries(A)   == {Binary(a, b) : a \in A, b \in A}
Calls(ns, A)  == {CallF(n, <<a>>) : n \in ns, a \in A}

(* A lambda in the scope of x, with formals y, two more operators deep: it *)
(* binds x and y again, captures them, and holds lambdas that do.          *)
Leaves == {Integ, Varbl(x), Varbl(y)}
Shallow == Leaves \cup Lets({Integ, Varbl(x)}, Leaves) \cup Closes(Leaves)
             \cup Binaries(Leaves) \cup Calls({x}, {Integ, Varbl(y)})
Bodies == Binaries(Shallow) \cup Lets(Shallow, Shallow) \cup Closes(Shallow)
            \cup {Let(<<x, y>>, <<a, b>>, c) : a \in Leaves, b \in Leaves, c \in Shallow}
Scoped == {<<Expression(Let(<<x>>, <<Integ>>, Close(<<y>>, b)))>> : b \in Bodies}
            \cup {<<Expression(Close(<<x, y>>, b))>> : b \in Closes(Shallow)}

(* A definition f and a global g around branches, sequences, assignments   *)
(* and calls.                                                              *)
Inner == {Integ, Varbl(x), Varbl(g), Varbl(f), CallF(f, <<Integ>>), CallF(x, <<Integ, Integ>>),
          MutSt(g, CallF(f, <<Integ>>)), MutSt(x, Integ), MutSt(f, Integ), MutSt(y, Integ),
          Close(<<y>>, Varbl(x)), Close(<<>>, Varbl(g)), Close(<<>>, CallF(f, <<Varbl(x)>>)),
          Close(<<>>, MutSt(x, Integ)), MutSt(g, Close(<<>>, Integ)),
          CallE(Close(<<x>>, CallF(f, <<Varbl(x)>>)), <<CallF(f, <<Integ>>)>>)}
Defining == {IfExp(a, b, c) : a \in {Varbl(x), CallF(f, <<Integ>>)}, b \in Inner, c \in Inner}
              \cup {Cond(<<a, b>>, c) : a \in {CallF(f, <<Integ>>)}, b \in Inner, c \in Inner}
              \cup {Cond(<<Varbl(x), a, a, b>>, Integ) : a \in Inner, b \in {CallF(f, <<Integ>>)}}
              \cup {FileOp(a) : a \in Inner}
              \cup {Multi(a, b) : a \in Inner, b \in Inner}
              \cup {Let(<<y>>, <<a>>, b) : a \in Inner, b \in Inner}
              \cup {Unary(a) : a \in Inner} \cup Binaries(Inner)
Definitions ==
  {<<ItemOf("deffn", f, <<x>>, d), ItemOf("globl", g, <<>>, v), Expression(Varbl(g))>> :
     d \in Defining, v \in {Integ, CallF(f, <<Integ>>)}}
    \cup {<<Expression(Varbl(g)), ItemOf("globl", g, <<>>, Close(<<>>, Integ))>>,
          <<Expression(Varbl(g)), ItemOf("globl", g, <<>>, Integ)>>,
          <<ItemOf("globl", g, <<>>, Varbl(g))>>,
          <<Expression(CallF(g, <<>>)), ItemOf("globl", g, <<>>, Integ)>>}

(* A let or a lambda that has a name of the definition or of the global,   *)
(* around a lambda that reads it, or around an assignment of it; and a     *)
(* lambda with two formals of one name.                                    *)
Hidden(n) == {Varbl(n), MutSt(n, Integ), CallF(n, <<Integ>>), Multi(Varbl(n), Integ), Binary(Varbl(n), Varbl(x))}
Hiding ==
  {<<ItemOf("deffn", f, <<x>>, Let(<<n>>, <<a>>, b)), ItemOf("globl", g, <<>>, Integ),
     Expression(Let(<<n>>, <<Integ>>, b))>> :
     n \in {f, g, x}, a \in {Integ, Varbl(f)},
     b \in UNION {Hidden(m) \cup Closes(Hidden(m)) : m \in {f, g}}}
    \cup {<<Expression(Close(<<x, x, y>>, a))>> : a \in Leaves}
    \cup {<<ItemOf("deffn", f, <<x>>, Close(<<y>>, b))>> :
            b \in Binaries(Leaves \cup Lets({Varbl(x)}, {Varbl(x)})) \cup Closes(Leaves)}
    \cup {<<ItemOf("deffn", f, <<x>>, Varbl(x)), ItemOf("globl", f, <<>>, Integ), Expression(a)>> :
            a \in Hidden(f) \cup Closes(Hidden(f))}

(* Operations that open scopes of their own, in the places of a program    *)
(* where a scope left open is met, around what reads and calls, and in     *)
(* each other; a quoted list of three and one of four.                     *)
Operands == {Varbl(x), Strng, CallF(f, <<Integ>>), Close(<<y>>, Varbl(x))}
Opening(A) ==
  {Strng, QuotedStrng} \cup {BoxOp(a) : a \in A} \cup {Pair(a, b) : a \in A, b \in A}
    \cup {Quoted(<<a>>, b) : a \in A, b \in A}
    \cup {Quoted(<<a, Varbl(x), b>>, Integ) : a \in A, b \in A}
Opened ==
  {<<ItemOf("deffn", f, <<x>>, d), Expression(Let(<<x>>, <<d>>, CallF(f, <<a>>)))>> :
     d \in Opening(Operands), a \in {Strng, QuotedStrng}}
    \cup {<<ItemOf("deffn", f, <<x>>, d)>> :
            d \in Opening(Opening({Varbl(x), CallF(f, <<Integ>>)}))
                   \cup {Multi(a, b) : a \in Opening(Operands), b \in Operands}}
    \cup {<<Expression(Close(<<x, y>>, a))>> : a \in Opening(Leaves)}

(* A variable, a formal, a parameter, a definition or a global that has    *)
(* the name of a temporary, read, captured, set and called inside of the   *)
(* operation and outside of it.                                            *)
Named == {Varbl(binary1), MutSt(binary1, Integ), CallF(binary1, <<Integ>>)}
Around(A) == A \cup {Binary(a, Integ) : a \in A} \cup {Pair(Integ, a) : a \in A}
Sharing == Around(Named \cup Closes(Named) \cup {Let(<<binary1>>, <<a>>, b) : a, b \in Named})
Within(a) == {Close(<<>>, a), Let(<<y>>, <<Integ>>, a), a}
Labelled ==
  {<<Expression(Let(<<binary1>>, <<Integ>>, Binary(a, b)))>> : a \in Sharing, b \in Named}
    \cup {<<ItemOf("deffn", f, <<binary1>>, a)>> : a \in UNION {Within(b) : b \in Sharing}}
    \cup {<<ItemOf(kind, binary1, <<>>, Integ), Expression(a)>> : kind \in {"deffn", "globl"},
             a \in UNION {Within(b) : b \in Sharing}}
    \cup {<<Expression(a)>> : a \in Sharing}

MCPrograms == Scoped \cup Definitions \cup Hiding \cup Opened \cup Labelled

(* The trees of the programs and all that is in them, by height.  TLC keeps *)
(* the value of ByHeight, which a configuration's `<-` would otherwise have *)
(* it compute again each time.                                             *)
RECURSIVE WithKids(_), Rising(_, _)
WithKids(trees) ==
  IF trees = {} THEN {} ELSE trees \cup WithKids(UNION {ToSet(tree.kids) : tree \in trees})
Rising(level, trees) ==
  LET next == {tree \in trees : ToSet(tree.kids) \subseteq level}
  IN  IF next = level THEN <<>> ELSE <<next>> \o Rising(next, trees)

ByHeight == Rising({}, WithKids(UNION {{p[i].body : i \in DOMAIN p} : p \in MCPrograms}))
MCLevels == ByHeight
=============================================================================
