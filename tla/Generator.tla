----------------------------- MODULE Generator -----------------------------
(***************************************************************************)
(* The walk of the code generator over a program (compile.c): which slot   *)
(* each name is read from, what each lambda captures, and which calls      *)
(* become jumps.                                                           *)
(*                                                                         *)
(* A step is one call of compile_expr, or one operation on the definition  *)
(* table; `todo` is what the generator still has to do, the C stack of     *)
(* compile_expr and the loops of compile() in one sequence.  compile()     *)
(* takes the lambdas first, then the definitions, then the rest.           *)
(*                                                                         *)
(* A holder says whose word a slot holds when the emitted code runs: a     *)
(* variable of a let or a lambda, a parameter of a definition, a captured  *)
(* word by its place in the environment, or a temporary.                   *)
(***************************************************************************)
EXTENDS Lexicon, Trees

CONSTANTS
  Levels,     \* the trees in the programs, up to a height of 1, 2, ...
  Programs,   \* sequences of items [kind, name, params, body]
  Temporary,  \* the labels of asterisks that the generator binds: "*", "***ra", ...
  Labels      \* the labels "binary<N>" that it binds, which are names like others

Trees == Levels[Len(Levels)]
Item == [kind : {"expr", "deffn", "globl"}, name : Names \cup {NoName},
         params : Seq(Names), body : Trees]

ASSUME GeneratorAssumption ==
  /\ Temporary \in Names /\ Labels \subseteq Names
  /\ Levels \in Seq(SUBSET Trees) /\ Levels # <<>>
  /\ \A tree \in Trees :
       /\ tree \in [kind : Kinds, name : Names \cup {NoName}, names : Seq(Names),
                    kids : Seq(Trees)]
       /\ tree.kind \in {"varbl", "callf", "mutst"} => tree.name \in Names
       /\ WellFormed(tree)
  /\ \A h \in DOMAIN Levels :
       LET below == IF h = 1 THEN {} ELSE Levels[h - 1]
       IN  \A tree \in Levels[h] : ToSet(tree.kids) \subseteq below
  /\ \A program \in Programs :
       /\ program \in Seq(Item)
       /\ \A i \in DOMAIN program : program[i].kind # "expr" => program[i].name \in Names

VARIABLES
  prog,       \* the items of the program
  todo,       \* what is still to be done, first things first
  outer,      \* the lexicon of compile(), while a lambda has its own
  globals,    \* the globals that may be named here
  tail,       \* __tail__
  unit,       \* the path of the lambda being compiled, or <<>>
  slots,      \* slot -> holder
  found,      \* path of a name that is read or set -> where it is found
  captured,   \* path of a lambda -> the holders of its environment
  jumps,      \* path of a call -> compiled as a tail call
  status

history == <<found, captured, jumps>>
place   == <<prog, outer, globals, unit>>
vars    == <<place, todo, table, tail, slots, history, status>>

(* A path starts with the number of an item; numbers of kids follow.       *)
NodeIn(items, path) ==
  LET walk[n \in 1 .. Len(path)] ==
        IF n = 1 THEN items[path[1]].body ELSE walk[n - 1].kids[path[n]]
  IN  walk[Len(path)]

NodeAt(path) == NodeIn(prog, path)

NamesOf(kind) == {prog[i].name : i \in {j \in DOMAIN prog : prog[j].kind = kind}}
Defined       == NamesOf("deffn")

(* A function with one more value, or with another one. *)
With(f, x, value) == [y \in DOMAIN f \cup {x} |-> IF y = x THEN value ELSE f[y]]

(* Holders. *)
Held(by, at, i) == <<by, at, i>>
Temp            == Held("temporary", <<>>, 0)
Definition      == Held("definition", <<>>, 0)
Global          == Held("global", <<>>, 0)
Unbound         == Held("unbound", <<>>, 0)
-----------------------------------------------------------------------------
(* What neither lambdas() nor lfree() looks into. *)
Skipped == {"mutst", "multi", "fileop"}

(* lambdas(): the paths of the lambdas that get a label, and so code of    *)
(* their own, below a node and the path to it; none in what it skips, nor  *)
(* in the values of globals.                                               *)
Lambdas[node \in Trees] ==
  [path \in Seq(Nat) |->
     IF node.kind \in Skipped THEN <<>>
     ELSE (IF node.kind = "close" THEN <<path>> ELSE <<>>)
            \o FlattenSeq([k \in DOMAIN node.kids |->
                            Lambdas[node.kids[k]][Append(path, k)]])]

(* What there is for each item of a kind, in the order of the items.       *)
ForEach(kind, things) ==
  FlattenSeq([i \in DOMAIN prog |-> IF prog[i].kind = kind THEN things[i] ELSE <<>>])

AllLambdas ==
  FlattenSeq([i \in DOMAIN prog |->
    IF prog[i].kind = "globl" THEN <<>> ELSE Lambdas[prog[i].body][<<i>>]])

(* A mutant: the names that stay come in reverse order. *)
UnbindReversed(scope, names) ==
  LET vars_ == scope.vars
      kept[n \in 0 .. Len(vars_)] ==
        IF n = 0 THEN NewScope(1)
        ELSE LET name == vars_[Len(vars_) + 1 - n].name
             IN  IF name \in names THEN kept[n - 1] ELSE SBind(kept[n - 1], name)
  IN  kept[Len(vars_)]

Unbind(scope, names) ==
  LET kept[n \in 0 .. Len(scope.vars)] ==
        IF n = 0 THEN NewScope(1)
        ELSE LET name == scope.vars[n].name
             IN  IF name \in names THEN kept[n - 1] ELSE SBind(kept[n - 1], name)
  IN  kept[Len(scope.vars)]

(* lfree(): the names a tree leaves free, in one scope that the whole walk *)
(* shares, so that leaving a let or a lambda forgets its names even where  *)
(* they were met outside of it.                                            *)
LeavesFree(node, scope, below) ==
  CASE node.kind \in Skipped -> scope
    [] node.kind = "varbl" -> SBind(scope, node.name)
    [] node.kind \in {"letex", "close"} -> Unbind(below, ToSet(node.names))
    [] node.kind = "callf" /\ node.name \notin Defined -> SBind(below, node.name)
    [] OTHER -> below

(* From kid to kid with the one scope. *)
Through(f, kids, scope) ==
  LET walk[k \in 0 .. Len(kids)] == IF k = 0 THEN scope ELSE f[kids[k]][walk[k - 1]]
  IN  walk[Len(kids)]

LFree[node \in Trees] ==
  [scope \in Scope |-> LeavesFree(node, scope, Through(LFree, node.kids, scope))]

FreeNames(node) ==
  LET vs == LFree[node][NewScope(1)].vars IN [i \in DOMAIN vs |-> vs[i].name]
-----------------------------------------------------------------------------
(* Things to do. *)
Todo(do, at, name, n) == [do |-> do, at |-> at, name |-> name, n |-> n]
Expr(path)      == Todo("expr", path, NoName, 0)
PushIt          == Todo("push", <<>>, NoName, 0)
PopIt           == Todo("pop", <<>>, NoName, 0)
TempIt          == Todo("temp", <<>>, NoName, 0)
LabelIt         == Todo("label", <<>>, NoName, 0)
SetTail(t)      == Todo("tail", <<>>, NoName, t)
BindIt(at, name, i) == Todo("bind", at, name, i)
Kid(path, k)    == Expr(Append(path, k))

(* compile(): the lambdas, the definitions, then, once the globals are     *)
(* forgotten, the values of the globals and the expressions.               *)
Init ==
  /\ prog \in Programs
  /\ todo = [l \in DOMAIN AllLambdas |-> Todo("closure", AllLambdas[l], NoName, 0)]
            \o ForEach("deffn", [i \in DOMAIN prog |-> <<Todo("define", <<i>>, NoName, 0)>>])
            \o <<Todo("entry", <<>>, NoName, 0)>>
            \o ForEach("globl", [i \in DOMAIN prog |->
                              <<Expr(<<i>>), Todo("global", <<i>>, prog[i].name, 0)>>])
            \o ForEach("expr", [i \in DOMAIN prog |-> <<Expr(<<i>>)>>])
  /\ TableInit
  /\ outer = NewLexicon
  /\ globals = NamesOf("globl")
  /\ tail = 0
  /\ unit = <<>>
  /\ slots = <<>>
  /\ found = <<>>
  /\ captured = <<>>
  /\ jumps = <<>>
  /\ status = "compiling"

(* The thing to do first is replaced by what it leads to. *)
Leads(things) == todo' = things \o Tail(todo)

NextIs(do) == status = "compiling" /\ todo # <<>> /\ Head(todo).do = do
-----------------------------------------------------------------------------
(* Operations on the table. *)
PushScopeStep ==
  /\ NextIs("push") /\ Leads(<<>>) /\ table' = PushScope(table)
  /\ UNCHANGED <<place, tail, slots, history, status>>

PopScopeStep ==
  /\ NextIs("pop") /\ Leads(<<>>) /\ table' = PopScope(table)
  /\ UNCHANGED <<place, tail, slots, history, status>>

(* bind_: the emitted code will keep the variable in the slot it gets. *)
BindStep ==
  /\ NextIs("bind") /\ Leads(<<>>)
  /\ table' = Bind(table, Head(todo).name)
  /\ slots' = With(slots, Top(table).offc, Held("variable", Head(todo).at, Head(todo).n))
  /\ UNCHANGED <<place, tail, history, status>>

BindTemporary ==
  /\ NextIs("temp") /\ Leads(<<>>)
  /\ table' = Bind(table, Temporary)
  /\ slots' = With(slots, Top(table).offc, Temp)
  /\ UNCHANGED <<place, tail, history, status>>

(* The number in the label is left open: gensym has counted all that it    *)
(* was called for before.                                                  *)
BindLabel ==
  /\ NextIs("label") /\ Leads(<<>>)
  /\ \E name \in Labels : table' = Bind(table, name)
  /\ slots' = With(slots, Top(table).offc, Temp)
  /\ UNCHANGED <<place, tail, history, status>>

SetTailStep ==
  /\ NextIs("tail") /\ Leads(<<>>) /\ tail' = Head(todo).n
  /\ UNCHANGED <<place, table, slots, history, status>>
-----------------------------------------------------------------------------
(* compile_closure: a lexicon of its own, whose scope holds the formals    *)
(* and then the names left free by the body.  At run time the words of the *)
(* call come first and those of the environment after them.                *)
BeginClosure ==
  /\ NextIs("closure")
  /\ LET path    == Head(todo).at
         node    == NodeAt(path)
         formals == Len(node.names)
         Capture(names) == [i \in DOMAIN names |-> Todo("capture", <<>>, names[i], 0)]
     IN  /\ outer' = table
         /\ table' = NewLexicon
         /\ unit' = path
         /\ slots' = [o \in 1 .. formals + Len(FreeNames(node)) |->
                        IF o <= formals THEN Held("variable", path, o)
                        ELSE Held("captured", path, o - formals)]
         /\ Leads(<<PushIt>> \o Capture(node.names) \o Capture(FreeNames(node.kids[1]))
                  \o <<Todo("count", <<>>, NoName, 0), SetTail(1), Kid(path, 1),
                       SetTail(0), Todo("closed", <<>>, NoName, 0)>>)
  /\ UNCHANGED <<prog, globals, tail, history, status>>

(* sbind and the end of push_scope_a. *)
CaptureStep ==
  /\ NextIs("capture") /\ Leads(<<>>)
  /\ table' = SetTop(table, SBind(Top(table), Head(todo).name))
  /\ UNCHANGED <<place, tail, slots, history, status>>

CountStep ==
  /\ NextIs("count") /\ Leads(<<>>)
  /\ table' = [table EXCEPT !.offc = Top(table).offc]
  /\ UNCHANGED <<place, tail, slots, history, status>>

(* destroy_lexicon, and back to the lexicon of compile(). *)
EndClosure ==
  /\ NextIs("closed") /\ Leads(<<>>)
  /\ table' = outer /\ unit' = <<>> /\ slots' = <<>>
  /\ UNCHANGED <<prog, outer, globals, tail, history, status>>

(* compile_define *)
Define ==
  /\ NextIs("define")
  /\ LET path   == Head(todo).at
         params == prog[path[1]].params
     IN  Leads(<<PushIt>> \o [i \in DOMAIN params |-> BindIt(path \o <<0>>, params[i], i)]
               \o <<SetTail(1), Expr(path), SetTail(0), PopIt>>)
  /\ UNCHANGED <<place, table, tail, slots, history, status>>

(* The globals are forgotten, and known again one by one. *)
Entry ==
  /\ NextIs("entry") /\ Leads(<<>>) /\ globals' = {}
  /\ UNCHANGED <<prog, outer, unit, table, tail, slots, history, status>>

DefineGlobal ==
  /\ NextIs("global") /\ Leads(<<>>)
  /\ globals' = globals \cup {Head(todo).name}
  /\ UNCHANGED <<prog, outer, unit, table, tail, slots, history, status>>
-----------------------------------------------------------------------------
(* compile_expr, kind by kind. *)
Path == Head(todo).at
Here == NodeAt(Path)
NextNode(kind) == NextIs("expr") /\ Here.kind = kind

(* A mutant: no definition is a value. *)
ReadSlotOrGlobal(name) ==
  LET slot == Lookup(table, name)
  IN  IF slot # NotFound THEN slots[slot]
      ELSE IF name \in globals THEN Global ELSE Unbound

(* Where a name is found: its slot comes first, and a global last.  A call *)
(* takes a definition first and no global; set! takes no definition.       *)
Read(name) ==
  LET slot == Lookup(table, name)
  IN  IF slot # NotFound THEN slots[slot]
      ELSE IF name \in Defined THEN Definition
      ELSE IF name \in globals THEN Global ELSE Unbound
Called(name)   == IF name \in Defined THEN Definition
                  ELSE IF Read(name) = Global THEN Unbound ELSE Read(name)
Assigned(name) == IF Read(name) = Definition THEN Unbound ELSE Read(name)

Find(holder) == found' = With(found, Path, holder)

(* compile_error, or code that the assembler refuses. *)
Refuse ==
  /\ status' = "refused" /\ todo' = <<>>
  /\ UNCHANGED <<place, table, tail, slots, history>>

Constant ==
  /\ NextNode("integ") /\ Leads(<<>>)
  /\ UNCHANGED <<place, table, tail, slots, history, status>>

(* The chunks of a string are kept in a temporary; so is the string that a *)
(* quotation is made of.                                                   *)
String ==
  /\ NextNode("strng") /\ Leads(<<PushIt, TempIt, PopIt>>)
  /\ UNCHANGED <<place, table, tail, slots, history, status>>

QuotedString ==
  /\ NextNode("lqstr") /\ Leads(<<PushIt, TempIt, PushIt, TempIt, PopIt, PopIt>>)
  /\ UNCHANGED <<place, table, tail, slots, history, status>>

(* A definition is made into a procedure, in a cell. *)
Variable ==
  /\ NextNode("varbl")
  /\ IF Read(Here.name) = Unbound THEN Refuse
     ELSE /\ Find(Read(Here.name))
          /\ Leads(IF found'[Path] = Definition THEN <<PushIt, TempIt, PopIt>> ELSE <<>>)
          /\ UNCHANGED <<place, table, tail, slots, captured, jumps, status>>

UnaryOperation ==
  /\ (NextNode("unary") \/ NextNode("fileop")) /\ tail' = 0
  /\ Leads(<<Kid(Path, 1), SetTail(tail)>>)
  /\ UNCHANGED <<place, table, slots, history, status>>

BoxOperation ==
  /\ NextNode("boxop") /\ tail' = 0
  /\ Leads(<<PushIt, TempIt, Kid(Path, 1), PopIt, SetTail(tail)>>)
  /\ UNCHANGED <<place, table, slots, history, status>>

(* A mutant: the operands stay in tail position. *)
BinaryInTail ==
  /\ NextNode("binary")
  /\ Leads(<<PushIt, LabelIt, Kid(Path, 1), Kid(Path, 2), PopIt>>)
  /\ UNCHANGED <<place, table, tail, slots, history, status>>

BinaryOperation ==
  /\ NextNode("binary") /\ tail' = 0
  /\ Leads(<<PushIt, LabelIt, Kid(Path, 1), Kid(Path, 2), PopIt, SetTail(tail)>>)
  /\ UNCHANGED <<place, table, slots, history, status>>

(* A mutant: the scope of the second operand stays open. *)
ConsStaysOpen ==
  /\ NextNode("cons") /\ tail' = 0
  /\ Leads(<<PushIt, LabelIt, PushIt, TempIt, Kid(Path, 1), Kid(Path, 2), PopIt, SetTail(tail)>>)
  /\ UNCHANGED <<place, table, slots, history, status>>

(* cons has a second scope, for its second operand. *)
ConsOperation ==
  /\ NextNode("cons") /\ tail' = 0
  /\ Leads(<<PushIt, LabelIt, PushIt, TempIt, Kid(Path, 1), Kid(Path, 2), PopIt, PopIt,
             SetTail(tail)>>)
  /\ UNCHANGED <<place, table, slots, history, status>>

(* A mutant: the inner scope is not pushed, and still popped. *)
QuotedListOnce ==
  /\ NextNode("cquot")
  /\ LET n == Len(Here.kids)
         Round(i) == <<SetTail(0), Kid(Path, n - i)>>
                       \o (IF i = 1 THEN <<Kid(Path, n)>> ELSE <<>>) \o <<SetTail(tail)>>
     IN  Leads(<<PushIt, TempIt, TempIt, TempIt>>
               \o FlattenSeq([i \in 1 .. n - 1 |-> Round(i)]) \o <<PopIt, PopIt>>)
  /\ UNCHANGED <<place, table, tail, slots, history, status>>

(* The list is built from its end: the last two kids first, then one more  *)
(* in each round, with the flag down for the length of the round.          *)
QuotedList ==
  /\ NextNode("cquot")
  /\ LET n == Len(Here.kids)
         Round(i) == <<SetTail(0), Kid(Path, n - i)>>
                       \o (IF i = 1 THEN <<Kid(Path, n)>> ELSE <<>>) \o <<SetTail(tail)>>
     IN  Leads(<<PushIt, TempIt, PushIt, TempIt, TempIt>>
               \o FlattenSeq([i \in 1 .. n - 1 |-> Round(i)]) \o <<PopIt, PopIt>>)
  /\ UNCHANGED <<place, table, tail, slots, history, status>>

(* A mutant: the flag comes back only after the branches. *)
IfLate ==
  /\ NextNode("ifexp") /\ tail' = 0
  /\ Leads(<<Kid(Path, 1), Kid(Path, 3), Kid(Path, 2), SetTail(tail)>>)
  /\ UNCHANGED <<place, table, slots, history, status>>

(* compile_if emits the second branch first. *)
If ==
  /\ NextNode("ifexp") /\ tail' = 0
  /\ Leads(<<Kid(Path, 1), SetTail(tail), Kid(Path, 3), Kid(Path, 2)>>)
  /\ UNCHANGED <<place, table, slots, history, status>>

(* compile_cond: the flag is down for the conditions only. *)
CondStep ==
  /\ NextNode("conde")
  /\ LET Clause(i) == <<SetTail(0), Kid(Path, 2 * i - 1), SetTail(tail), Kid(Path, 2 * i)>>
     IN  Leads(FlattenSeq([i \in 1 .. Len(Here.kids) \div 2 |-> Clause(i)])
               \o <<Kid(Path, Len(Here.kids))>>)
  /\ UNCHANGED <<place, table, tail, slots, history, status>>

(* A variable is bound before its value is compiled. *)
LetStep ==
  /\ NextNode("letex") /\ tail' = 0
  /\ LET Clause(i) == <<BindIt(Path, Here.names[i], i), Kid(Path, i)>>
     IN  Leads(<<PushIt>> \o FlattenSeq([i \in DOMAIN Here.names |-> Clause(i)])
               \o <<SetTail(tail), Kid(Path, Len(Here.kids)), PopIt>>)
  /\ UNCHANGED <<place, table, slots, history, status>>

(* A sequence drops its first value. *)
Sequence ==
  /\ NextNode("multi") /\ tail' = 0
  /\ Leads(<<Kid(Path, 1), SetTail(tail), Kid(Path, 2)>>)
  /\ UNCHANGED <<place, table, slots, history, status>>

(* Assigning a global leaves the tail flag cleared. *)
Assign ==
  /\ NextNode("mutst")
  /\ IF Assigned(Here.name) = Unbound THEN Refuse
     ELSE /\ Find(Assigned(Here.name))
          /\ tail' = 0
          /\ Leads(<<Kid(Path, 1)>>
                   \o IF found'[Path] = Global THEN <<>> ELSE <<SetTail(tail)>>)
          /\ UNCHANGED <<place, table, slots, captured, jumps, status>>

(* compile_closure_create: the free names are looked up behind a temporary; *)
(* a name without a slot is read from NotFound, past the frame.  A lambda   *)
(* without a label makes code that does not assemble.                       *)
CreateClosure ==
  /\ NextNode("close")
  /\ IF Path \notin ToSet(AllLambdas) THEN Refuse
     ELSE /\ captured' = With(captured, Path,
                            [i \in DOMAIN FreeNames(Here) |->
                               LET slot == Lookup(table, FreeNames(Here)[i])
                               IN  IF slot = NotFound THEN Unbound ELSE slots[slot]])
          /\ Leads(<<PushIt, TempIt, PopIt, PushIt, TempIt, TempIt, PopIt>>)
          /\ UNCHANGED <<place, table, tail, slots, found, jumps, status>>

(* compile_closure_call, compile_closure_tail_call: slots for the marker   *)
(* and the return address (not before a jump), for the arguments and for   *)
(* the procedure; then the procedure and the arguments.                    *)
CallSlots(args) ==
  (IF tail = 1 THEN <<>> ELSE <<PushIt, TempIt, TempIt>>)
    \o <<PushIt>> \o [i \in 1 .. args + 1 |-> TempIt]
CallDone == (IF tail = 1 THEN <<PopIt>> ELSE <<PopIt, PopIt>>) \o <<SetTail(tail)>>

CallNamed ==
  /\ NextNode("callf")
  /\ IF Called(Here.name) = Unbound THEN Refuse
     ELSE /\ Find(Called(Here.name))
          /\ tail' = 0
          /\ jumps' = With(jumps, Path, tail = 1)
          /\ Leads(CallSlots(Len(Here.kids))
                   \o [k \in DOMAIN Here.kids |-> Kid(Path, k)] \o CallDone)
          /\ UNCHANGED <<place, table, slots, captured, status>>

CallValue ==
  /\ NextNode("calle") /\ tail' = 0
  /\ LET args == Len(Here.kids) - 1
     IN  Leads(CallSlots(args) \o <<Kid(Path, args + 1)>>
               \o [k \in 1 .. args |-> Kid(Path, k)] \o CallDone)
  /\ jumps' = With(jumps, Path, tail = 1)
  /\ UNCHANGED <<place, table, slots, found, captured, status>>

Finish ==
  /\ status = "compiling" /\ todo = <<>>
  /\ status' = "done"
  /\ UNCHANGED <<place, todo, table, tail, slots, history>>

Next ==
  \/ PushScopeStep \/ PopScopeStep \/ BindStep \/ BindTemporary \/ BindLabel \/ SetTailStep
  \/ BeginClosure \/ CaptureStep \/ CountStep \/ EndClosure
  \/ Define \/ Entry \/ DefineGlobal
  \/ Constant \/ String \/ QuotedString \/ Variable \/ UnaryOperation \/ BoxOperation
  \/ BinaryOperation \/ ConsOperation \/ QuotedList \/ If \/ CondStep \/ LetStep
  \/ Sequence \/ Assign \/ CreateClosure \/ CallNamed \/ CallValue
  \/ Finish

Spec == Init /\ [][Next]_vars
-----------------------------------------------------------------------------
TypeOK ==
  /\ TableType
  /\ outer \in Table
  /\ globals \subseteq Names
  /\ tail \in {0, 1}
  /\ status \in {"compiling", "refused", "done"}

(* A node has the value of a lambda or a definition when it is its body,   *)
(* or when each node on the way down from there passes its value on.       *)
IsBody(p) == IF Len(p) = 1 THEN prog[p[1]].kind = "deffn"
             ELSE NodeAt(SubSeq(p, 1, Len(p) - 1)).kind = "close"

PassesOn(node, k) ==
  \/ node.kind = "letex" /\ k = Len(node.kids)
  \/ node.kind = "ifexp" /\ k # 1
  \/ node.kind = "conde" /\ (k % 2 = 0 \/ k = Len(node.kids))
  \/ node.kind = "multi" /\ k = 2

InTailPlace(p) ==
  \E n \in 1 .. Len(p) :
    /\ IsBody(SubSeq(p, 1, n))
    /\ \A m \in n + 1 .. Len(p) : PassesOn(NodeAt(SubSeq(p, 1, m - 1)), p[m])

(* A call becomes a jump only where nothing is left to do after it: the    *)
(* flag __tail__ is global, and each kind of node must clear and restore   *)
(* it around what it evaluates (compile.c:1498).                           *)
JumpsAreLast == \A p \in DOMAIN jumps : jumps[p] => InTailPlace(p)

(* When a unit begins, and at the end, every scope is closed but the       *)
(* global one, which holds nothing.                                        *)
ScopesClosed ==
  (NextIs("closure") \/ NextIs("define") \/ NextIs("entry") \/ status = "done") =>
    Len(table.scopes) = 1 /\ table.offc = 1

(* The generator uses the table as Lexicon says it may be used. *)
UsesTable == TableSpec
=============================================================================
