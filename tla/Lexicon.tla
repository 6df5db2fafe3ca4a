------------------------------ MODULE Lexicon ------------------------------
(***************************************************************************)
(* The definition table of the compiler (var.c): scopes of bindings, each  *)
(* binding with the stack slot that the emitted code gives it.             *)
(*                                                                         *)
(* `table` is the lexicon in use.  The actions are the operations of       *)
(* var.c, and the order in which the code generator may use them is their  *)
(* guards: the global scope stays, and while push_scope_a fills the scope  *)
(* of a closure nothing else happens.  Names, the generator, is shown to   *)
(* keep to TableSpec.                                                      *)
(***************************************************************************)
EXTENDS Integers, Sequences

CONSTANT Names   \* what is bound: names of a program, labels of the generator

VARIABLE table

DefaultSize == 4     \* DEFAULT_LEXICON_SIZE and DEFAULT_SCOPE_SIZE
NotFound    == -1    \* LEXICON_NOTFOUND

Var   == [name : Names, off : Nat]
Scope == [vars : Seq(Var), cap : Nat, offc : Nat]
Table == [scopes : Seq(Scope), cap : Nat, offc : Nat]
-----------------------------------------------------------------------------
(* A mutant: it doubles only when the array is over-full.                  *)
GrownLate(len, cap) == IF len > cap THEN 2 * cap ELSE cap

(* An array of len elements, before one more is stored: it doubles when it *)
(* is half full.  An array that is half full and empty would keep no room. *)
Grown(len, cap) == IF 2 * len >= cap THEN IF len = 0 THEN 0 ELSE 2 * cap ELSE cap

NewScope(offc) == [vars |-> <<>>, cap |-> DefaultSize, offc |-> offc]

Top(t) == t.scopes[Len(t.scopes)]

PushScope(t) ==
  [scopes |-> Append(t.scopes, NewScope(t.offc)),
   cap    |-> Grown(Len(t.scopes), t.cap),
   offc   |-> t.offc]

(* Mutants: the bindings come off the counter twice, or never.             *)
PopScopeTwice(t) ==
  LET less == t.offc - 2 * Len(t.scopes[Len(t.scopes)].vars)
  IN  [t EXCEPT !.scopes = SubSeq(@, 1, Len(@) - 1), !.offc = less]

PopScopeOnly(t) == [t EXCEPT !.scopes = SubSeq(@, 1, Len(@) - 1)]

PopScope(t) ==
  [t EXCEPT !.scopes = SubSeq(@, 1, Len(@) - 1), !.offc = @ - Len(Top(t).vars)]

NewLexicon == PushScope([scopes |-> <<>>, cap |-> DefaultSize, offc |-> 1])

(* The binding takes the next slot of its scope. *)
Added(scope, name) ==
  [vars |-> Append(scope.vars, [name |-> name, off |-> scope.offc]),
   cap  |-> Grown(Len(scope.vars), scope.cap),
   offc |-> scope.offc + 1]

SetTop(t, scope) == [t EXCEPT !.scopes[Len(t.scopes)] = scope]

Bind(t, name) ==
  LET scope == Added(Top(t), name)
  IN  [SetTop(t, scope) EXCEPT !.offc = scope.offc]

(* The slot of the latest of the bindings of a name in one scope. *)
SLookup(scope, name) ==
  LET Bound == {j \in DOMAIN scope.vars : scope.vars[j].name = name}
  IN  IF Bound = {} THEN NotFound
      ELSE scope.vars[CHOOSE j \in Bound : \A k \in Bound : k <= j].off

(* sbind binds a name once; it makes room before it looks. *)
SBind(scope, name) ==
  IF SLookup(scope, name) = NotFound THEN Added(scope, name)
  ELSE [scope EXCEPT !.cap = Grown(Len(scope.vars), scope.cap)]

(* The innermost scope that binds the name decides. *)
Lookup(t, name) ==
  LET Bound == {i \in DOMAIN t.scopes : SLookup(t.scopes[i], name) # NotFound}
  IN  IF Bound = {} THEN NotFound
      ELSE SLookup(t.scopes[CHOOSE i \in Bound : \A k \in Bound : k <= i], name)
-----------------------------------------------------------------------------
Settled == table.offc = Top(table).offc

NewTable     == table' = NewLexicon
Push         == Settled /\ table' = PushScope(table)
Pop          == Settled /\ Len(table.scopes) > 1 /\ table' = PopScope(table)
BindName     == \E name \in Names : table' = Bind(table, name)
(* push_scope_a: names into the scope of a closure, then the counter. *)
CaptureName  == \E name \in Names : table' = SetTop(table, SBind(Top(table), name))
CountScope   == table' = [table EXCEPT !.offc = Top(table).offc]

TableInit == table = NewLexicon

TableNext ==
  NewTable \/ Push \/ Pop \/ BindName \/ CaptureName \/ CountScope

TableSpec == TableInit /\ [][TableNext]_table
-----------------------------------------------------------------------------
TableType == table \in Table

(* The first slot of scope i. *)
FirstSlot(scopes, i) == IF i = 1 THEN 1 ELSE scopes[i - 1].offc

(* The slots follow one another without a gap, from 1 and from scope to    *)
(* scope: the generator moves RSP and __gcframe__ by counts of bindings    *)
(* (compile.c:1857, 1932), so a gap would be a word the collector misses.  *)
SlotsFollow ==
  \A i \in DOMAIN table.scopes :
    LET scope == table.scopes[i]
    IN  /\ scope.offc = FirstSlot(table.scopes, i) + Len(scope.vars)
        /\ \A j \in DOMAIN scope.vars : scope.vars[j].off = FirstSlot(table.scopes, i) + j - 1

(* No two live bindings share a slot. *)
SlotsDistinct ==
  \A i, k \in DOMAIN table.scopes :
    \A j \in DOMAIN table.scopes[i].vars, l \in DOMAIN table.scopes[k].vars :
      table.scopes[i].vars[j].off = table.scopes[k].vars[l].off => i = k /\ j = l

(* Nothing is stored past the end of an array: it was made larger before.  *)
WithinCapacity ==
  /\ Len(table.scopes) <= table.cap
  /\ \A i \in DOMAIN table.scopes :
       Len(table.scopes[i].vars) <= table.scopes[i].cap
=============================================================================
