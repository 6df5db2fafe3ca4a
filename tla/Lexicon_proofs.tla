-------------------------- MODULE Lexicon_proofs ---------------------------
(***************************************************************************)
(* The slots of the definition table, for any names and any order of its   *)
(* operations that TableSpec allows.                                       *)
(***************************************************************************)
EXTENDS Lexicon, SequenceTheorems, TLAPS

(* A scope whose first slot is given. *)
GoodScope(scope, first) ==
  /\ scope.offc = first + Len(scope.vars)
  /\ \A j \in DOMAIN scope.vars : scope.vars[j].off = first + j - 1

(* An array with room for more: what makes room kept is that it is never   *)
(* more than half full when the next element comes.                        *)
Roomy(len, cap) == cap >= 2 /\ 2 * len <= cap + 1

TableInv ==
  /\ TableType
  /\ table.scopes # <<>>
  /\ SlotsFollow
  /\ \A i, k \in DOMAIN table.scopes : i < k => table.scopes[i].offc <= FirstSlot(table.scopes, k)
  /\ Roomy(Len(table.scopes), table.cap)
  /\ \A i \in DOMAIN table.scopes :
       Roomy(Len(table.scopes[i].vars), table.scopes[i].cap)
-----------------------------------------------------------------------------
(* An array that has grown takes one more element. *)
LEMMA GrownRoomy ==
  ASSUME NEW len \in Nat, NEW cap \in Nat, Roomy(len, cap)
  PROVE  /\ Grown(len, cap) \in Nat
         /\ Roomy(len, Grown(len, cap))
         /\ Roomy(len + 1, Grown(len, cap))
  BY DEF Roomy, Grown

LEMMA NewScopeGood ==
  ASSUME NEW first \in Nat
  PROVE  /\ NewScope(first) \in Scope
         /\ GoodScope(NewScope(first), first)
         /\ Roomy(Len(NewScope(first).vars), NewScope(first).cap)
  BY DEF NewScope, Scope, GoodScope, Roomy, DefaultSize

(* A binding takes the slot after the last one. *)
LEMMA AddedGood ==
  ASSUME NEW scope \in Scope, NEW name \in Names, NEW first \in Nat,
         GoodScope(scope, first), Roomy(Len(scope.vars), scope.cap)
  PROVE  /\ Added(scope, name) \in Scope
         /\ GoodScope(Added(scope, name), first)
         /\ Roomy(Len(Added(scope, name).vars), Added(scope, name).cap)
         /\ Added(scope, name).offc >= scope.offc
<1> DEFINE var   == [name |-> name, off |-> scope.offc]
           added == Added(scope, name)
<1>1. scope.vars \in Seq(Var) /\ scope.cap \in Nat /\ scope.offc \in Nat
  BY DEF Scope
<1>2. var \in Var
  BY <1>1 DEF Var
<1>3. added = [vars |-> Append(scope.vars, var), cap |-> Grown(Len(scope.vars), scope.cap),
               offc |-> scope.offc + 1]
  BY DEF Added
<1>4. /\ added.vars \in Seq(Var) /\ Len(added.vars) = Len(scope.vars) + 1
      /\ added.vars[Len(scope.vars) + 1] = var
      /\ \A j \in 1 .. Len(scope.vars) : added.vars[j] = scope.vars[j]
  BY <1>1, <1>2, <1>3
<1>5. Len(scope.vars) \in Nat
  BY <1>1
<1>6. Grown(Len(scope.vars), scope.cap) \in Nat
      /\ Roomy(Len(scope.vars) + 1, Grown(Len(scope.vars), scope.cap))
  BY <1>1, <1>5, GrownRoomy
<1>7. added \in Scope
  BY <1>1, <1>3, <1>4, <1>6 DEF Scope
<1>8. GoodScope(added, first)
  <2>1. added.offc = first + Len(added.vars)
    BY <1>1, <1>3, <1>4, <1>5 DEF GoodScope
  <2>2. ASSUME NEW j \in DOMAIN added.vars
        PROVE  added.vars[j].off = first + j - 1
    <3>1. j \in 1 .. Len(scope.vars) + 1
      BY <1>4
    <3>2. CASE j = Len(scope.vars) + 1
      BY <1>1, <1>4, <1>5, <3>2 DEF GoodScope
    <3>3. CASE j \in 1 .. Len(scope.vars)
      BY <1>1, <1>4, <3>3, SMTT(30) DEF GoodScope
    <3> QED
      BY <1>5, <3>1, <3>2, <3>3
  <2> QED
    BY <2>1, <2>2 DEF GoodScope
<1> QED
  BY <1>1, <1>3, <1>4, <1>6, <1>7, <1>8
-----------------------------------------------------------------------------
(* TableInv, scope by scope. *)
LEMMA InvScopes ==
  ASSUME TableInv
  PROVE  /\ Len(table.scopes) \in Nat \ {0}
         /\ DOMAIN table.scopes = 1 .. Len(table.scopes)
         /\ table.scopes \in Seq(Scope) /\ table.cap \in Nat /\ table.offc \in Nat
         /\ \A i \in DOMAIN table.scopes :
              /\ table.scopes[i] \in Scope
              /\ FirstSlot(table.scopes, i) \in Nat
              /\ GoodScope(table.scopes[i], FirstSlot(table.scopes, i))
         /\ Top(table) = table.scopes[Len(table.scopes)]
<1>1. table.scopes \in Seq(Scope) /\ table.cap \in Nat /\ table.offc \in Nat
  BY DEF TableInv, TableType, Table
<1>2. /\ Len(table.scopes) \in Nat \ {0}
      /\ DOMAIN table.scopes = 1 .. Len(table.scopes)
  BY <1>1, EmptySeq DEF TableInv
<1>3. \A i \in DOMAIN table.scopes : table.scopes[i] \in Scope
  BY <1>1
<1>4. \A i \in DOMAIN table.scopes : FirstSlot(table.scopes, i) \in Nat
  BY <1>2, <1>3 DEF FirstSlot, Scope
<1>5. \A i \in DOMAIN table.scopes : GoodScope(table.scopes[i], FirstSlot(table.scopes, i))
  BY DEF TableInv, SlotsFollow, GoodScope
<1> QED
  BY <1>1, <1>2, <1>3, <1>4, <1>5 DEF Top

(* The innermost scope is replaced by one with the same first slot. *)
LEMMA TopReplaced ==
  ASSUME TableInv, NEW scope \in Scope, NEW offc \in Nat,
         GoodScope(scope, FirstSlot(table.scopes, Len(table.scopes))),
         Roomy(Len(scope.vars), scope.cap),
         table' = [SetTop(table, scope) EXCEPT !.offc = offc]
  PROVE  TableInv'
<1> DEFINE n == Len(table.scopes)
<1>1. n \in Nat \ {0} /\ DOMAIN table.scopes = 1 .. n /\ table.scopes \in Seq(Scope)
  BY InvScopes
<1>2. table \in Table
  BY DEF TableInv, TableType
<1>3. /\ table'.scopes = [table.scopes EXCEPT ![n] = scope]
      /\ table'.cap = table.cap /\ table'.offc = offc
      /\ table' = [scopes |-> [table.scopes EXCEPT ![n] = scope], cap |-> table.cap, offc |-> offc]
  BY <1>2 DEF SetTop, Table
<1>4. /\ table'.scopes \in Seq(Scope) /\ Len(table'.scopes) = n
      /\ DOMAIN table'.scopes = 1 .. n
      /\ table'.scopes[n] = scope
      /\ \A i \in 1 .. n - 1 : table'.scopes[i] = table.scopes[i]
  BY <1>1, <1>3
<1>5. \A i \in 1 .. n : FirstSlot(table'.scopes, i) = FirstSlot(table.scopes, i)
  BY <1>1, <1>4, SMTT(30) DEF FirstSlot
<1>6. TableType'
  BY <1>2, <1>3, <1>4 DEF TableType, Table
<1>7. table'.scopes # <<>>
  BY <1>1, <1>4
<1>8. ASSUME NEW i \in 1 .. n
      PROVE  GoodScope(table'.scopes[i], FirstSlot(table'.scopes, i))
  <2>1. CASE i = n
    BY <1>1, <1>4, <1>5, <2>1
  <2>2. CASE i \in 1 .. n - 1
    BY <1>1, <1>4, <1>5, <2>2, InvScopes
  <2> QED
    BY <1>1, <2>1, <2>2
<1>9. SlotsFollow'
  BY <1>4, <1>8 DEF SlotsFollow, GoodScope
<1>10. \A i, k \in 1 .. n : i < k => table'.scopes[i].offc <= FirstSlot(table'.scopes, k)
  <2> SUFFICES ASSUME NEW i \in 1 .. n, NEW k \in 1 .. n, i < k
               PROVE  table'.scopes[i].offc <= FirstSlot(table'.scopes, k)
    OBVIOUS
  <2>1. i \in 1 .. n - 1
    BY <1>1
  <2> QED
    BY <1>1, <1>4, <1>5, <2>1 DEF TableInv
<1>11. Roomy(n, table'.cap)
  BY <1>3 DEF TableInv
<1>12. ASSUME NEW i \in 1 .. n
       PROVE  Roomy(Len(table'.scopes[i].vars), table'.scopes[i].cap)
  <2>1. CASE i = n
    BY <1>4, <2>1
  <2>2. CASE i \in 1 .. n - 1
    BY <1>1, <1>4, <2>2 DEF TableInv
  <2> QED
    BY <1>1, <2>1, <2>2
<1> QED
  BY <1>4, <1>6, <1>7, <1>9, <1>10, <1>11, <1>12 DEF TableInv
-----------------------------------------------------------------------------
LEMMA InvInit == ASSUME table = NewLexicon PROVE TableInv
<1>1. Grown(0, DefaultSize) = 4
  BY DEF Grown, DefaultSize
<1>2. table = [scopes |-> <<NewScope(1)>>, cap |-> 4, offc |-> 1]
  BY <1>1 DEF NewLexicon, PushScope
<1>3. /\ NewScope(1) \in Scope
      /\ GoodScope(NewScope(1), 1)
      /\ Roomy(Len(NewScope(1).vars), NewScope(1).cap)
  BY NewScopeGood
<1>4. /\ table.scopes = <<NewScope(1)>> /\ Len(table.scopes) = 1
      /\ DOMAIN table.scopes = {1} /\ table.scopes[1] = NewScope(1)
  BY <1>2
<1>5. TableType
  BY <1>2, <1>3 DEF TableType, Table
<1>6. FirstSlot(table.scopes, 1) = 1
  BY DEF FirstSlot
<1>7. SlotsFollow
  BY <1>3, <1>4, <1>6 DEF SlotsFollow, GoodScope
<1>8. Roomy(Len(table.scopes), table.cap)
  BY <1>2, <1>4 DEF Roomy
<1> QED
  BY <1>3, <1>4, <1>5, <1>7, <1>8 DEF TableInv

LEMMA PushKeeps == ASSUME TableInv, Push PROVE TableInv'
<1> DEFINE n   == Len(table.scopes)
           new == NewScope(table.offc)
<1>1. /\ n \in Nat \ {0} /\ DOMAIN table.scopes = 1 .. n /\ table.scopes \in Seq(Scope)
      /\ table.cap \in Nat /\ table.offc \in Nat
  BY InvScopes
<1>2. /\ table'.scopes = Append(table.scopes, new)
      /\ table'.cap = Grown(n, table.cap) /\ table'.offc = table.offc
      /\ table' = [scopes |-> Append(table.scopes, new), cap |-> Grown(n, table.cap),
                   offc |-> table.offc]
  BY DEF Push, PushScope
<1>3. /\ new \in Scope /\ GoodScope(new, table.offc) /\ Roomy(Len(new.vars), new.cap)
  BY <1>1, NewScopeGood
<1>4. /\ table'.scopes \in Seq(Scope) /\ Len(table'.scopes) = n + 1
      /\ DOMAIN table'.scopes = 1 .. n + 1
      /\ table'.scopes[n + 1] = new
      /\ \A i \in 1 .. n : table'.scopes[i] = table.scopes[i]
  BY <1>1, <1>2, <1>3
<1>5. \A i \in 1 .. n : FirstSlot(table'.scopes, i) = FirstSlot(table.scopes, i)
  BY <1>1, <1>4 DEF FirstSlot
<1>6. FirstSlot(table'.scopes, n + 1) = table.offc
  <2>1. table.offc = table.scopes[n].offc
    BY InvScopes DEF Push, Settled
  <2> QED
    BY <1>1, <1>4, <2>1 DEF FirstSlot
<1>7. Grown(n, table.cap) \in Nat /\ Roomy(n + 1, Grown(n, table.cap))
  BY <1>1, GrownRoomy DEF TableInv
<1>8. TableType'
  BY <1>1, <1>2, <1>4, <1>7 DEF TableType, Table
<1>9. ASSUME NEW i \in 1 .. n + 1
      PROVE  /\ GoodScope(table'.scopes[i], FirstSlot(table'.scopes, i))
             /\ Roomy(Len(table'.scopes[i].vars), table'.scopes[i].cap)
  <2>1. CASE i = n + 1
    BY <1>3, <1>4, <1>6, <2>1
  <2>2. CASE i \in 1 .. n
    BY <1>1, <1>4, <1>5, <2>2, InvScopes DEF TableInv
  <2> QED
    BY <1>1, <2>1, <2>2
<1>10. SlotsFollow'
  BY <1>4, <1>9 DEF SlotsFollow, GoodScope
<1>11. \A i, k \in 1 .. n + 1 : i < k => table'.scopes[i].offc <= FirstSlot(table'.scopes, k)
  <2> SUFFICES ASSUME NEW i \in 1 .. n + 1, NEW k \in 1 .. n + 1, i < k
               PROVE  table'.scopes[i].offc <= FirstSlot(table'.scopes, k)
    OBVIOUS
  <2>1. i \in 1 .. n /\ table'.scopes[i] = table.scopes[i]
    BY <1>1, <1>4
  <2>2. CASE k \in 1 .. n
    BY <1>1, <1>5, <2>1, <2>2 DEF TableInv
  <2>3. CASE k = n + 1 /\ i = n
    BY <1>1, <1>4, <1>6, <2>1, <2>3, InvScopes DEF Push, Settled
  <2>4. CASE k = n + 1 /\ i < n
    <3>1. table.scopes[i].offc <= FirstSlot(table.scopes, n)
      BY <1>1, <2>1, <2>4 DEF TableInv
    <3>2. FirstSlot(table.scopes, n) <= table.scopes[n].offc
      <4>1. /\ table.scopes[n].offc = FirstSlot(table.scopes, n) + Len(table.scopes[n].vars)
            /\ FirstSlot(table.scopes, n) \in Nat /\ table.scopes[n] \in Scope
        BY <1>1, InvScopes DEF GoodScope
      <4>2. Len(table.scopes[n].vars) \in Nat
        BY <4>1 DEF Scope
      <4> QED
        BY <4>1, <4>2
    <3>3. table.scopes[n].offc = table.offc
      BY InvScopes DEF Push, Settled
    <3>4. table.scopes[i].offc \in Nat /\ FirstSlot(table.scopes, n) \in Nat
             /\ table.scopes[n].offc \in Nat
      <4>1. table.scopes[i] \in Scope /\ table.scopes[n] \in Scope
        BY <1>1, <2>1
      <4>2. FirstSlot(table.scopes, n) \in Nat
        BY <1>1, InvScopes
      <4> QED
        BY <4>1, <4>2 DEF Scope
    <3> QED
      BY <1>1, <1>6, <2>1, <2>4, <3>1, <3>2, <3>3, <3>4
  <2> QED
    BY <1>1, <2>1, <2>2, <2>3, <2>4
<1> QED
  BY <1>1, <1>2, <1>4, <1>7, <1>8, <1>9, <1>10, <1>11 DEF TableInv

LEMMA PopKeeps == ASSUME TableInv, Pop PROVE TableInv'
<1> DEFINE n == Len(table.scopes)
<1>1. /\ n \in Nat \ {0} /\ DOMAIN table.scopes = 1 .. n /\ table.scopes \in Seq(Scope)
      /\ table.cap \in Nat /\ table.offc \in Nat /\ n > 1
  BY InvScopes DEF Pop
<1>2. table \in Table
  BY DEF TableInv, TableType
<1>3. /\ table'.scopes = SubSeq(table.scopes, 1, n - 1)
      /\ table'.cap = table.cap
      /\ table'.offc = table.offc - Len(table.scopes[n].vars)
      /\ table' = [scopes |-> table'.scopes, cap |-> table'.cap, offc |-> table'.offc]
  BY <1>2 DEF Pop, PopScope, Table, Top
<1>4. /\ table'.scopes \in Seq(Scope) /\ Len(table'.scopes) = n - 1
      /\ DOMAIN table'.scopes = 1 .. n - 1
      /\ \A i \in 1 .. n - 1 : table'.scopes[i] = table.scopes[i]
  BY <1>1, <1>3
<1>5. ASSUME NEW i \in 1 .. n - 1
      PROVE  /\ FirstSlot(table'.scopes, i) = FirstSlot(table.scopes, i)
             /\ i \in 1 .. n /\ table'.scopes[i] = table.scopes[i]
  <2>1. i \in 1 .. n /\ (i # 1 => i - 1 \in 1 .. n - 1)
    BY <1>1
  <2> QED
    BY <1>4, <2>1 DEF FirstSlot
<1>6. table'.offc \in Nat
  <2>1. /\ table.scopes[n].offc = FirstSlot(table.scopes, n) + Len(table.scopes[n].vars)
        /\ FirstSlot(table.scopes, n) \in Nat /\ table.scopes[n] \in Scope
        /\ table.offc = table.scopes[n].offc
    BY <1>1, InvScopes DEF GoodScope, Pop, Settled
  <2>2. Len(table.scopes[n].vars) \in Nat
    BY <2>1 DEF Scope
  <2> QED
    BY <1>3, <2>1, <2>2
<1>7. TableType'
  BY <1>1, <1>3, <1>4, <1>6 DEF TableType, Table
<1>8. \A i \in 1 .. n - 1 : /\ GoodScope(table'.scopes[i], FirstSlot(table'.scopes, i))
                          /\ Roomy(Len(table'.scopes[i].vars), table'.scopes[i].cap)
  BY <1>1, <1>4, <1>5, InvScopes DEF TableInv
<1>9. SlotsFollow'
  BY <1>4, <1>8 DEF SlotsFollow, GoodScope
<1>10. \A i, k \in 1 .. n - 1 : i < k => table'.scopes[i].offc <= FirstSlot(table'.scopes, k)
  BY <1>1, <1>4, <1>5 DEF TableInv
<1>11. Roomy(n - 1, table'.cap)
  BY <1>1, <1>3 DEF TableInv, Roomy
<1>12. table'.scopes # <<>>
  BY <1>1, <1>4
<1> QED
  BY <1>4, <1>7, <1>8, <1>9, <1>10, <1>11, <1>12 DEF TableInv

(* Facts about the innermost scope. *)
LEMMA TopGood ==
  ASSUME TableInv
  PROVE  /\ Top(table) \in Scope
         /\ FirstSlot(table.scopes, Len(table.scopes)) \in Nat
         /\ GoodScope(Top(table), FirstSlot(table.scopes, Len(table.scopes)))
         /\ Roomy(Len(Top(table).vars), Top(table).cap)
         /\ table.offc \in Nat
<1>1. /\ Len(table.scopes) \in DOMAIN table.scopes
      /\ Top(table) = table.scopes[Len(table.scopes)] /\ table.offc \in Nat
  BY InvScopes
<1>2. Roomy(Len(Top(table).vars), Top(table).cap)
  BY <1>1 DEF TableInv
<1> QED
  BY <1>1, <1>2, InvScopes

LEMMA BindKeeps == ASSUME TableInv, BindName PROVE TableInv'
<1>1. PICK name \in Names : table' = Bind(table, name)
  BY DEF BindName
<1> DEFINE scope == Added(Top(table), name)
<1>2. table' = [SetTop(table, scope) EXCEPT !.offc = scope.offc]
  BY <1>1 DEF Bind
<1>3. /\ scope \in Scope
      /\ GoodScope(scope, FirstSlot(table.scopes, Len(table.scopes)))
      /\ Roomy(Len(scope.vars), scope.cap)
  BY TopGood, AddedGood
<1>4. scope.offc \in Nat
  BY <1>3 DEF Scope
<1> QED
  BY <1>2, <1>3, <1>4, TopReplaced

LEMMA CaptureKeeps == ASSUME TableInv, CaptureName PROVE TableInv'
<1>1. PICK name \in Names : table' = SetTop(table, SBind(Top(table), name))
  BY DEF CaptureName
<1> DEFINE scope == SBind(Top(table), name)
<1>2. /\ scope \in Scope
      /\ GoodScope(scope, FirstSlot(table.scopes, Len(table.scopes)))
      /\ Roomy(Len(scope.vars), scope.cap)
  <2>1. CASE SLookup(Top(table), name) = NotFound
    BY <2>1, TopGood, AddedGood DEF SBind
  <2>2. CASE SLookup(Top(table), name) # NotFound
    <3> DEFINE top == Top(table)
               cap == Grown(Len(top.vars), top.cap)
    <3>1. scope = [top EXCEPT !.cap = cap]
      BY <2>2 DEF SBind
    <3>2. /\ top.vars \in Seq(Var) /\ top.cap \in Nat /\ top.offc \in Nat
          /\ Len(top.vars) \in Nat
      BY TopGood DEF Scope
    <3>3. scope = [vars |-> top.vars, cap |-> cap, offc |-> top.offc]
      BY <3>1, TopGood DEF Scope
    <3>4. cap \in Nat /\ Roomy(Len(top.vars), cap)
      BY <3>2, TopGood, GrownRoomy
    <3>5. scope.vars = top.vars /\ scope.cap = cap /\ scope.offc = top.offc
      BY <3>3
    <3>6. scope \in Scope
      BY <3>2, <3>3, <3>4 DEF Scope
    <3>7. GoodScope(scope, FirstSlot(table.scopes, Len(table.scopes)))
      BY <3>5, TopGood DEF GoodScope
    <3> QED
      BY <3>4, <3>5, <3>6, <3>7
  <2> QED
    BY <2>1, <2>2
<1>3. table' = [SetTop(table, scope) EXCEPT !.offc = table.offc]
  BY <1>1 DEF SetTop, TableInv, TableType, Table
<1> QED
  BY <1>2, <1>3, TopGood, TopReplaced

LEMMA CountKeeps == ASSUME TableInv, CountScope PROVE TableInv'
<1>1. table' = [table EXCEPT !.offc = Top(table).offc]
  BY DEF CountScope
<1>2. SetTop(table, Top(table)) = table
  <2>1. [table.scopes EXCEPT ![Len(table.scopes)] = Top(table)] = table.scopes
    BY InvScopes
  <2> QED
    BY <2>1 DEF SetTop, TableInv, TableType, Table
<1>3. Top(table).offc \in Nat
  BY TopGood DEF Scope
<1>4. table' = [SetTop(table, Top(table)) EXCEPT !.offc = Top(table).offc]
  BY <1>1, <1>2
<1> QED
  BY <1>3, <1>4, TopGood, TopReplaced
-----------------------------------------------------------------------------
(* The invariant holds in every state: one step for each operation. *)
LEMMA Invariance == TableSpec => []TableInv
<1>1. TableInit => TableInv
  BY InvInit DEF TableInit
<1>2. TableInv /\ [TableNext]_table => TableInv'
  <2> SUFFICES ASSUME TableInv, [TableNext]_table PROVE TableInv'
    OBVIOUS
  <2>1. CASE NewTable
    <3>1. (table = NewLexicon => TableInv)'
      BY InvInit, PTL
    <3> QED
      BY <2>1, <3>1 DEF NewTable
  <2>2. CASE Push
    BY <2>2, PushKeeps
  <2>3. CASE Pop
    BY <2>3, PopKeeps
  <2>4. CASE BindName
    BY <2>4, BindKeeps
  <2>5. CASE CaptureName
    BY <2>5, CaptureKeeps
  <2>6. CASE CountScope
    BY <2>6, CountKeeps
  <2>7. CASE UNCHANGED table
    BY <2>7 DEF TableInv, TableType, SlotsFollow
  <2> QED
    BY <2>1, <2>2, <2>3, <2>4, <2>5, <2>6, <2>7 DEF TableNext
<1> QED
  BY <1>1, <1>2, PTL DEF TableSpec

(* The table keeps its shape: counters and slots stay natural numbers, pop *)
(* never takes off more than was counted (var.c:126).                      *)
THEOREM TableTyped == TableSpec => []TableType
<1>1. TableInv => TableType
  BY DEF TableInv
<1> QED
  BY <1>1, Invariance, PTL

(* The slots of all scopes follow one another from 1 on, through every     *)
(* push, pop and binding, and through the filling of a closure's scope.    *)
THEOREM SlotsAreConsecutive == TableSpec => []SlotsFollow
<1>1. TableInv => SlotsFollow
  BY DEF TableInv
<1> QED
  BY <1>1, Invariance, PTL

(* So no two variables that are bound at once share a slot. *)
THEOREM SlotsNeverShared == TableSpec => []SlotsDistinct
<1>1. ASSUME TableInv PROVE SlotsDistinct
  <2> SUFFICES ASSUME NEW i \in DOMAIN table.scopes, NEW k \in DOMAIN table.scopes,
                      NEW j \in DOMAIN table.scopes[i].vars,
                      NEW l \in DOMAIN table.scopes[k].vars,
                      table.scopes[i].vars[j].off = table.scopes[k].vars[l].off
               PROVE  i = k /\ j = l
    BY DEF SlotsDistinct
  <2> DEFINE First(m) == FirstSlot(table.scopes, m)
  <2>1. i \in Nat /\ k \in Nat /\ First(i) \in Nat /\ First(k) \in Nat
    BY <1>1, InvScopes
  <2>2. /\ j \in 1 .. Len(table.scopes[i].vars) /\ Len(table.scopes[i].vars) \in Nat
        /\ l \in 1 .. Len(table.scopes[k].vars) /\ Len(table.scopes[k].vars) \in Nat
    <3>1. table.scopes[i] \in Scope /\ table.scopes[k] \in Scope
      BY <1>1, InvScopes
    <3>2. table.scopes[i].vars \in Seq(Var) /\ table.scopes[k].vars \in Seq(Var)
      BY <3>1 DEF Scope
    <3> QED
      BY <3>2
  <2>3. First(i) + j - 1 = First(k) + l - 1
    BY <1>1, InvScopes DEF GoodScope
  <2>4. /\ table.scopes[i].offc = First(i) + Len(table.scopes[i].vars)
        /\ table.scopes[k].offc = First(k) + Len(table.scopes[k].vars)
    BY <1>1, InvScopes DEF GoodScope
  <2>5. /\ i < k => table.scopes[i].offc <= First(k)
        /\ k < i => table.scopes[k].offc <= First(i)
    BY <1>1 DEF TableInv
  <2>6. ~ (i < k)
    BY <2>1, <2>2, <2>3, <2>4, <2>5, SMTT(30)
  <2>7. ~ (k < i)
    BY <2>1, <2>2, <2>3, <2>4, <2>5, SMTT(30)
  <2>8. i = k
    BY <2>1, <2>6, <2>7
  <2> QED
    BY <2>1, <2>2, <2>3, <2>8
<1> QED
  BY <1>1, Invariance, PTL

(* No array of scopes or of bindings is ever written past its end, though  *)
(* they grow only when they are found half full (var.c:29, 52).            *)
THEOREM ArraysSuffice == TableSpec => []WithinCapacity
<1>1. ASSUME TableInv PROVE WithinCapacity
  <2>1. ASSUME NEW len \in Nat, NEW cap \in Nat, Roomy(len, cap) PROVE len <= cap
    BY <2>1 DEF Roomy
  <2>2. Len(table.scopes) <= table.cap
    BY <1>1, <2>1, InvScopes DEF TableInv
  <2>3. ASSUME NEW i \in DOMAIN table.scopes
        PROVE  Len(table.scopes[i].vars) <= table.scopes[i].cap
    <3>1. Len(table.scopes[i].vars) \in Nat /\ table.scopes[i].cap \in Nat
      BY <1>1, InvScopes, SMTT(30) DEF Scope
    <3> QED
      BY <1>1, <2>1, <3>1 DEF TableInv
  <2> QED
    BY <2>2, <2>3 DEF WithinCapacity
<1> QED
  BY <1>1, Invariance, PTL
=============================================================================
