-------------------------- MODULE Generator_proofs --------------------------
(***************************************************************************)
(* What the walk of the code generator does to the definition table and to *)
(* the tail flag, for every program, however deep.                         *)
(*                                                                         *)
(* What is still to be done is a sequence of steps.  A plan says how far a *)
(* unit of the program is: its stage, how many scopes are open, and what   *)
(* the tail flag may be.  Each thing to do takes one plan to the next, and *)
(* what compile_expr puts in the place of a node takes the plan where the  *)
(* node may be compiled to the one where it leaves off; so the whole       *)
(* sequence always leads to the end, with every scope closed.              *)
(*                                                                         *)
(* Lambdas, LFree and NodeIn are functions defined by recursion; that they *)
(* satisfy their equations is shown here first.                            *)
(***************************************************************************)
EXTENDS Generator, Lexicon_proofs, WellFoundedInduction

-----------------------------------------------------------------------------
(* Numbers and sequences.                                                  *)

(* A set of natural numbers has a least element.                           *)
LEMMA LeastOf ==
  ASSUME NEW S \in SUBSET Nat, S # {}
  PROVE  \E n \in S : \A m \in S : n <= m
<1> DEFINE R == OpToRel(<, Nat)
<1>1. IsWellFoundedOn(R, Nat)
  BY NatLessThanWellFounded
<1>2. \A m, n \in Nat : m < n => <<m, n>> \in R
  BY DEF OpToRel
<1> HIDE DEF R
<1>3. PICK n \in S : \A m \in S : ~(<<m, n>> \in R)
  BY <1>1, WFMin
<1>4. \A m \in S : ~(m < n)
  BY <1>2, <1>3
<1> QED
  BY <1>3, <1>4

(* Sequences are concatenated one by one.                                  *)
Flattening(n, seqs, flat) ==
  /\ FlattenSeq(seqs) = flat[n]
  /\ \A i \in 1 .. n : flat[i] = IF i = 1 THEN seqs[i] ELSE flat[i - 1] \o seqs[i]

LEMMA FlattenSteps ==
  ASSUME NEW A, NEW n \in Nat \ {0}, NEW seqs \in [1 .. n -> A]
  PROVE  \E flat : Flattening(n, seqs, flat)
<1> DEFINE Equation(f, m) ==
             f = [i \in 1 .. m |-> IF i = 1 THEN seqs[i] ELSE f[i - 1] \o seqs[i]]
           flatten == CHOOSE f : Equation(f, n)
<1>1. FlattenSeq(seqs) = flatten[n]
  <2>1. Len(seqs) = n
    BY LenProperties
  <2> QED
    BY <2>1 DEF FlattenSeq
<1>2. ASSUME NEW m \in 1 .. n, NEW f, Equation(f, m - 1)
      PROVE  \E g : Equation(g, m)
  <2> DEFINE last == IF m = 1 THEN seqs[m] ELSE f[m - 1] \o seqs[m]
             g == [i \in 1 .. m |-> IF i = m THEN last ELSE f[i]]
  <2>1. ASSUME NEW i \in 1 .. m PROVE g[i] = IF i = 1 THEN seqs[i] ELSE g[i - 1] \o seqs[i]
    <3>1. CASE i = m
      <4>1. m # 1 => m - 1 \in 1 .. m /\ m - 1 # m
        OBVIOUS
      <4>2. m # 1 => g[m - 1] = f[m - 1]
        BY <4>1
      <4>3. g[i] = last
        BY <3>1
      <4> HIDE DEF g
      <4> QED
        BY <3>1, <4>2, <4>3
    <3>2. CASE i # m
      <4>1. i \in 1 .. (m - 1) /\ g[i] = f[i]
        BY <3>2
      <4>2. f[i] = IF i = 1 THEN seqs[i] ELSE f[i - 1] \o seqs[i]
        BY <1>2, <4>1
      <4>3. i # 1 => g[i - 1] = f[i - 1]
        BY <4>1
      <4> HIDE DEF g
      <4> QED
        BY <4>1, <4>2, <4>3
    <3> QED
      BY <3>1, <3>2
  <2>2. g = [i \in 1 .. m |-> g[i]]
    OBVIOUS
  <2> HIDE DEF g
  <2>3. Equation(g, m)
    BY <2>1, <2>2
  <2> QED
    BY <2>3
<1>3. \E f : Equation(f, 0)
  <2>1. Equation([i \in 1 .. 0 |-> 0], 0)
    OBVIOUS
  <2> QED
    BY <2>1
<1> HIDE DEF Equation
<1>4. \E f : Equation(f, n)
  <2> DEFINE S == {m \in 0 .. n : ~ \E f : Equation(f, m)}
  <2> SUFFICES ASSUME S # {} PROVE FALSE
    <3>1. n \in 0 .. n
      OBVIOUS
    <3> QED
      BY <3>1
  <2>1. PICK m \in S : \A k \in S : m <= k
    <3>1. S \in SUBSET Nat
      OBVIOUS
    <3> HIDE DEF S
    <3> QED
      BY <3>1, LeastOf
  <2>2. m \in 1 .. n /\ m - 1 \in 0 .. n
    BY <1>3
  <2>3. m - 1 \notin S
    BY <2>1, <2>2
  <2>4. \E f : Equation(f, m - 1)
    BY <2>2, <2>3
  <2> QED
    BY <1>2, <2>2, <2>4
<1>5. Equation(flatten, n)
  BY <1>4
<1> HIDE DEF flatten
<1>6. \A i \in 1 .. n : flatten[i] = IF i = 1 THEN seqs[i] ELSE flatten[i - 1] \o seqs[i]
  BY <1>5 DEF Equation
<1>7. Flattening(n, seqs, flatten)
  BY <1>1, <1>6 DEF Flattening
<1> QED
  BY <1>7

(* The concatenation of one or more sequences of a set that is closed      *)
(* under it is in the set.                                                 *)
LEMMA Flattened ==
  ASSUME NEW T, \A s, t \in T : s \o t \in T,
         NEW n \in Nat \ {0}, NEW seqs \in [1 .. n -> T]
  PROVE  FlattenSeq(seqs) \in T
<1>1. PICK flatten : Flattening(n, seqs, flatten)
  BY FlattenSteps
<1> USE DEF Flattening
<1>2. \A i \in 1 .. n : flatten[i] \in T
  <2> DEFINE S == {i \in 1 .. n : flatten[i] \notin T}
  <2> SUFFICES ASSUME S # {} PROVE FALSE
    OBVIOUS
  <2>1. PICK i \in S : \A k \in S : i <= k
    <3>1. S \in SUBSET Nat
      OBVIOUS
    <3> HIDE DEF S
    <3> QED
      BY <3>1, LeastOf
  <2>2. CASE i = 1
    BY <1>1, <2>2
  <2>3. CASE i # 1
    <3>1. i \in 1 .. n /\ i - 1 \in 1 .. n
      BY <2>3
    <3>2. i - 1 \notin S
      BY <2>1, <3>1
    <3>3. flatten[i - 1] \in T
      BY <3>1, <3>2
    <3>4. flatten[i] = flatten[i - 1] \o seqs[i]
      BY <1>1, <2>3, <3>1
    <3>5. seqs[i] \in T
      BY <3>1
    <3> QED
      BY <3>3, <3>4, <3>5
  <2> QED
    BY <2>2, <2>3
<1> QED
  BY <1>1, <1>2

(* Step by step from 0 up.                                                 *)
LEMMA UpTo ==
  ASSUME NEW m \in Nat, NEW P, 0 \in P, \A n \in 1 .. m : n - 1 \in P => n \in P
  PROVE  \A n \in 0 .. m : n \in P
<1> DEFINE S == {n \in 0 .. m : n \notin P}
<1> SUFFICES ASSUME S # {} PROVE FALSE
  OBVIOUS
<1>1. PICK n \in S : \A k \in S : n <= k
  <2>1. S \in SUBSET Nat
    OBVIOUS
  <2> HIDE DEF S
  <2> QED
    BY <2>1, LeastOf
<1>2. n \in 1 .. m /\ n - 1 \in 0 .. m
  OBVIOUS
<1>3. n - 1 \notin S
  BY <1>1, <1>2
<1> QED
  BY <1>2, <1>3

(* Functions of a set to itself, applied one after the other.              *)
Iterates(m, S, base, F, f) ==
  f \in [0 .. m -> S] /\ f[0] = base /\ \A n \in 1 .. m : f[n] = F[n][f[n - 1]]

LEMMA Iterated ==
  ASSUME NEW m \in Nat, NEW S, NEW base \in S, NEW F \in [1 .. m -> [S -> S]]
  PROVE  \E f : Iterates(m, S, base, F, f)
<1> DEFINE Up(k, f) == f[0] = base /\ \A n \in 1 .. k : f[n] = F[n][f[n - 1]]
           P == {k \in 0 .. m : \E f \in [0 .. k -> S] : Up(k, f)}
<1>1. 0 \in P
  <2> DEFINE f == [n \in 0 .. 0 |-> base]
  <2>1. f \in [0 .. 0 -> S] /\ Up(0, f)
    OBVIOUS
  <2> HIDE DEF f
  <2> QED
    BY <2>1
<1>2. ASSUME NEW k \in 1 .. m, k - 1 \in P PROVE k \in P
  <2>1. PICK f \in [0 .. (k - 1) -> S] : Up(k - 1, f)
    BY <1>2
  <2> DEFINE last == F[k][f[k - 1]]
             g == [n \in 0 .. k |-> IF n = k THEN last ELSE f[n]]
  <2>2. last \in S
    <3>1. k - 1 \in 0 .. (k - 1)
      OBVIOUS
    <3>2. f[k - 1] \in S /\ F[k] \in [S -> S]
      BY <3>1
    <3> QED
      BY <3>2
  <2>3. g \in [0 .. k -> S]
    <3> HIDE DEF last
    <3> QED
      BY <2>2
  <2>4. \A n \in 0 .. k - 1 : g[n] = f[n]
    OBVIOUS
  <2>5. g[k] = last
    OBVIOUS
  <2> HIDE DEF g
  <2>6. g[0] = base
    BY <2>1, <2>4
  <2>7. ASSUME NEW n \in 1 .. k PROVE g[n] = F[n][g[n - 1]]
    <3>1. n - 1 \in 0 .. k - 1
      OBVIOUS
    <3>2. g[n - 1] = f[n - 1]
      BY <2>4, <3>1
    <3>3. CASE n = k
      BY <2>5, <3>2, <3>3
    <3>4. CASE n # k
      <4>1. n \in 1 .. k - 1 /\ n \in 0 .. k - 1
        BY <3>4
      <4>2. f[n] = F[n][f[n - 1]]
        BY <2>1, <4>1
      <4> QED
        BY <2>4, <3>2, <4>1, <4>2
    <3> QED
      BY <3>3, <3>4
  <2>8. Up(k, g)
    BY <2>6, <2>7
  <2> HIDE DEF Up
  <2> QED
    BY <2>3, <2>8
<1>3. m \in P
  <2> HIDE DEF P
  <2>1. \A n \in 0 .. m : n \in P
    BY <1>1, <1>2, UpTo
  <2> QED
    BY <2>1
<1> QED
  BY <1>3 DEF Iterates

-----------------------------------------------------------------------------
(* Sequences of things that lead from one point to another.                *)

(* A sequence of things of T leads from p to q when points of P, one before *)
(* and one after each thing, are related by R as the thing says.           *)
Route(P, R, s, p, q, f) ==
  /\ f \in [1 .. Len(s) + 1 -> P] /\ f[1] = p /\ f[Len(s) + 1] = q
  /\ \A i \in 1 .. Len(s) : <<s[i], f[i], f[i + 1]>> \in R

Runs(T, P, R, s, p, q) == s \in Seq(T) /\ \E f : Route(P, R, s, p, q, f)

LEMMA RunsNone ==
  ASSUME NEW T, NEW P, NEW R, NEW p \in P
  PROVE  Runs(T, P, R, <<>>, p, p)
<1> DEFINE f == [i \in 1 .. 1 |-> p]
<1>1. Len(<<>>) = 0 /\ <<>> \in Seq(T) /\ f \in [1 .. 0 + 1 -> P] /\ f[1] = p
  BY EmptySeq
<1> HIDE DEF f
<1>2. Route(P, R, <<>>, p, p, f)
  BY <1>1 DEF Route
<1> QED
  BY <1>1, <1>2 DEF Runs

LEMMA RunsOne ==
  ASSUME NEW T, NEW P, NEW R, NEW thing \in T, NEW p \in P, NEW q \in P, <<thing, p, q>> \in R
  PROVE  Runs(T, P, R, <<thing>>, p, q)
<1> DEFINE f == [i \in 1 .. 2 |-> IF i = 1 THEN p ELSE q]
           s == <<thing>>
<1>1. Len(s) = 1 /\ s \in Seq(T) /\ s[1] = thing
  OBVIOUS
<1>2. f \in [1 .. 1 + 1 -> P] /\ f[1] = p /\ f[1 + 1] = q
  OBVIOUS
<1> HIDE DEF f, s
<1>3. Route(P, R, s, p, q, f)
  BY <1>1, <1>2 DEF Route
<1>4. Runs(T, P, R, s, p, q)
  BY <1>1, <1>3 DEF Runs
<1> QED
  BY <1>4 DEF s

LEMMA RunsBoth ==
  ASSUME NEW T, NEW P, NEW R, NEW s, NEW t, NEW p, NEW q, NEW r, Runs(T, P, R, s, p, q), Runs(T, P, R, t, q, r)
  PROVE  Runs(T, P, R, s \o t, p, r)
<1> DEFINE m == Len(s)
           n == Len(t)
           both == s \o t
<1>1. s \in Seq(T) /\ t \in Seq(T)
  BY DEF Runs
<1>2. m \in Nat /\ n \in Nat
  BY <1>1, LenProperties
<1>3. both \in Seq(T) /\ Len(both) = m + n
  BY <1>1, ConcatProperties
<1>4. ASSUME NEW i \in 1 .. m + n PROVE both[i] = IF i <= m THEN s[i] ELSE t[i - m]
  BY <1>1, ConcatProperties
<1>5. PICK f : Route(P, R, s, p, q, f)
  BY DEF Runs
<1>6. PICK g : Route(P, R, t, q, r, g)
  BY DEF Runs
<1>7. /\ f \in [1 .. m + 1 -> P] /\ f[1] = p /\ f[m + 1] = q
      /\ \A i \in 1 .. m : <<s[i], f[i], f[i + 1]>> \in R
  BY <1>5 DEF Route
<1>8. /\ g \in [1 .. n + 1 -> P] /\ g[1] = q /\ g[n + 1] = r
      /\ \A i \in 1 .. n : <<t[i], g[i], g[i + 1]>> \in R
  BY <1>6 DEF Route
<1> DEFINE h == [i \in 1 .. m + n + 1 |-> IF i <= m THEN f[i] ELSE g[i - m]]
<1> HIDE DEF m, n, both
<1>9. ASSUME NEW i \in 1 .. m + n + 1
      PROVE  /\ i <= m + 1 => h[i] = f[i]
             /\ i > m => h[i] = g[i - m]
             /\ h[i] \in P
  <2>1. CASE i <= m
    <3>1. i \in 1 .. m + 1 /\ h[i] = f[i]
      BY <1>2, <2>1
    <3> HIDE DEF h
    <3> QED
      BY <1>2, <1>7, <2>1, <3>1
  <2>2. CASE i > m
    <3>1. i - m \in 1 .. n + 1 /\ h[i] = g[i - m]
      BY <1>2, <2>2
    <3> HIDE DEF h
    <3>2. i <= m + 1 => i = m + 1 /\ i - m = 1
      BY <1>2, <2>2
    <3>3. i <= m + 1 => h[i] = f[i]
      BY <1>7, <1>8, <3>1, <3>2
    <3>4. h[i] \in P
      BY <1>8, <3>1
    <3> QED
      BY <3>1, <3>3, <3>4
  <2> QED
    BY <1>2, <2>1, <2>2
<1>10. h = [i \in 1 .. (m + n) + 1 |-> h[i]]
  BY <1>2
<1> HIDE DEF h
<1>11. ASSUME NEW i \in 1 .. m + n PROVE <<both[i], h[i], h[i + 1]>> \in R
  <2>1. CASE i <= m
    <3>1. i \in 1 .. m /\ i \in 1 .. m + n + 1 /\ i + 1 \in 1 .. m + n + 1 /\ i + 1 <= m + 1 /\ i <= m + 1
      BY <1>2, <2>1
    <3>2. h[i] = f[i] /\ h[i + 1] = f[i + 1] /\ both[i] = s[i]
      BY <1>4, <1>9, <2>1, <3>1
    <3> QED
      BY <1>7, <3>1, <3>2
  <2>2. CASE i > m
    <3>1. PICK j \in 1 .. n : i = j + m
      BY <1>2, <2>2
    <3>2. /\ i \in 1 .. m + n + 1 /\ i + 1 \in 1 .. m + n + 1 /\ i + 1 > m
          /\ i - m = j /\ (i + 1) - m = j + 1 /\ ~(i <= m)
      BY <1>2, <3>1
    <3>3. h[i] = g[i - m] /\ h[i + 1] = g[(i + 1) - m] /\ both[i] = t[i - m]
      BY <1>4, <1>9, <2>2, <3>2
    <3>4. h[i] = g[j] /\ h[i + 1] = g[j + 1] /\ both[i] = t[j]
      BY <3>2, <3>3
    <3> QED
      BY <1>8, <3>1, <3>4
  <2> QED
    BY <1>2, <2>1, <2>2
<1>12. h[1] = p
  <2>1. 1 \in 1 .. m + n + 1 /\ 1 <= m + 1
    BY <1>2
  <2> QED
    BY <1>7, <1>9, <2>1
<1>13. h[(m + n) + 1] = r
  <2>1. /\ (m + n) + 1 \in 1 .. m + n + 1 /\ (m + n) + 1 > m
        /\ ((m + n) + 1) - m = n + 1
    BY <1>2
  <2> QED
    BY <1>8, <1>9, <2>1
<1>14. h \in [1 .. (m + n) + 1 -> P]
  BY <1>9, <1>10
<1>15. Route(P, R, both, p, r, h)
  BY <1>3, <1>11, <1>12, <1>13, <1>14 DEF Route
<1> QED
  BY <1>3, <1>15 DEF Runs, both

LEMMA RunsFirst ==
  ASSUME NEW T, NEW P, NEW R, NEW s, NEW p, NEW r, Runs(T, P, R, s, p, r), s # <<>>
  PROVE  /\ Head(s) \in T /\ p \in P
         /\ \E q \in P : <<Head(s), p, q>> \in R /\ Runs(T, P, R, Tail(s), q, r)
<1> DEFINE n == Len(s)
           rest == Tail(s)
<1>1. s \in Seq(T)
  BY DEF Runs
<1>2. n \in Nat /\ n > 0
  BY <1>1, LenProperties, EmptySeq
<1>3. /\ Head(s) \in T /\ Head(s) = s[1]
      /\ rest \in Seq(T) /\ Len(rest) = n - 1
      /\ \A i \in 1 .. n - 1 : rest[i] = s[i + 1]
  BY <1>1, HeadTailProperties
<1>4. PICK f : Route(P, R, s, p, r, f)
  BY DEF Runs
<1>5. /\ f \in [1 .. n + 1 -> P] /\ f[1] = p /\ f[n + 1] = r
      /\ \A i \in 1 .. n : <<s[i], f[i], f[i + 1]>> \in R
  BY <1>4 DEF Route
<1> HIDE DEF n, rest
<1> DEFINE g == [i \in 1 .. (n - 1) + 1 |-> f[i + 1]]
<1>6. \A i \in 1 .. (n - 1) + 1 : i + 1 \in 1 .. n + 1 /\ g[i] = f[i + 1]
  BY <1>2
<1>7. g \in [1 .. (n - 1) + 1 -> P]
  BY <1>5, <1>6
<1> HIDE DEF g
<1>8. ASSUME NEW i \in 1 .. n - 1 PROVE <<rest[i], g[i], g[i + 1]>> \in R
  <2>1. /\ i + 1 \in 1 .. n /\ i \in 1 .. (n - 1) + 1 /\ i + 1 \in 1 .. (n - 1) + 1
    BY <1>2
  <2>2. g[i] = f[i + 1] /\ g[i + 1] = f[(i + 1) + 1] /\ rest[i] = s[i + 1]
    BY <1>3, <1>6, <2>1
  <2> QED
    BY <1>5, <2>1, <2>2
<1>9. g[1] = f[1 + 1] /\ g[(n - 1) + 1] = r /\ 1 + 1 \in 1 .. n + 1 /\ 1 \in 1 .. n /\ 1 \in 1 .. n + 1
  <2>1. 1 \in 1 .. (n - 1) + 1 /\ (n - 1) + 1 \in 1 .. (n - 1) + 1 /\ ((n - 1) + 1) + 1 = n + 1
    BY <1>2
  <2> QED
    BY <1>2, <1>5, <1>6, <2>1
<1>10. Route(P, R, rest, f[1 + 1], r, g)
  BY <1>3, <1>7, <1>8, <1>9 DEF Route
<1>11. Runs(T, P, R, rest, f[1 + 1], r)
  BY <1>3, <1>10 DEF Runs
<1>12. <<Head(s), p, f[1 + 1]>> \in R /\ f[1 + 1] \in P /\ p \in P
  BY <1>3, <1>5, <1>9
<1> QED
  BY <1>3, <1>11, <1>12 DEF rest

LEMMA RunsEach ==
  ASSUME NEW T, NEW P, NEW R, NEW p \in P, NEW s \in Seq(T),
         \A i \in 1 .. Len(s) : <<s[i], p, p>> \in R
  PROVE  Runs(T, P, R, s, p, p)
<1> DEFINE n == Len(s)
           f == [i \in 1 .. n + 1 |-> p]
<1>1. n \in Nat
  BY LenProperties
<1> HIDE DEF n
<1>2. f \in [1 .. n + 1 -> P] /\ f[1] = p /\ f[n + 1] = p
  BY <1>1
<1>3. ASSUME NEW i \in 1 .. n PROVE <<s[i], f[i], f[i + 1]>> \in R
  <2>1. f[i] = p /\ f[i + 1] = p
    BY <1>1
  <2> HIDE DEF f
  <2> QED
    BY <2>1 DEF n
<1> HIDE DEF f
<1>4. Route(P, R, s, p, p, f)
  BY <1>2, <1>3 DEF Route, n
<1> QED
  BY <1>4 DEF Runs

(* When the last of them may leave off at q.                               *)

LEMMA RunsUntil ==
  ASSUME NEW T, NEW P, NEW R, NEW p \in P, NEW q \in P, NEW s \in Seq(T), s # <<>>,
         \A i \in 1 .. Len(s) : <<s[i], p, p>> \in R /\ <<s[i], p, q>> \in R
  PROVE  Runs(T, P, R, s, p, q)
<1> DEFINE n == Len(s)
           f == [i \in 1 .. n + 1 |-> IF i <= n THEN p ELSE q]
<1>1. n \in Nat /\ n > 0
  BY LenProperties, EmptySeq
<1>2. \A i \in 1 .. n : <<s[i], p, p>> \in R /\ <<s[i], p, q>> \in R
  OBVIOUS
<1> HIDE DEF n
<1>3. f \in [1 .. n + 1 -> P] /\ f[1] = p /\ f[n + 1] = q
  BY <1>1
<1>4. ASSUME NEW i \in 1 .. n PROVE <<s[i], f[i], f[i + 1]>> \in R
  <2>1. f[i] = p /\ (f[i + 1] = p \/ f[i + 1] = q)
    BY <1>1
  <2> HIDE DEF f
  <2> QED
    BY <1>2, <2>1
<1> HIDE DEF f
<1>5. Route(P, R, s, p, q, f)
  BY <1>3, <1>4 DEF Route, n
<1> QED
  BY <1>5 DEF Runs

(* When each of several sequences takes one point to the next.             *)
LEMMA RunsFlat ==
  ASSUME NEW T, NEW P, NEW R, NEW n \in Nat, NEW seqs \in [1 .. n -> Seq(T)],
         NEW h \in [0 .. n -> P], \A i \in 1 .. n : Runs(T, P, R, seqs[i], h[i - 1], h[i])
  PROVE  Runs(T, P, R, FlattenSeq(seqs), h[0], h[n])
<1>1. CASE n = 0
  <2>1. seqs = <<>> /\ Len(seqs) = 0 /\ h[0] \in P
    BY <1>1
  <2> QED
    BY <1>1, <2>1, RunsNone DEF FlattenSeq
<1>2. CASE n # 0
  <2>1. n \in Nat \ {0}
    BY <1>2
  <2>2. PICK flat : Flattening(n, seqs, flat)
    BY <2>1, FlattenSteps
  <2> USE DEF Flattening
  <2> DEFINE Good == {i \in 0 .. n : i = 0 \/ Runs(T, P, R, flat[i], h[0], h[i])}
  <2>3. 0 \in Good
    OBVIOUS
  <2>4. ASSUME NEW i \in 1 .. n, i - 1 \in Good PROVE i \in Good
    <3>1. CASE i = 1
      <4>1. flat[i] = seqs[i] /\ i - 1 = 0 /\ Runs(T, P, R, seqs[i], h[i - 1], h[i])
        BY <2>2, <3>1
      <4>2. Runs(T, P, R, flat[i], h[0], h[i])
        BY <4>1
      <4> QED
        BY <4>2
    <3>2. CASE i # 1
      <4>1. flat[i] = flat[i - 1] \o seqs[i] /\ Runs(T, P, R, seqs[i], h[i - 1], h[i])
        BY <2>2, <3>2
      <4>2. Runs(T, P, R, flat[i - 1], h[0], h[i - 1])
        BY <2>4, <3>2
      <4>3. Runs(T, P, R, flat[i], h[0], h[i])
        BY <4>1, <4>2, RunsBoth
      <4> QED
        BY <4>3
    <3> QED
      BY <3>1, <3>2
  <2>5. \A i \in 0 .. n : i \in Good
    <3> HIDE DEF Good
    <3> QED
      BY <2>3, <2>4, UpTo
  <2>6. n \in Good /\ n # 0
    BY <1>2, <2>5
  <2> QED
    BY <2>2, <2>6
<1> QED
  BY <1>1, <1>2

LEMMA RunsNothing ==
  ASSUME NEW T, NEW P, NEW R, NEW p, NEW q, Runs(T, P, R, <<>>, p, q)
  PROVE  p = q
<1>1. PICK f : Route(P, R, <<>>, p, q, f)
  BY DEF Runs
<1>2. Len(<<>>) = 0
  BY EmptySeq
<1>3. f[1] = p /\ f[0 + 1] = q
  BY <1>1, <1>2 DEF Route
<1> QED
  BY <1>3

-----------------------------------------------------------------------------
(* Paths.                                                                  *)

WalkEquation(items, path, n, f) ==
  f = [i \in 1 .. n |-> IF i = 1 THEN items[path[1]].body ELSE f[i - 1].kids[path[i]]]

LEMMA WalkExists ==
  ASSUME NEW items, NEW path, NEW n \in Nat
  PROVE  \E f : WalkEquation(items, path, n, f)
<1> DEFINE Equation(f, m) == WalkEquation(items, path, m, f)
<1> USE DEF WalkEquation
<1>1. ASSUME NEW m \in 1 .. n, NEW f, Equation(f, m - 1)
      PROVE  \E g : Equation(g, m)
  <2> DEFINE last == IF m = 1 THEN items[path[1]].body ELSE f[m - 1].kids[path[m]]
             g == [i \in 1 .. m |-> IF i = m THEN last ELSE f[i]]
  <2>1. ASSUME NEW i \in 1 .. m
        PROVE  g[i] = IF i = 1 THEN items[path[1]].body ELSE g[i - 1].kids[path[i]]
    <3>1. i # 1 => i - 1 \in 1 .. m /\ i - 1 # m
      OBVIOUS
    <3>2. i # 1 => g[i - 1] = f[i - 1]
      BY <3>1
    <3>3. CASE i = m
      <4>1. g[i] = last
        BY <3>3
      <4> HIDE DEF g
      <4> QED
        BY <3>2, <3>3, <4>1
    <3>4. CASE i # m
      <4>1. i \in 1 .. (m - 1) /\ g[i] = f[i]
        BY <3>4
      <4>2. f[i] = IF i = 1 THEN items[path[1]].body ELSE f[i - 1].kids[path[i]]
        BY <1>1, <4>1
      <4> HIDE DEF g
      <4> QED
        BY <3>2, <4>1, <4>2
    <3> QED
      BY <3>3, <3>4
  <2>2. g = [i \in 1 .. m |-> g[i]]
    OBVIOUS
  <2> HIDE DEF g
  <2>3. Equation(g, m)
    BY <2>1, <2>2
  <2> QED
    BY <2>3
<1>2. \E f : Equation(f, 0)
  <2>1. Equation([i \in 1 .. 0 |-> 0], 0)
    OBVIOUS
  <2> QED
    BY <2>1
<1> HIDE DEF Equation, WalkEquation
<1>3. \E f : Equation(f, n)
  <2> DEFINE S == {m \in 0 .. n : ~ \E f : Equation(f, m)}
  <2> SUFFICES ASSUME S # {} PROVE FALSE
    OBVIOUS
  <2>1. PICK m \in S : \A k \in S : m <= k
    <3>1. S \in SUBSET Nat
      OBVIOUS
    <3> HIDE DEF S
    <3> QED
      BY <3>1, LeastOf
  <2>2. m \in 1 .. n /\ m - 1 \in 0 .. n
    BY <1>2
  <2>3. m - 1 \notin S
    BY <2>1, <2>2
  <2>4. \E f : Equation(f, m - 1)
    BY <2>2, <2>3
  <2> QED
    BY <1>1, <2>2, <2>4
<1> QED
  BY <1>3 DEF Equation

(* The walk along a path: what it meets last is the node. *)
LEMMA WalkAlong ==
  ASSUME NEW items, NEW path \in Seq(Nat), path # <<>>
  PROVE  \E f : /\ f[1] = items[path[1]].body
                /\ \A i \in 2 .. Len(path) : f[i] = f[i - 1].kids[path[i]]
                /\ NodeIn(items, path) = f[Len(path)]
<1> DEFINE n == Len(path)
           Equation(f) == WalkEquation(items, path, n, f)
           walk == CHOOSE f : Equation(f)
<1>1. NodeIn(items, path) = walk[n]
  BY DEF NodeIn, WalkEquation
<1>2. n \in Nat /\ n > 0
  BY LenProperties, EmptySeq
<1> HIDE DEF n
<1>3. Equation(walk)
  <2>1. n \in Nat => \E f : Equation(f)
    BY WalkExists
  <2>2. \E f : Equation(f)
    BY <1>2, <2>1
  <2> HIDE DEF Equation
  <2> QED
    BY <2>2
<1> HIDE DEF walk
<1>4. 1 \in 1 .. n /\ \A i \in 2 .. n : i \in 1 .. n /\ i # 1
  BY <1>2
<1>5. walk[1] = items[path[1]].body /\ \A i \in 2 .. n : walk[i] = walk[i - 1].kids[path[i]]
  BY <1>3, <1>4 DEF WalkEquation
<1> QED
  BY <1>1, <1>5 DEF n

(* The node of an item, and a kid of a node.                               *)
LEMMA NodeOfItem ==
  ASSUME NEW items, NEW i \in Nat
  PROVE  NodeIn(items, <<i>>) = items[i].body
<1>1. <<i>> \in Seq(Nat) /\ <<i>> # <<>> /\ Len(<<i>>) = 1 /\ <<i>>[1] = i
  OBVIOUS
<1> QED
  BY <1>1, WalkAlong

LEMMA NodeOfKid ==
  ASSUME NEW items, NEW path \in Seq(Nat), path # <<>>, NEW k \in Nat
  PROVE  NodeIn(items, Append(path, k)) = NodeIn(items, path).kids[k]
<1> DEFINE n == Len(path)
           long == Append(path, k)
<1>1. n \in Nat /\ n > 0
  BY LenProperties, EmptySeq
<1>2. /\ long \in Seq(Nat) /\ long # <<>> /\ Len(long) = n + 1 /\ long[n + 1] = k
      /\ \A i \in 1 .. n : long[i] = path[i]
  BY AppendProperties
<1> HIDE DEF long
<1>3. PICK f : /\ f[1] = items[path[1]].body
               /\ \A i \in 2 .. n : f[i] = f[i - 1].kids[path[i]]
               /\ NodeIn(items, path) = f[n]
  BY WalkAlong
<1>4. PICK g : /\ g[1] = items[long[1]].body
               /\ \A i \in 2 .. n + 1 : g[i] = g[i - 1].kids[long[i]]
               /\ NodeIn(items, long) = g[n + 1]
  <2>1. \E g : /\ g[1] = items[long[1]].body
               /\ \A i \in 2 .. Len(long) : g[i] = g[i - 1].kids[long[i]]
               /\ NodeIn(items, long) = g[Len(long)]
    BY <1>2, WalkAlong
  <2> HIDE DEF n
  <2> QED
    BY <1>2, <2>1
<1> HIDE DEF n
<1>5. \A i \in 1 .. n : g[i] = f[i]
  <2> DEFINE S == {i \in 1 .. n : g[i] # f[i]}
  <2> SUFFICES ASSUME S # {} PROVE FALSE
    OBVIOUS
  <2>1. PICK i \in S : \A j \in S : i <= j
    <3>1. S \in SUBSET Nat
      OBVIOUS
    <3> HIDE DEF S
    <3> QED
      BY <3>1, LeastOf
  <2>2. CASE i = 1
    BY <1>1, <1>2, <1>3, <1>4, <2>2
  <2>3. CASE i # 1
    <3>1. i \in 2 .. n /\ i \in 2 .. n + 1 /\ i - 1 \in 1 .. n /\ i \in 1 .. n
      BY <1>1, <2>3
    <3>2. i - 1 \notin S
      BY <2>1, <3>1
    <3>3. g[i - 1] = f[i - 1]
      BY <3>1, <3>2
    <3>4. g[i] = g[i - 1].kids[long[i]] /\ f[i] = f[i - 1].kids[path[i]] /\ long[i] = path[i]
      BY <1>2, <1>3, <1>4, <3>1
    <3> QED
      BY <3>3, <3>4
  <2> QED
    BY <2>2, <2>3
<1>6. n + 1 \in 2 .. n + 1 /\ n \in 1 .. n /\ (n + 1) - 1 = n
  BY <1>1
<1>7. g[n + 1] = g[n].kids[k]
  BY <1>2, <1>4, <1>6
<1> QED
  BY <1>3, <1>4, <1>5, <1>6, <1>7 DEF long
-----------------------------------------------------------------------------
(* The names that a tree leaves free.                                      *)

LEMMA SBindTyped ==
  ASSUME NEW scope \in Scope, NEW name \in Names
  PROVE  SBind(scope, name) \in Scope
<1> DEFINE cap == Grown(Len(scope.vars), scope.cap)
<1>1. scope.vars \in Seq(Var) /\ scope.cap \in Nat /\ scope.offc \in Nat
  BY DEF Scope
<1>2. cap \in Nat
  BY <1>1, LenProperties DEF Grown
<1>3. Added(scope, name) \in Scope
  <2>1. [name |-> name, off |-> scope.offc] \in Var
    BY <1>1 DEF Var
  <2>2. Append(scope.vars, [name |-> name, off |-> scope.offc]) \in Seq(Var)
    BY <1>1, <2>1, AppendProperties
  <2>3. scope.offc + 1 \in Nat
    BY <1>1
  <2> HIDE DEF cap
  <2> QED
    BY <1>2, <2>2, <2>3 DEF Added, Scope, cap
<1>4. [scope EXCEPT !.cap = cap] \in Scope
  <2> HIDE DEF cap
  <2> QED
    BY <1>1, <1>2 DEF Scope
<1> QED
  BY <1>3, <1>4 DEF SBind

LEMMA NewScopeTyped == NewScope(1) \in Scope
  BY EmptySeq DEF NewScope, Scope, DefaultSize

UnbindEquation(scope, names, n, f) ==
  f = [i \in 0 .. n |->
         IF i = 0 THEN NewScope(1)
         ELSE LET name == scope.vars[i].name
              IN  IF name \in names THEN f[i - 1] ELSE SBind(f[i - 1], name)]

(* Name by name, those in names left out.                                  *)
WalksUnbinding(scope, names, kept) ==
  /\ kept[0] = NewScope(1)
  /\ \A i \in 1 .. Len(scope.vars) :
       kept[i] = IF scope.vars[i].name \in names THEN kept[i - 1]
                 ELSE SBind(kept[i - 1], scope.vars[i].name)
  /\ \A i \in 0 .. Len(scope.vars) : kept[i] \in Scope
  /\ Unbind(scope, names) = kept[Len(scope.vars)]

LEMMA UnbindWalk ==
  ASSUME NEW scope \in Scope, NEW names
  PROVE  \E kept : WalksUnbinding(scope, names, kept)
<1> DEFINE n == Len(scope.vars)
           Name(i) == scope.vars[i].name
           kept == CHOOSE f : UnbindEquation(scope, names, n, f)
<1>1. Unbind(scope, names) = kept[n]
  BY DEF Unbind, UnbindEquation
<1>2. n \in Nat /\ \A i \in 1 .. n : Name(i) \in Names
  <2>1. scope.vars \in Seq(Var)
    BY DEF Scope
  <2>2. \A i \in 1 .. n : scope.vars[i] \in Var
    BY <2>1, ElementOfSeq
  <2> QED
    BY <2>1, <2>2, LenProperties DEF Var
<1> HIDE DEF n
<1>3. \E f : UnbindEquation(scope, names, n, f)
  <2> DEFINE F == [i \in 1 .. n |-> [s \in Scope |-> IF Name(i) \in names THEN s
                                                     ELSE SBind(s, Name(i))]]
  <2>1. F \in [1 .. n -> [Scope -> Scope]]
    BY <1>2, SBindTyped
  <2>2. PICK f : Iterates(n, Scope, NewScope(1), F, f)
    <3> HIDE DEF F
    <3> QED
      BY <1>2, <2>1, NewScopeTyped, Iterated
  <2>3. ASSUME NEW i \in 0 .. n
        PROVE  f[i] = IF i = 0 THEN NewScope(1)
                      ELSE IF Name(i) \in names THEN f[i - 1] ELSE SBind(f[i - 1], Name(i))
    <3>1. i # 0 => i \in 1 .. n /\ i - 1 \in 0 .. n
      BY <1>2
    <3>2. f[0] = NewScope(1) /\ \A j \in 0 .. n : f[j] \in Scope
      BY <2>2 DEF Iterates
    <3>3. i # 0 => f[i] = F[i][f[i - 1]]
      BY <2>2, <3>1 DEF Iterates
    <3> QED
      BY <3>1, <3>2, <3>3
  <2> QED
    BY <2>2, <2>3 DEF UnbindEquation, Iterates
<1>4. UnbindEquation(scope, names, n, kept)
  BY <1>3
<1> HIDE DEF kept
<1>5. kept[0] = NewScope(1) /\ \A i \in 1 .. n : kept[i] = IF Name(i) \in names THEN kept[i - 1]
                                                            ELSE SBind(kept[i - 1], Name(i))
  BY <1>2, <1>4 DEF UnbindEquation
<1>6. \A i \in 0 .. n : kept[i] \in Scope
  <2> DEFINE P == {i \in 0 .. n : kept[i] \in Scope}
  <2>1. 0 \in P
    BY <1>2, <1>5, NewScopeTyped
  <2>2. ASSUME NEW i \in 1 .. n, i - 1 \in P PROVE i \in P
    <3>1. kept[i - 1] \in Scope /\ Name(i) \in Names /\ i \in 0 .. n
      BY <1>2, <2>2
    <3> HIDE DEF Name
    <3> QED
      BY <1>5, <3>1, SBindTyped
  <2>3. \A i \in 0 .. n : i \in P
    <3> HIDE DEF P
    <3> QED
      BY <1>2, <2>1, <2>2, UpTo
  <2> QED
    BY <2>3
<1>7. WalksUnbinding(scope, names, kept)
  BY <1>1, <1>5, <1>6 DEF WalksUnbinding, n
<1> QED
  BY <1>7

LEMMA UnbindTyped ==
  ASSUME NEW scope \in Scope, NEW names
  PROVE  Unbind(scope, names) \in Scope
<1>1. Len(scope.vars) \in 0 .. Len(scope.vars)
  <2>1. scope.vars \in Seq(Var)
    BY DEF Scope
  <2> QED
    BY <2>1, LenProperties
<1>2. PICK kept : WalksUnbinding(scope, names, kept)
  BY UnbindWalk
<1> QED
  BY <1>1, <1>2 DEF WalksUnbinding

ThroughEquation(f, kids, scope, n, walk) ==
  walk = [k \in 0 .. n |-> IF k = 0 THEN scope ELSE f[kids[k]][walk[k - 1]]]

(* From kid to kid, when each of them makes a scope of a scope.            *)
WalksThrough(f, kids, scope, walk) ==
  /\ walk \in [0 .. Len(kids) -> Scope]
  /\ walk[0] = scope
  /\ \A k \in 1 .. Len(kids) : walk[k] = f[kids[k]][walk[k - 1]]
  /\ Through(f, kids, scope) = walk[Len(kids)]

LEMMA ThroughWalk ==
  ASSUME NEW f, NEW S, NEW kids \in Seq(S), NEW scope \in Scope,
         \A k \in 1 .. Len(kids) : f[kids[k]] \in [Scope -> Scope]
  PROVE  \E walk : WalksThrough(f, kids, scope, walk)
<1> DEFINE n == Len(kids)
           walk == CHOOSE w : ThroughEquation(f, kids, scope, n, w)
<1>1. Through(f, kids, scope) = walk[n]
  BY DEF Through, ThroughEquation
<1>2. n \in Nat
  BY LenProperties
<1> HIDE DEF n
<1>3. \E w : ThroughEquation(f, kids, scope, n, w)
  <2> DEFINE F == [k \in 1 .. n |-> f[kids[k]]]
  <2>1. F \in [1 .. n -> [Scope -> Scope]]
    BY DEF n
  <2>2. PICK w : Iterates(n, Scope, scope, F, w)
    <3> HIDE DEF F
    <3> QED
      BY <1>2, <2>1, Iterated
  <2>3. ASSUME NEW k \in 0 .. n
        PROVE  w[k] = IF k = 0 THEN scope ELSE f[kids[k]][w[k - 1]]
    <3>1. k # 0 => k \in 1 .. n
      BY <1>2
    <3> QED
      BY <2>2, <3>1 DEF Iterates
  <2> QED
    BY <2>2, <2>3 DEF ThroughEquation, Iterates
<1>4. ThroughEquation(f, kids, scope, n, walk)
  BY <1>3
<1> HIDE DEF walk
<1>5. walk[0] = scope /\ \A k \in 1 .. n : walk[k] = f[kids[k]][walk[k - 1]]
  BY <1>2, <1>4 DEF ThroughEquation
<1>6. \A k \in 0 .. n : walk[k] \in Scope
  <2> DEFINE P == {k \in 0 .. n : walk[k] \in Scope}
  <2>1. 0 \in P
    BY <1>2, <1>5
  <2>2. ASSUME NEW k \in 1 .. n, k - 1 \in P PROVE k \in P
    <3>1. walk[k - 1] \in Scope /\ f[kids[k]] \in [Scope -> Scope] /\ k \in 0 .. n
      BY <1>2, <2>2 DEF n
    <3> QED
      BY <1>5, <3>1
  <2>3. \A k \in 0 .. n : k \in P
    <3> HIDE DEF P
    <3> QED
      BY <1>2, <2>1, <2>2, UpTo
  <2> QED
    BY <2>3
<1>7. walk \in [0 .. n -> Scope]
  BY <1>4, <1>6 DEF ThroughEquation
<1> QED
  BY <1>1, <1>5, <1>7 DEF n, WalksThrough

LEMMA TreeTyped ==
  ASSUME NEW tree \in Trees
  PROVE  /\ tree.kids \in Seq(Trees) /\ tree.names \in Seq(Names)
         /\ tree.kind \in {"varbl", "callf", "mutst"} => tree.name \in Names
         /\ WellFormed(tree)
  BY GeneratorAssumption

(* The trees of a height of at most h.                                     *)
UpToHeight(h) == IF h = 0 THEN {} ELSE Levels[h]

LEMMA Heights ==
  /\ Len(Levels) \in Nat /\ UpToHeight(0) = {} /\ UpToHeight(Len(Levels)) = Trees
  /\ \A h \in 1 .. Len(Levels) : \A tree \in UpToHeight(h) :
       tree \in Trees /\ \A k \in DOMAIN tree.kids : tree.kids[k] \in UpToHeight(h - 1)
<1> DEFINE n == Len(Levels)
<1>1. n \in Nat /\ n > 0 /\ DOMAIN Levels = 1 .. n /\ \A h \in 1 .. n : Levels[h] \subseteq Trees
  <2>1. Levels \in Seq(SUBSET Trees) /\ Levels # <<>>
    BY GeneratorAssumption
  <2> HIDE DEF Trees
  <2> QED
    BY <2>1, LenProperties, EmptySeq, ElementOfSeq
<1>2. UpToHeight(n) = Trees
  BY <1>1 DEF UpToHeight, Trees
<1>3. ASSUME NEW h \in 1 .. n, NEW tree \in UpToHeight(h), NEW k \in DOMAIN tree.kids
      PROVE  tree.kids[k] \in UpToHeight(h - 1)
  <2> DEFINE below == IF h = 1 THEN {} ELSE Levels[h - 1]
  <2>1. ToSet(tree.kids) \subseteq below
    BY <1>1, <1>3, GeneratorAssumption DEF UpToHeight
  <2>2. below = UpToHeight(h - 1)
    BY <1>1 DEF UpToHeight
  <2> QED
    BY <2>1, <2>2 DEF ToSet
<1> QED
  BY <1>1, <1>2, <1>3 DEF UpToHeight

LEMMA LeavesFreeTyped ==
  ASSUME NEW node \in Trees, NEW scope \in Scope, NEW below \in Scope
  PROVE  LeavesFree(node, scope, below) \in Scope
<1>1. node.kind \in {"varbl", "callf"} => node.name \in Names
  BY TreeTyped
<1> QED
  BY <1>1, SBindTyped, UnbindTyped DEF LeavesFree

LEMMA ThroughTyped ==
  ASSUME NEW f, NEW S, NEW kids \in Seq(S), NEW scope \in Scope,
         \A k \in 1 .. Len(kids) : f[kids[k]] \in [Scope -> Scope]
  PROVE  Through(f, kids, scope) \in Scope
<1>1. Len(kids) \in 0 .. Len(kids)
  BY LenProperties
<1>2. PICK walk : WalksThrough(f, kids, scope, walk)
  BY ThroughWalk
<1> QED
  BY <1>1, <1>2 DEF WalksThrough

LEMMA ThroughSame ==
  ASSUME NEW f, NEW g, NEW S, NEW kids \in Seq(S), NEW scope \in Scope,
         \A k \in 1 .. Len(kids) : f[kids[k]] \in [Scope -> Scope] /\ g[kids[k]] = f[kids[k]]
  PROVE  Through(g, kids, scope) = Through(f, kids, scope)
<1> DEFINE n == Len(kids)
<1>1. n \in Nat
  BY LenProperties
<1>2. PICK v : WalksThrough(f, kids, scope, v)
  BY ThroughWalk
<1>3. \A k \in 1 .. n : g[kids[k]] \in [Scope -> Scope]
  OBVIOUS
<1>4. PICK w : WalksThrough(g, kids, scope, w)
  BY <1>3, ThroughWalk
<1>5. \A k \in 1 .. n : g[kids[k]] = f[kids[k]]
  OBVIOUS
<1> HIDE DEF n
<1>6. \A k \in 0 .. n : w[k] = v[k]
  <2> DEFINE P == {k \in 0 .. n : w[k] = v[k]}
  <2>1. 0 \in P
    BY <1>1, <1>2, <1>4 DEF WalksThrough
  <2>2. ASSUME NEW k \in 1 .. n, k - 1 \in P PROVE k \in P
    <3>1. v[k] = f[kids[k]][v[k - 1]] /\ w[k] = g[kids[k]][w[k - 1]]
      BY <1>2, <1>4 DEF WalksThrough, n
    <3>2. w[k - 1] = v[k - 1] /\ g[kids[k]] = f[kids[k]] /\ k \in 0 .. n
      BY <1>1, <1>5, <2>2
    <3> QED
      BY <3>1, <3>2
  <2>3. \A k \in 0 .. n : k \in P
    <3> HIDE DEF P
    <3> QED
      BY <1>1, <2>1, <2>2, UpTo
  <2> QED
    BY <2>3
<1> QED
  BY <1>1, <1>2, <1>4, <1>6 DEF WalksThrough, n

LFreeAt(f, node) ==
  f[node] = [scope \in Scope |-> LeavesFree(node, scope, Through(f, node.kids, scope))]

LFreeEquation(f) ==
  f = [node \in Trees |->
         [scope \in Scope |-> LeavesFree(node, scope, Through(f, node.kids, scope))]]

LEMMA LFreeExists == \E f : LFreeEquation(f)
<1> DEFINE T == [Trees -> [Scope -> Scope]]
           P == {h \in 0 .. Len(Levels) : \E f \in T : \A node \in UpToHeight(h) : LFreeAt(f, node)}
<1>1. 0 \in P
  <2>1. \E f : f \in T
    <3>1. [node \in Trees |-> [scope \in Scope |-> scope]] \in T
      OBVIOUS
    <3> QED
      BY <3>1
  <2>2. 0 \in 0 .. Len(Levels) /\ UpToHeight(0) = {}
    BY Heights
  <2> HIDE DEF T
  <2> QED
    BY <2>1, <2>2
<1>2. ASSUME NEW h \in 1 .. Len(Levels), h - 1 \in P PROVE h \in P
  <2>1. PICK f \in T : \A node \in UpToHeight(h - 1) : LFreeAt(f, node)
    BY <1>2
  <2> DEFINE g == [node \in Trees |->
                     [scope \in Scope |-> LeavesFree(node, scope, Through(f, node.kids, scope))]]
  <2>2. ASSUME NEW node \in Trees, NEW scope \in Scope
        PROVE  LeavesFree(node, scope, Through(f, node.kids, scope)) \in Scope
    <3>1. node.kids \in Seq(Trees)
      BY TreeTyped
    <3>2. \A k \in 1 .. Len(node.kids) : f[node.kids[k]] \in [Scope -> Scope]
      BY <3>1, ElementOfSeq
    <3>3. Through(f, node.kids, scope) \in Scope
      BY <3>1, <3>2, ThroughTyped
    <3> QED
      BY <3>3, LeavesFreeTyped
  <2>3. g \in T
    BY <2>2
  <2>4. ASSUME NEW node \in UpToHeight(h - 1) PROVE g[node] = f[node]
    <3>1. node \in Trees
      <4>1. h - 1 # 0 => h - 1 \in 1 .. Len(Levels)
        BY Heights
      <4>2. h - 1 = 0 => UpToHeight(h - 1) = {}
        BY Heights
      <4> QED
        BY <4>1, <4>2, Heights
    <3>2. LFreeAt(f, node)
      BY <2>1
    <3> QED
      BY <3>1, <3>2 DEF LFreeAt
  <2>5. ASSUME NEW node \in UpToHeight(h) PROVE LFreeAt(g, node)
    <3>1. node \in Trees /\ \A k \in DOMAIN node.kids : node.kids[k] \in UpToHeight(h - 1)
      BY Heights
    <3>2. node.kids \in Seq(Trees)
      BY <3>1, TreeTyped
    <3>3. \A k \in 1 .. Len(node.kids) : /\ f[node.kids[k]] \in [Scope -> Scope]
                                         /\ g[node.kids[k]] = f[node.kids[k]]
      <4> SUFFICES ASSUME NEW k \in 1 .. Len(node.kids)
                   PROVE  f[node.kids[k]] \in [Scope -> Scope] /\ g[node.kids[k]] = f[node.kids[k]]
        OBVIOUS
      <4>1. k \in DOMAIN node.kids /\ node.kids[k] \in Trees
        BY <3>2, ElementOfSeq, LenProperties
      <4> HIDE DEF g
      <4> QED
        BY <2>4, <3>1, <4>1
    <3>4. g[node] = [scope \in Scope |-> LeavesFree(node, scope, Through(f, node.kids, scope))]
      BY <3>1
    <3> HIDE DEF g
    <3>5. \A scope \in Scope : Through(g, node.kids, scope) = Through(f, node.kids, scope)
      BY <3>2, <3>3, ThroughSame
    <3> QED
      BY <3>4, <3>5 DEF LFreeAt
  <2> HIDE DEF g
  <2> QED
    BY <2>3, <2>5
<1>3. \A h \in 0 .. Len(Levels) : h \in P
  <2> HIDE DEF P
  <2> QED
    BY <1>1, <1>2, UpTo, Heights
<1>4. PICK f \in T : \A node \in Trees : LFreeAt(f, node)
  BY <1>3, Heights
<1>5. f = [node \in Trees |-> f[node]]
  OBVIOUS
<1> QED
  BY <1>4, <1>5 DEF LFreeAt, LFreeEquation

LEMMA LFreeTyped ==
  ASSUME NEW node \in Trees
  PROVE  LFree[node] \in [Scope -> Scope] /\ LFreeAt(LFree, node)
<1>1. LFree = CHOOSE f : LFreeEquation(f)
  BY DEF LFree, LFreeEquation
<1>2. LFreeEquation(LFree)
  BY <1>1, LFreeExists
<1>3. \A tree \in Trees : LFreeAt(LFree, tree)
  BY <1>2 DEF LFreeEquation, LFreeAt
<1> DEFINE P == {h \in 0 .. Len(Levels) : \A tree \in UpToHeight(h) : LFree[tree] \in [Scope -> Scope]}
<1>4. 0 \in P
  BY Heights
<1>5. ASSUME NEW h \in 1 .. Len(Levels), h - 1 \in P PROVE h \in P
  <2> SUFFICES ASSUME NEW tree \in UpToHeight(h) PROVE LFree[tree] \in [Scope -> Scope]
    OBVIOUS
  <2>1. tree \in Trees /\ \A k \in DOMAIN tree.kids : tree.kids[k] \in UpToHeight(h - 1)
    BY Heights
  <2>2. tree.kids \in Seq(Trees)
    BY <2>1, TreeTyped
  <2>3. \A k \in 1 .. Len(tree.kids) : LFree[tree.kids[k]] \in [Scope -> Scope]
    BY <1>5, <2>1, <2>2, LenProperties
  <2>4. \A scope \in Scope : Through(LFree, tree.kids, scope) \in Scope
    BY <2>2, <2>3, ThroughTyped
  <2>5. \A scope \in Scope : LeavesFree(tree, scope, Through(LFree, tree.kids, scope)) \in Scope
    BY <2>1, <2>4, LeavesFreeTyped
  <2> QED
    BY <1>3, <2>1, <2>5 DEF LFreeAt
<1>6. \A h \in 0 .. Len(Levels) : h \in P
  <2> HIDE DEF P
  <2> QED
    BY <1>4, <1>5, UpTo, Heights
<1> QED
  BY <1>3, <1>6, Heights

(* What a lambda captures has names.                                       *)
LEMMA FreeNamesTyped ==
  ASSUME NEW node \in Trees
  PROVE  FreeNames(node) \in Seq(Names)
<1> DEFINE vs == LFree[node][NewScope(1)].vars
           n == Len(vs)
<1>1. vs \in Seq(Var)
  BY LFreeTyped, NewScopeTyped DEF Scope
<1>2. n \in Nat /\ DOMAIN vs = 1 .. n /\ \A i \in 1 .. n : vs[i].name \in Names
  <2> HIDE DEF vs
  <2>1. n \in Nat /\ DOMAIN vs = 1 .. n
    BY <1>1, LenProperties
  <2>2. \A i \in 1 .. n : vs[i] \in Var
    BY <1>1, ElementOfSeq
  <2> QED
    BY <2>1, <2>2 DEF Var
<1>3. FreeNames(node) = [i \in 1 .. n |-> vs[i].name]
  BY <1>2 DEF FreeNames
<1> HIDE DEF vs, n
<1> QED
  BY <1>2, <1>3
-----------------------------------------------------------------------------
(* The lambdas that get a label.                                           *)

LEMMA FlattenedAll ==
  ASSUME NEW T, <<>> \in T, \A s, t \in T : s \o t \in T,
         NEW n \in Nat, NEW seqs \in [1 .. n -> T]
  PROVE  FlattenSeq(seqs) \in T
<1>1. CASE n = 0
  <2>1. seqs = <<>> /\ Len(seqs) = 0
    BY <1>1
  <2> QED
    BY <2>1 DEF FlattenSeq
<1>2. CASE n # 0
  BY <1>2, Flattened
<1> QED
  BY <1>1, <1>2

(* Where there is a lambda in a program.                                   *)
LambdaPlaces(items) ==
  {path \in Seq(Nat) : /\ path # <<>> /\ NodeIn(items, path) \in Trees
                       /\ NodeIn(items, path).kind = "close"}

LambdasHere(f, node, path) ==
  IF node.kind \in Skipped THEN <<>>
  ELSE (IF node.kind = "close" THEN <<path>> ELSE <<>>)
         \o FlattenSeq([k \in DOMAIN node.kids |-> f[node.kids[k]][Append(path, k)]])

LambdasEquation(f) ==
  f = [node \in Trees |-> [path \in Seq(Nat) |-> LambdasHere(f, node, path)]]

LambdasAt(f, node) == f[node] = [path \in Seq(Nat) |-> LambdasHere(f, node, path)]

LEMMA LambdasExist == \E f : LambdasEquation(f)
<1> DEFINE P == {h \in 0 .. Len(Levels) : \E f : \A node \in UpToHeight(h) : LambdasAt(f, node)}
<1>1. 0 \in P
  BY Heights
<1>2. ASSUME NEW h \in 1 .. Len(Levels), h - 1 \in P PROVE h \in P
  <2>1. PICK f : \A node \in UpToHeight(h - 1) : LambdasAt(f, node)
    BY <1>2
  <2> DEFINE g == [node \in Trees |-> [path \in Seq(Nat) |-> LambdasHere(f, node, path)]]
  <2>2. ASSUME NEW node \in UpToHeight(h - 1) PROVE g[node] = f[node]
    <3>1. node \in Trees
      <4>1. h - 1 # 0 => h - 1 \in 1 .. Len(Levels)
        BY Heights
      <4>2. h - 1 = 0 => UpToHeight(h - 1) = {}
        BY Heights
      <4> QED
        BY <4>1, <4>2, Heights
    <3> QED
      BY <2>1, <3>1 DEF LambdasAt
  <2>3. ASSUME NEW node \in UpToHeight(h) PROVE LambdasAt(g, node)
    <3>1. node \in Trees /\ \A k \in DOMAIN node.kids : node.kids[k] \in UpToHeight(h - 1)
      BY Heights
    <3>2. g[node] = [path \in Seq(Nat) |-> LambdasHere(f, node, path)]
      BY <3>1
    <3> HIDE DEF g
    <3>3. ASSUME NEW path PROVE LambdasHere(g, node, path) = LambdasHere(f, node, path)
      <4>1. [k \in DOMAIN node.kids |-> g[node.kids[k]][Append(path, k)]]
              = [k \in DOMAIN node.kids |-> f[node.kids[k]][Append(path, k)]]
        BY <2>2, <3>1
      <4> QED
        BY <4>1 DEF LambdasHere
    <3> QED
      BY <3>2, <3>3 DEF LambdasAt
  <2> HIDE DEF g
  <2> QED
    BY <2>3
<1>3. \A h \in 0 .. Len(Levels) : h \in P
  <2> HIDE DEF P
  <2> QED
    BY <1>1, <1>2, UpTo, Heights
<1>4. PICK f : \A node \in Trees : LambdasAt(f, node)
  BY <1>3, Heights
<1> DEFINE g == [node \in Trees |-> f[node]]
<1>5. \A node \in Trees : g[node] = f[node]
  OBVIOUS
<1>6. ASSUME NEW node \in Trees, NEW path
      PROVE  LambdasHere(g, node, path) = LambdasHere(f, node, path)
  <2>1. \A k \in DOMAIN node.kids : node.kids[k] \in Trees
    BY TreeTyped, ElementOfSeq, LenProperties
  <2> HIDE DEF g
  <2>2. [k \in DOMAIN node.kids |-> g[node.kids[k]][Append(path, k)]]
          = [k \in DOMAIN node.kids |-> f[node.kids[k]][Append(path, k)]]
    BY <1>5, <2>1
  <2> QED
    BY <2>2 DEF LambdasHere
<1>7. g = [node \in Trees |-> g[node]]
  OBVIOUS
<1> HIDE DEF g
<1>8. \A node \in Trees : g[node] = [path \in Seq(Nat) |-> LambdasHere(g, node, path)]
  <2> SUFFICES ASSUME NEW node \in Trees
               PROVE  g[node] = [path \in Seq(Nat) |-> LambdasHere(g, node, path)]
    OBVIOUS
  <2>1. f[node] = [path \in Seq(Nat) |-> LambdasHere(f, node, path)]
    BY <1>4 DEF LambdasAt
  <2>2. g[node] = f[node]
    BY <1>5
  <2>3. \A path \in Seq(Nat) : LambdasHere(g, node, path) = LambdasHere(f, node, path)
    BY <1>6
  <2> QED
    BY <2>1, <2>2, <2>3
<1>9. LambdasEquation(g)
  <2> HIDE DEF LambdasHere
  <2> QED
    BY <1>7, <1>8 DEF LambdasEquation
<1> QED
  BY <1>9

LEMMA LambdasTyped ==
  ASSUME NEW items, NEW node \in Trees, NEW path \in Seq(Nat),
         path # <<>>, NodeIn(items, path) = node
  PROVE  Lambdas[node][path] \in Seq(LambdaPlaces(items))
<1> DEFINE T == Seq(LambdaPlaces(items))
           Good(tree) == \A p \in Seq(Nat) : p # <<>> /\ NodeIn(items, p) = tree => Lambdas[tree][p] \in T
           P == {h \in 0 .. Len(Levels) : \A tree \in UpToHeight(h) : Good(tree)}
<1>1. Lambdas = CHOOSE f : LambdasEquation(f)
  BY DEF Lambdas, LambdasEquation, LambdasHere
<1>2. LambdasEquation(Lambdas)
  BY <1>1, LambdasExist
<1>3. \A tree \in Trees : \A p \in Seq(Nat) : Lambdas[tree][p] = LambdasHere(Lambdas, tree, p)
  BY <1>2 DEF LambdasEquation
<1>4. 0 \in P
  BY Heights
<1>5. <<>> \in T /\ \A s, t \in T : s \o t \in T
  BY EmptySeq, ConcatProperties
<1>6. ASSUME NEW h \in 1 .. Len(Levels), h - 1 \in P PROVE h \in P
  <2> SUFFICES ASSUME NEW tree \in UpToHeight(h), NEW p \in Seq(Nat),
                      p # <<>>, NodeIn(items, p) = tree
               PROVE  Lambdas[tree][p] \in T
    OBVIOUS
  <2>1. tree \in Trees /\ \A k \in DOMAIN tree.kids : tree.kids[k] \in UpToHeight(h - 1)
    BY Heights
  <2>2. tree.kids \in Seq(Trees) /\ Len(tree.kids) \in Nat /\ DOMAIN tree.kids = 1 .. Len(tree.kids)
    BY <2>1, TreeTyped, LenProperties
  <2> DEFINE seqs == [k \in DOMAIN tree.kids |-> Lambdas[tree.kids[k]][Append(p, k)]]
  <2>3. ASSUME NEW k \in DOMAIN tree.kids PROVE Lambdas[tree.kids[k]][Append(p, k)] \in T
    <3>1. k \in Nat /\ Append(p, k) \in Seq(Nat) /\ Append(p, k) # <<>>
      BY <2>2, AppendProperties, SMTT(30)
    <3>2. NodeIn(items, Append(p, k)) = tree.kids[k]
      BY <3>1, NodeOfKid
    <3>3. Good(tree.kids[k])
      BY <1>6, <2>1
    <3> HIDE DEF T
    <3> QED
      BY <3>1, <3>2, <3>3
  <2>4. seqs \in [1 .. Len(tree.kids) -> T]
    BY <2>2, <2>3
  <2>5. FlattenSeq(seqs) \in T
    <3> HIDE DEF T, seqs
    <3> QED
      BY <1>5, <2>2, <2>4, FlattenedAll
  <2>6. tree.kind = "close" => <<p>> \in T
    <3>1. tree.kind = "close" => p \in LambdaPlaces(items)
      BY <2>1 DEF LambdaPlaces
    <3> QED
      BY <3>1
  <2>7. LambdasHere(Lambdas, tree, p) \in T
    <3> HIDE DEF T, seqs
    <3> QED
      BY <1>5, <2>5, <2>6 DEF LambdasHere, seqs
  <2> QED
    BY <1>3, <2>1, <2>7
<1>7. \A h \in 0 .. Len(Levels) : h \in P
  <2> HIDE DEF P
  <2> QED
    BY <1>4, <1>6, UpTo, Heights
<1>8. Good(node)
  BY <1>7, Heights
<1> QED
  BY <1>8

LEMMA ItemTyped ==
  ASSUME prog \in Programs, NEW i \in DOMAIN prog
  PROVE  /\ i \in Nat /\ prog[i] \in Item
         /\ prog[i].body \in Trees /\ prog[i].params \in Seq(Names)
         /\ prog[i].kind # "expr" => prog[i].name \in Names
         /\ NodeIn(prog, <<i>>) = prog[i].body
<1>1. prog \in Seq(Item) /\ \A j \in DOMAIN prog : prog[j].kind # "expr" => prog[j].name \in Names
  BY GeneratorAssumption
<1>2. i \in Nat /\ prog[i] \in Item
  BY <1>1, LenProperties, ElementOfSeq
<1>3. prog[i].body \in Trees /\ prog[i].params \in Seq(Names)
  BY <1>2 DEF Item
<1> QED
  BY <1>1, <1>2, <1>3, NodeOfItem

LEMMA AllLambdasTyped ==
  ASSUME prog \in Programs
  PROVE  AllLambdas \in Seq(LambdaPlaces(prog))
<1> DEFINE T == Seq(LambdaPlaces(prog))
           seqs == [i \in DOMAIN prog |->
                      IF prog[i].kind = "globl" THEN <<>> ELSE Lambdas[prog[i].body][<<i>>]]
<1>1. <<>> \in T /\ \A s, t \in T : s \o t \in T
  BY EmptySeq, ConcatProperties
<1>2. Len(prog) \in Nat /\ DOMAIN prog = 1 .. Len(prog)
  BY LenProperties, GeneratorAssumption
<1>3. ASSUME NEW i \in DOMAIN prog PROVE Lambdas[prog[i].body][<<i>>] \in T
  <2>1. i \in Nat /\ prog[i].body \in Trees /\ NodeIn(prog, <<i>>) = prog[i].body
    BY ItemTyped
  <2>2. <<i>> \in Seq(Nat) /\ <<i>> # <<>>
    BY <2>1
  <2> QED
    BY <2>1, <2>2, LambdasTyped
<1>4. seqs \in [1 .. Len(prog) -> T]
  BY <1>1, <1>2, <1>3
<1> HIDE DEF T, seqs
<1>5. FlattenSeq(seqs) \in T
  BY <1>1, <1>2, <1>4, FlattenedAll
<1> QED
  BY <1>5 DEF AllLambdas, T, seqs
-----------------------------------------------------------------------------
(* Tail position.                                                          *)

TailPlaces == {path \in Seq(Nat) : InTailPlace(path)}

LEMMA PrefixesAgree ==
  ASSUME NEW path \in Seq(Nat), NEW k \in Nat
  PROVE  /\ \A m \in 0 .. Len(path) : SubSeq(Append(path, k), 1, m) = SubSeq(path, 1, m)
         /\ SubSeq(Append(path, k), 1, Len(path)) = path
<1> DEFINE long == Append(path, k)
           n == Len(path)
<1>1. /\ n \in Nat /\ path = [i \in 1 .. n |-> path[i]]
      /\ long \in Seq(Nat) /\ \A i \in 1 .. n : long[i] = path[i]
  BY AppendProperties, LenProperties
<1> HIDE DEF long, n
<1>2. ASSUME NEW m \in 0 .. n PROVE SubSeq(long, 1, m) = SubSeq(path, 1, m)
  <2>1. SubSeq(long, 1, m) = [i \in 1 .. m |-> long[i]]
    BY <1>1
  <2>2. SubSeq(path, 1, m) = [i \in 1 .. m |-> path[i]]
    BY <1>1
  <2>3. \A i \in 1 .. m : long[i] = path[i]
    BY <1>1
  <2> QED
    BY <2>1, <2>2, <2>3
<1>3. SubSeq(path, 1, n) = path
  <2>1. SubSeq(path, 1, n) = [i \in 1 .. n |-> path[i]]
    BY <1>1
  <2> QED
    BY <1>1, <2>1
<1>4. SubSeq(long, 1, n) = path
  <2>1. n \in 0 .. n
    BY <1>1
  <2>2. SubSeq(long, 1, n) = SubSeq(path, 1, n)
    BY <1>2, <2>1
  <2> QED
    BY <1>3, <2>2
<1> QED
  BY <1>2, <1>4 DEF long, n

LEMMA TailPassed ==
  ASSUME NEW path \in TailPlaces, NEW k \in Nat, PassesOn(NodeAt(path), k)
  PROVE  Append(path, k) \in TailPlaces
<1> DEFINE long == Append(path, k)
           size == Len(path)
<1>1. path \in Seq(Nat) /\ InTailPlace(path)
  BY DEF TailPlaces
<1>2. PICK n \in 1 .. size :
        /\ IsBody(SubSeq(path, 1, n))
        /\ \A m \in n + 1 .. size : PassesOn(NodeAt(SubSeq(path, 1, m - 1)), path[m])
  BY <1>1 DEF InTailPlace
<1>3. /\ size \in Nat /\ long \in Seq(Nat) /\ Len(long) = size + 1 /\ long[size + 1] = k
      /\ \A m \in 1 .. size : long[m] = path[m]
  BY <1>1, AppendProperties, LenProperties
<1>4. /\ \A m \in 0 .. size : SubSeq(long, 1, m) = SubSeq(path, 1, m)
      /\ SubSeq(long, 1, size) = path
  BY <1>1, PrefixesAgree
<1> HIDE DEF long, size
<1>5. IsBody(SubSeq(long, 1, n)) /\ n \in 1 .. Len(long)
  <2>1. SubSeq(long, 1, n) = SubSeq(path, 1, n)
    BY <1>3, <1>4
  <2>2. IsBody(SubSeq(long, 1, n))
    BY <1>2, <2>1
  <2>3. n \in 1 .. Len(long)
    BY <1>3
  <2> QED
    BY <2>2, <2>3
<1>6. ASSUME NEW m \in n + 1 .. Len(long)
      PROVE  PassesOn(NodeAt(SubSeq(long, 1, m - 1)), long[m])
  <2>1. CASE m = size + 1
    <3>1. m - 1 = size
      BY <1>3, <2>1
    <3> QED
      BY <1>3, <1>4, <2>1, <3>1
  <2>2. CASE m # size + 1
    <3>1. m \in n + 1 .. size /\ m \in 1 .. size /\ m - 1 \in 0 .. size
      BY <1>3, <2>2
    <3>2. SubSeq(long, 1, m - 1) = SubSeq(path, 1, m - 1) /\ long[m] = path[m]
      BY <1>3, <1>4, <3>1
    <3> QED
      BY <1>2, <3>1, <3>2
  <2> QED
    BY <2>1, <2>2
<1>7. InTailPlace(long)
  BY <1>5, <1>6 DEF InTailPlace
<1> QED
  BY <1>3, <1>7 DEF TailPlaces, long

(* The body of a lambda or of a definition is in tail position.            *)
LEMMA TailStarts ==
  ASSUME NEW path \in Seq(Nat), path # <<>>, IsBody(path)
  PROVE  path \in TailPlaces
<1> DEFINE n == Len(path)
<1>1. n \in Nat /\ n > 0 /\ path = [i \in 1 .. n |-> path[i]]
  BY LenProperties, EmptySeq
<1> HIDE DEF n
<1>2. SubSeq(path, 1, n) = path
  <2>1. SubSeq(path, 1, n) = [i \in 1 .. n |-> path[i]]
    BY <1>1
  <2> QED
    BY <1>1, <2>1
<1>3. n \in 1 .. n /\ \A m \in n + 1 .. n : FALSE
  BY <1>1
<1> QED
  BY <1>2, <1>3 DEF TailPlaces, InTailPlace, n

LEMMA TailOfLambda ==
  ASSUME NEW path \in Seq(Nat), path # <<>>, NodeAt(path).kind = "close"
  PROVE  Append(path, 1) \in TailPlaces
<1> DEFINE long == Append(path, 1)
           n == Len(path)
<1>1. /\ n \in Nat /\ n > 0 /\ long \in Seq(Nat) /\ long # <<>> /\ Len(long) = n + 1
      /\ SubSeq(long, 1, n) = path
  BY AppendProperties, LenProperties, EmptySeq, PrefixesAgree
<1>2. Len(long) # 1 /\ Len(long) - 1 = n
  <2> HIDE DEF long, n
  <2> QED
    BY <1>1
<1> HIDE DEF long, n
<1>3. IsBody(long)
  BY <1>1, <1>2 DEF IsBody
<1>4. long \in TailPlaces
  BY <1>1, <1>3, TailStarts
<1> QED
  BY <1>4 DEF long

LEMMA TailOfDefinition ==
  ASSUME NEW i \in Nat, prog[i].kind = "deffn"
  PROVE  <<i>> \in TailPlaces
<1>1. <<i>> \in Seq(Nat) /\ <<i>> # <<>> /\ Len(<<i>>) = 1 /\ <<i>>[1] = i
  OBVIOUS
<1>2. IsBody(<<i>>)
  BY <1>1 DEF IsBody
<1> QED
  BY <1>1, <1>2, TailStarts

(* Nothing moves while the program stays the same.                         *)
LEMMA TailPlacesStay == ASSUME prog' = prog PROVE TailPlaces' = TailPlaces
  BY DEF TailPlaces, InTailPlace, IsBody, PassesOn, NodeAt
-----------------------------------------------------------------------------
(* How far a unit is, when a thing to do comes first: its stage, how many  *)
(* scopes are open, and what the tail flag may be at most.                 *)
(*                                                                         *)
(*   fresh    nothing was done with the table yet                          *)
(*   inside   in a lambda                                                  *)
(*   filling  push_scope_a puts names into the scope of a lambda           *)
(*   rest     in a definition, or in what is compiled after them           *)

Doings == {"push", "pop", "temp", "label", "bind", "tail", "expr", "capture", "count",
           "closure", "closed", "define", "entry", "global"}
Thing == [do : Doings, at : Seq(Nat), name : Names \cup {NoName}, n : Nat]
Plan  == [stage : {"fresh", "inside", "filling", "rest"}, depth : Nat \ {0}, flag : {0, 1}]

Planned(stage, depth, flag) == [stage |-> stage, depth |-> depth, flag |-> flag]
Fresh == Planned("fresh", 1, 0)
Rest  == Planned("rest", 1, 0)

Ready(p)      == p.stage = "rest" \/ (p.stage = "inside" /\ p.depth > 1)
Deeper(p)     == Planned(p.stage, p.depth + 1, p.flag)
Flagged(p, n) == Planned(p.stage, p.depth, n)

World == [items |-> prog, tails |-> TailPlaces]

(* A thing to do may come first at p, and leaves off at q.                 *)
Follows(w, thing, p, q) ==
  \/ thing.do = "push" /\ Ready(p) /\ q = Deeper(p)
  \/ thing.do = "push" /\ p.stage = "inside" /\ p.depth = 1 /\ q = Planned("filling", 2, p.flag)
  \/ thing.do = "pop" /\ Ready(q) /\ p = Deeper(q)
  \/ thing.do \in {"temp", "label"} /\ Ready(p) /\ p.depth > 1 /\ q = p
  \/ thing.do = "bind" /\ Ready(p) /\ p.depth > 1 /\ q = p /\ thing.name \in Names
  \/ /\ thing.do = "tail" /\ Ready(p) /\ thing.n \in {0, 1}
     /\ \E n \in {0, 1} : thing.n <= n /\ q = Flagged(p, n)
  \/ /\ thing.do = "expr" /\ Ready(p) /\ q \in {p, Flagged(p, 1)}
     /\ thing.at # <<>> /\ NodeIn(w.items, thing.at) \in Trees
     /\ p.flag = 1 => thing.at \in w.tails
  \/ thing.do = "capture" /\ p.stage = "filling" /\ p.depth > 1 /\ q = p /\ thing.name \in Names
  \/ /\ thing.do = "count" /\ p.stage = "filling" /\ p.depth > 1
     /\ q = Planned("inside", p.depth, p.flag)
  \/ thing.do = "closure" /\ p = Fresh /\ q \in {Fresh, Rest} /\ thing.at \in LambdaPlaces(w.items)
  \/ thing.do = "closed" /\ p.stage = "inside" /\ p.flag = 0 /\ q \in {Fresh, Rest}
  \/ /\ thing.do = "define" /\ p = Rest /\ q = Rest
     /\ \E i \in DOMAIN w.items : thing.at = <<i>> /\ w.items[i].kind = "deffn"
  \/ thing.do = "entry" /\ p = Rest /\ q = Rest
  \/ thing.do = "global" /\ p = Rest /\ q = Rest /\ thing.name \in Names

(* The things to do lead from p to q.                                      *)
Steps(w) == {x \in Thing \X Plan \X Plan : Follows(w, x[1], x[2], x[3])}
Carries(w, things, p, q) == Runs(Thing, Plan, Steps(w), things, p, q)

LEMMA CarriesNone ==
  ASSUME NEW w, NEW p \in Plan
  PROVE  Carries(w, <<>>, p, p)
  BY RunsNone DEF Carries

LEMMA CarriesOne ==
  ASSUME NEW w, NEW thing \in Thing, NEW p \in Plan, NEW q \in Plan, Follows(w, thing, p, q)
  PROVE  Carries(w, <<thing>>, p, q)
<1>1. <<thing, p, q>> \in Steps(w)
  BY DEF Steps
<1> QED
  BY <1>1, RunsOne DEF Carries

LEMMA CarriesBoth ==
  ASSUME NEW w, NEW s, NEW t, NEW p, NEW q, NEW r, Carries(w, s, p, q), Carries(w, t, q, r)
  PROVE  Carries(w, s \o t, p, r)
  BY RunsBoth DEF Carries

LEMMA CarriesFirst ==
  ASSUME NEW w, NEW s, NEW p, NEW r, Carries(w, s, p, r), s # <<>>
  PROVE  /\ Head(s) \in Thing /\ p \in Plan
         /\ \E q \in Plan : Follows(w, Head(s), p, q) /\ Carries(w, Tail(s), q, r)
<1>1. /\ Head(s) \in Thing /\ p \in Plan
      /\ \E q \in Plan : <<Head(s), p, q>> \in Steps(w) /\ Carries(w, Tail(s), q, r)
  BY RunsFirst DEF Carries
<1>2. \A q : <<Head(s), p, q>> \in Steps(w) => Follows(w, Head(s), p, q)
  BY DEF Steps
<1> QED
  BY <1>1, <1>2

LEMMA CarriesEach ==
  ASSUME NEW w, NEW p \in Plan, NEW s \in Seq(Thing),
         \A i \in 1 .. Len(s) : Follows(w, s[i], p, p)
  PROVE  Carries(w, s, p, p)
<1>1. \A i \in 1 .. Len(s) : s[i] \in Thing
  BY ElementOfSeq
<1>2. \A i \in 1 .. Len(s) : <<s[i], p, p>> \in Steps(w)
  BY <1>1 DEF Steps
<1> QED
  BY <1>2, RunsEach DEF Carries

(* When the last of them may leave off at q.                               *)
LEMMA CarriesUntil ==
  ASSUME NEW w, NEW p \in Plan, NEW q \in Plan, NEW s \in Seq(Thing), s # <<>>,
         \A i \in 1 .. Len(s) : Follows(w, s[i], p, p) /\ Follows(w, s[i], p, q)
  PROVE  Carries(w, s, p, q)
<1>1. \A i \in 1 .. Len(s) : s[i] \in Thing
  BY ElementOfSeq
<1>2. \A i \in 1 .. Len(s) : <<s[i], p, p>> \in Steps(w) /\ <<s[i], p, q>> \in Steps(w)
  BY <1>1 DEF Steps
<1> QED
  BY <1>2, RunsUntil DEF Carries

LEMMA CarriesFlat ==
  ASSUME NEW w, NEW p \in Plan, NEW n \in Nat, NEW seqs, seqs = [i \in 1 .. n |-> seqs[i]],
         \A i \in 1 .. n : Carries(w, seqs[i], p, p)
  PROVE  Carries(w, FlattenSeq(seqs), p, p)
<1> DEFINE h == [i \in 0 .. n |-> p]
<1>1. h \in [0 .. n -> Plan] /\ h[0] = p /\ h[n] = p
  OBVIOUS
<1>2. /\ seqs \in [1 .. n -> Seq(Thing)]
      /\ \A i \in 1 .. n : Runs(Thing, Plan, Steps(w), seqs[i], h[i - 1], h[i])
  BY DEF Carries, Runs
<1> HIDE DEF h
<1>3. Runs(Thing, Plan, Steps(w), FlattenSeq(seqs), h[0], h[n])
  BY <1>1, <1>2, RunsFlat
<1> QED
  BY <1>1, <1>3 DEF Carries

LEMMA JoinedTwo == ASSUME NEW S, NEW a \in S, NEW b \in S PROVE <<a, b>> = <<a>> \o <<b>>
<1>1. <<a, b>> = Append(<<a>>, b)
  OBVIOUS
<1>2. <<a>> \in Seq(S)
  OBVIOUS
<1> QED
  BY <1>1, <1>2, AppendIsConcat

LEMMA JoinedThree == ASSUME NEW a, NEW b, NEW c PROVE <<a, b, c>> = <<a>> \o <<b, c>>
  OBVIOUS

LEMMA CarriesTwo ==
  ASSUME NEW w, NEW a \in Thing, NEW b \in Thing, NEW p \in Plan, NEW q \in Plan, NEW r \in Plan,
         Follows(w, a, p, q), Follows(w, b, q, r)
  PROVE  Carries(w, <<a, b>>, p, r)
<1>1. Carries(w, <<a>> \o <<b>>, p, r)
  BY CarriesOne, CarriesBoth
<1> QED
  BY <1>1, JoinedTwo

LEMMA CarriesThree ==
  ASSUME NEW w, NEW a \in Thing, NEW b \in Thing, NEW c \in Thing,
         NEW p \in Plan, NEW q \in Plan, NEW r \in Plan, NEW s \in Plan,
         Follows(w, a, p, q), Follows(w, b, q, r), Follows(w, c, r, s)
  PROVE  Carries(w, <<a, b, c>>, p, s)
<1>1. Carries(w, <<a>> \o <<b, c>>, p, s)
  BY CarriesOne, CarriesTwo, CarriesBoth
<1> QED
  BY <1>1, JoinedThree

LEMMA CarriesFour ==
  ASSUME NEW w, NEW a \in Thing, NEW b \in Thing, NEW c \in Thing, NEW d \in Thing,
         NEW p \in Plan, NEW q \in Plan, NEW r \in Plan, NEW s \in Plan, NEW t \in Plan,
         Follows(w, a, p, q), Follows(w, b, q, r), Follows(w, c, r, s), Follows(w, d, s, t)
  PROVE  Carries(w, <<a, b, c, d>>, p, t)
<1>1. Carries(w, <<a, b>> \o <<c, d>>, p, t)
  <2>1. Carries(w, <<a, b>>, p, r)
    BY CarriesTwo
  <2>2. Carries(w, <<c, d>>, r, t)
    BY CarriesTwo
  <2> QED
    BY <2>1, <2>2, CarriesBoth
<1>2. <<a, b, c, d>> = <<a, b>> \o <<c, d>>
  OBVIOUS
<1> QED
  BY <1>1, <1>2

LEMMA TodoTyped ==
  ASSUME NEW do \in Doings, NEW at \in Seq(Nat), NEW name \in Names \cup {NoName}, NEW n \in Nat
  PROVE  /\ Todo(do, at, name, n) \in Thing
         /\ Todo(do, at, name, n).do = do /\ Todo(do, at, name, n).at = at
         /\ Todo(do, at, name, n).name = name /\ Todo(do, at, name, n).n = n
  BY DEF Todo, Thing

LEMMA Nothing == <<>> \in Seq(Nat) /\ NoName \in Names \cup {NoName} /\ {0, 1} \subseteq Nat
  OBVIOUS

LEMMA PlainTyped ==
  ASSUME NEW do \in Doings
  PROVE  Todo(do, <<>>, NoName, 0) \in Thing /\ Todo(do, <<>>, NoName, 0).do = do
  BY Nothing DEF Todo, Thing

(* The things that an expression leads to.                                 *)
LEMMA Moves ==
  ASSUME NEW w, NEW p \in Plan, Ready(p)
  PROVE  /\ PushIt \in Thing /\ PopIt \in Thing /\ TempIt \in Thing /\ LabelIt \in Thing
         /\ Deeper(p) \in Plan /\ Ready(Deeper(p)) /\ Deeper(p).flag = p.flag
         /\ Follows(w, PushIt, p, Deeper(p))
         /\ Follows(w, TempIt, Deeper(p), Deeper(p))
         /\ Follows(w, LabelIt, Deeper(p), Deeper(p))
         /\ Follows(w, PopIt, Deeper(p), p)
<1>1. PushIt \in Thing /\ PopIt \in Thing /\ TempIt \in Thing /\ LabelIt \in Thing
  BY Nothing, TodoTyped DEF PushIt, PopIt, TempIt, LabelIt, Doings
<1>2. PushIt.do = "push" /\ PopIt.do = "pop" /\ TempIt.do = "temp" /\ LabelIt.do = "label"
  BY DEF PushIt, PopIt, TempIt, LabelIt, Todo
<1>3. Deeper(p) \in Plan /\ Deeper(p).depth > 1 /\ Deeper(p).stage = p.stage /\ Deeper(p).flag = p.flag
  BY DEF Deeper, Planned, Plan
<1>4. Ready(Deeper(p))
  BY <1>3 DEF Ready
<1> QED
  BY <1>1, <1>2, <1>3, <1>4 DEF Follows

LEMMA MovesTail ==
  ASSUME NEW w, NEW p \in Plan, Ready(p), NEW n \in {0, 1}
  PROVE  /\ SetTail(n) \in Thing
         /\ Flagged(p, n) \in Plan /\ Ready(Flagged(p, n)) /\ Flagged(p, n).flag = n
         /\ n <= p.flag => Follows(w, SetTail(n), Flagged(p, 0), p) /\ Follows(w, SetTail(n), p, p)
         /\ Follows(w, SetTail(n), p, Flagged(p, n))
         /\ Flagged(p, p.flag) = p
<1>1. SetTail(n) \in Thing /\ SetTail(n).do = "tail" /\ SetTail(n).n = n
  <2>1. n \in Nat /\ "tail" \in Doings
    BY DEF Doings
  <2> HIDE DEF Doings
  <2> QED
    BY <2>1, Nothing DEF SetTail, Todo, Thing
<1>2. \A m \in {0, 1} : Flagged(p, m) \in Plan /\ Flagged(p, m).flag = m /\ Ready(Flagged(p, m))
  BY DEF Flagged, Planned, Plan, Ready
<1>3. p.flag \in {0, 1} /\ Flagged(p, p.flag) = p /\ Flagged(Flagged(p, 0), p.flag) = p
  BY DEF Flagged, Planned, Plan
<1>4. n <= p.flag => Follows(w, SetTail(n), Flagged(p, 0), p) /\ Follows(w, SetTail(n), p, p)
  BY <1>1, <1>2, <1>3 DEF Follows
<1>5. Follows(w, SetTail(n), p, Flagged(p, n))
  BY <1>1 DEF Follows
<1> QED
  BY <1>1, <1>2, <1>3, <1>4, <1>5

(* A kid of the node that is compiled, where the tail flag is down or      *)
(* where its value is passed on.                                           *)
LEMMA MovesDown ==
  ASSUME NEW path \in Seq(Nat), path # <<>>, NodeAt(path) \in Trees,
         NEW k \in DOMAIN NodeAt(path).kids, NEW p \in Plan, Ready(p),
         p.flag = 1 => Append(path, k) \in TailPlaces
  PROVE  /\ Kid(path, k) \in Thing
         /\ Follows(World, Kid(path, k), p, p) /\ Follows(World, Kid(path, k), p, Flagged(p, 1))
<1> DEFINE kids == NodeAt(path).kids
<1>1. kids \in Seq(Trees)
  BY TreeTyped
<1>2. k \in Nat /\ kids[k] \in Trees
  <2> HIDE DEF kids
  <2>1. k \in 1 .. Len(kids) /\ Len(kids) \in Nat
    BY <1>1, LenProperties DEF kids
  <2> QED
    BY <1>1, <2>1, ElementOfSeq
<1>3. Append(path, k) \in Seq(Nat) /\ Append(path, k) # <<>>
  BY <1>2, AppendProperties
<1>4. NodeIn(prog, Append(path, k)) \in Trees
  BY <1>2, NodeOfKid DEF NodeAt
<1>5. Kid(path, k) \in Thing /\ Kid(path, k).do = "expr" /\ Kid(path, k).at = Append(path, k)
  <2>1. 0 \in Nat /\ "expr" \in Doings
    BY DEF Doings
  <2> HIDE DEF Doings
  <2> QED
    BY <1>3, <2>1, Nothing DEF Kid, Expr, Todo, Thing
<1>6. World.items = prog /\ World.tails = TailPlaces
  BY DEF World
<1> QED
  BY <1>3, <1>4, <1>5, <1>6 DEF Follows
-----------------------------------------------------------------------------
(* The table, as the generator uses it.                                    *)

(* Nothing is ever bound in the global scope.                              *)
GlobalEmpty == table.scopes[1].vars = <<>>

LEMMA NewLexiconHolds ==
  NewLexicon.scopes = <<NewScope(1)>> /\ NewLexicon.offc = 1
<1>1. Grown(0, DefaultSize) = 4
  BY DEF Grown, DefaultSize
<1>2. NewLexicon = [scopes |-> <<NewScope(1)>>, cap |-> 4, offc |-> 1]
  BY <1>1 DEF NewLexicon, PushScope
<1> QED
  BY <1>2

LEMMA NewDone ==
  ASSUME table' = NewLexicon
  PROVE  TableNext /\ TableInv' /\ Settled' /\ GlobalEmpty' /\ Len(table'.scopes) = 1
<1>1. (table = NewLexicon => TableInv)'
  BY InvInit, PTL
<1>4. table'.scopes = <<NewScope(1)>> /\ table'.offc = 1
  BY NewLexiconHolds
<1>5. Len(table'.scopes) = 1 /\ table'.scopes[1] = NewScope(1)
  BY <1>4
<1>6. Settled' /\ GlobalEmpty'
  BY <1>4, <1>5 DEF Settled, GlobalEmpty, Top, NewScope
<1> QED
  BY <1>1, <1>5, <1>6 DEF TableNext, NewTable

LEMMA PushDone ==
  ASSUME TableInv, Settled, GlobalEmpty, table' = PushScope(table)
  PROVE  /\ TableNext /\ TableInv' /\ Settled' /\ GlobalEmpty'
         /\ Len(table'.scopes) = Len(table.scopes) + 1
<1> DEFINE n == Len(table.scopes)
<1>1. Push
  BY DEF Push
<1>2. n \in Nat /\ n > 0 /\ table.scopes \in Seq(Scope) /\ table.offc \in Nat
  BY InvScopes
<1>3. table'.scopes = Append(table.scopes, NewScope(table.offc)) /\ table'.offc = table.offc
  BY DEF PushScope
<1>4. NewScope(table.offc) \in Scope /\ NewScope(table.offc).offc = table.offc
  BY <1>2, NewScopeGood DEF NewScope
<1>5. /\ Len(table'.scopes) = n + 1 /\ table'.scopes[n + 1] = NewScope(table.offc)
      /\ table'.scopes[1] = table.scopes[1]
  BY <1>2, <1>3, <1>4, AppendProperties
<1>6. Settled' /\ GlobalEmpty'
  BY <1>3, <1>4, <1>5 DEF Settled, GlobalEmpty, Top
<1> QED
  BY <1>1, <1>5, <1>6, PushKeeps DEF TableNext

LEMMA PopDone ==
  ASSUME TableInv, Settled, GlobalEmpty, Len(table.scopes) > 1, table' = PopScope(table)
  PROVE  /\ TableNext /\ TableInv' /\ Settled' /\ GlobalEmpty'
         /\ Len(table'.scopes) = Len(table.scopes) - 1
<1> DEFINE n == Len(table.scopes)
<1>1. Pop
  BY DEF Pop
<1>2. n \in Nat /\ n > 1 /\ table.scopes \in Seq(Scope) /\ table.offc \in Nat
  BY InvScopes
<1>3. /\ table'.scopes = SubSeq(table.scopes, 1, n - 1)
      /\ table'.offc = table.offc - Len(table.scopes[n].vars)
  BY InvScopes DEF PopScope, TableInv, TableType, Table
<1>4. /\ Len(table'.scopes) = n - 1
      /\ \A i \in 1 .. n - 1 : table'.scopes[i] = table.scopes[i]
  BY <1>2, <1>3, SubSeqProperties
<1>5. table.scopes[n].offc = table.scopes[n - 1].offc + Len(table.scopes[n].vars)
  <2>1. n \in DOMAIN table.scopes /\ n # 1
    BY <1>2, InvScopes
  <2>2. GoodScope(table.scopes[n], FirstSlot(table.scopes, n))
    BY <2>1, InvScopes
  <2> QED
    BY <2>1, <2>2 DEF GoodScope, FirstSlot
<1>6. table.offc = table.scopes[n].offc
  BY DEF Settled, Top
<1>7. /\ n - 1 \in 1 .. n - 1 /\ 1 \in 1 .. n - 1
      /\ table.scopes[n - 1].offc \in Nat /\ Len(table.scopes[n].vars) \in Nat
  <2>1. n - 1 \in DOMAIN table.scopes /\ n \in DOMAIN table.scopes
    BY <1>2, InvScopes
  <2>2. table.scopes[n - 1] \in Scope /\ table.scopes[n] \in Scope
    BY <2>1, InvScopes
  <2>3. table.scopes[n - 1].offc \in Nat /\ table.scopes[n].vars \in Seq(Var)
    BY <2>2 DEF Scope
  <2>4. n - 1 \in 1 .. n - 1 /\ 1 \in 1 .. n - 1
    <3> HIDE DEF n
    <3> QED
      BY <1>2
  <2> QED
    BY <2>3, <2>4, LenProperties
<1> HIDE DEF n
<1>8. table'.offc = table.scopes[n - 1].offc
  BY <1>3, <1>5, <1>6, <1>7
<1>9. Settled'
  BY <1>4, <1>7, <1>8 DEF Settled, Top
<1>10. GlobalEmpty'
  BY <1>4, <1>7 DEF GlobalEmpty
<1> QED
  BY <1>1, <1>4, <1>9, <1>10, PopKeeps DEF TableNext, n

LEMMA BindDone ==
  ASSUME TableInv, GlobalEmpty, Len(table.scopes) > 1, NEW name \in Names, table' = Bind(table, name)
  PROVE  /\ TableNext /\ TableInv' /\ Settled' /\ GlobalEmpty'
         /\ Len(table'.scopes) = Len(table.scopes)
<1> DEFINE n == Len(table.scopes)
           scope == Added(Top(table), name)
<1>1. BindName
  BY DEF BindName
<1>2. n \in Nat /\ n > 1 /\ table.scopes \in Seq(Scope) /\ n \in DOMAIN table.scopes
  BY InvScopes
<1>3. table'.scopes = [table.scopes EXCEPT ![n] = scope] /\ table'.offc = scope.offc
  BY DEF Bind, SetTop, TableInv, TableType, Table
<1> HIDE DEF scope
<1>4. Len(table'.scopes) = n /\ table'.scopes[n] = scope /\ table'.scopes[1] = table.scopes[1]
  BY <1>2, <1>3
<1>5. Settled' /\ GlobalEmpty'
  BY <1>3, <1>4 DEF Settled, GlobalEmpty, Top
<1> QED
  BY <1>1, <1>4, <1>5, BindKeeps DEF TableNext

LEMMA CaptureDone ==
  ASSUME TableInv, GlobalEmpty, Len(table.scopes) > 1, NEW name \in Names,
         table' = SetTop(table, SBind(Top(table), name))
  PROVE  /\ TableNext /\ TableInv' /\ GlobalEmpty'
         /\ Len(table'.scopes) = Len(table.scopes)
<1> DEFINE n == Len(table.scopes)
           scope == SBind(Top(table), name)
<1>1. CaptureName
  BY DEF CaptureName
<1>2. n \in Nat /\ n > 1 /\ table.scopes \in Seq(Scope) /\ n \in DOMAIN table.scopes
  BY InvScopes
<1>3. table'.scopes = [table.scopes EXCEPT ![n] = scope]
  BY DEF SetTop, TableInv, TableType, Table
<1> HIDE DEF scope
<1>4. Len(table'.scopes) = n /\ table'.scopes[1] = table.scopes[1]
  BY <1>2, <1>3
<1>5. GlobalEmpty'
  BY <1>4 DEF GlobalEmpty
<1> QED
  BY <1>1, <1>4, <1>5, CaptureKeeps DEF TableNext

LEMMA CountDone ==
  ASSUME TableInv, GlobalEmpty, table' = [table EXCEPT !.offc = Top(table).offc]
  PROVE  /\ TableNext /\ TableInv' /\ Settled' /\ GlobalEmpty'
         /\ Len(table'.scopes) = Len(table.scopes)
<1>1. CountScope
  BY DEF CountScope
<1>2. table'.scopes = table.scopes /\ table'.offc = Top(table).offc
  BY DEF TableInv, TableType, Table
<1>3. Settled' /\ GlobalEmpty'
  BY <1>2 DEF Settled, GlobalEmpty, Top
<1> QED
  BY <1>1, <1>2, <1>3, CountKeeps DEF TableNext
-----------------------------------------------------------------------------
(* The inductive invariant: what is still to be done leads from where the  *)
(* generator is to the end of the program, with every scope closed.        *)
Matches(p) ==
  /\ Len(table.scopes) = p.depth
  /\ tail <= p.flag
  /\ p.stage = "fresh" => table = NewLexicon
  /\ p.stage # "filling" => Settled

Ahead ==
  \E p, r \in Plan : Matches(p) /\ Carries(World, todo, p, r) /\ r.depth = 1 /\ r.stage = "rest"

GeneratorInv ==
  /\ prog \in Programs
  /\ TableInv /\ GlobalEmpty
  /\ outer = NewLexicon /\ globals \subseteq Names /\ tail \in {0, 1}
  /\ status \in {"compiling", "refused", "done"}
  /\ status = "done" => todo = <<>>
  /\ JumpsAreLast
  /\ status # "refused" => Ahead

LEMMA WorldStays == ASSUME prog' = prog PROVE World' = World
  BY TailPlacesStay DEF World

LEMMA TailPlaceStays == ASSUME prog' = prog, NEW p PROVE InTailPlace(p)' <=> InTailPlace(p)
  BY DEF InTailPlace, IsBody, PassesOn, NodeAt

LEMMA JumpsStay == ASSUME prog' = prog, jumps' = jumps, JumpsAreLast PROVE JumpsAreLast'
  BY TailPlaceStays DEF JumpsAreLast

(* What the first of the things to do finds.                               *)
LEMMA FirstThing ==
  ASSUME GeneratorInv, NEW do, NextIs(do)
  PROVE  /\ Head(todo) \in Thing /\ Head(todo).do = do /\ status = "compiling"
         /\ \E p, q, r \in Plan :
              /\ Matches(p) /\ Follows(World, Head(todo), p, q)
              /\ Carries(World, Tail(todo), q, r) /\ r.depth = 1 /\ r.stage = "rest"
<1>1. status = "compiling" /\ todo # <<>> /\ Head(todo).do = do
  BY DEF NextIs
<1>2. PICK p \in Plan, r \in Plan :
        Matches(p) /\ Carries(World, todo, p, r) /\ r.depth = 1 /\ r.stage = "rest"
  BY <1>1 DEF GeneratorInv, Ahead
<1>3. /\ Head(todo) \in Thing
      /\ \E q \in Plan : Follows(World, Head(todo), p, q) /\ Carries(World, Tail(todo), q, r)
  BY <1>1, <1>2, CarriesFirst
<1> QED
  BY <1>1, <1>2, <1>3

(* Going on with what the first thing led to.                              *)
LEMMA GoesOn ==
  ASSUME GeneratorInv,
         prog' = prog, outer' = NewLexicon, globals' \subseteq Names, tail' \in {0, 1},
         status' = "compiling", TableInv', GlobalEmpty', JumpsAreLast',
         NEW things, todo' = things \o Tail(todo),
         NEW p \in Plan, NEW q \in Plan, NEW r \in Plan,
         Carries(World, things, p, q), Carries(World, Tail(todo), q, r),
         r.depth = 1, r.stage = "rest", Matches(p)'
  PROVE  GeneratorInv'
<1>1. Carries(World, todo', p, r)
  BY CarriesBoth
<1>2. World' = World
  BY WorldStays
<1>3. Carries(World, todo, p, r)'
  BY <1>1, <1>2
<1>4. Ahead'
  BY <1>3 DEF Ahead
<1> QED
  BY <1>4 DEF GeneratorInv

(* When the first thing leads to nothing else.                             *)
LEMMA GoesOnAlone ==
  ASSUME GeneratorInv, todo # <<>>,
         prog' = prog, outer' = NewLexicon, globals' \subseteq Names, tail' \in {0, 1},
         status' = "compiling", TableInv', GlobalEmpty', JumpsAreLast',
         todo' = <<>> \o Tail(todo),
         NEW q \in Plan, NEW r \in Plan,
         Carries(World, Tail(todo), q, r), r.depth = 1, r.stage = "rest", Matches(q)'
  PROVE  GeneratorInv'
  BY CarriesNone, GoesOn

(* Where an expression is compiled.                                        *)
LEMMA ExpressionHere ==
  ASSUME GeneratorInv, NextIs("expr")
  PROVE  /\ Path \in Seq(Nat) /\ Path # <<>> /\ NodeAt(Path) \in Trees /\ Here = NodeAt(Path)
         /\ tail = 1 => InTailPlace(Path)
<1>1. Head(todo) \in Thing /\ Head(todo).do = "expr"
  BY FirstThing
<1>2. PICK p \in Plan : Matches(p) /\ \E q \in Plan : Follows(World, Head(todo), p, q)
  BY FirstThing
<1>3. /\ Head(todo).at # <<>> /\ NodeIn(World.items, Head(todo).at) \in Trees
      /\ p.flag = 1 => Head(todo).at \in World.tails
  BY <1>1, <1>2 DEF Follows
<1>4. World.items = prog /\ World.tails = TailPlaces
  BY DEF World
<1>5. Path \in Seq(Nat)
  BY <1>1 DEF Path, Thing
<1>6. tail = 1 => p.flag = 1
  BY <1>2 DEF Matches, Plan
<1> QED
  BY <1>3, <1>4, <1>5, <1>6 DEF Path, Here, NodeAt, TailPlaces

(* What is to be done for an expression leads to where it leaves off, and  *)
(* the tail flag may be down meanwhile.                                    *)
LEMMA ExpressionGoesOn ==
  ASSUME GeneratorInv, NextIs("expr"),
         prog' = prog, outer' = outer, globals' = globals, table' = table, status' = status,
         tail' \in {0, 1}, JumpsAreLast', NEW things, todo' = things \o Tail(todo),
         \A p \in Plan : \A q \in {p, Flagged(p, 1)} :
           Ready(p) /\ tail <= p.flag /\ (p.flag = 1 => Path \in TailPlaces) =>
             \E o \in {p, q, Flagged(p, 0)} : tail' <= o.flag /\ Carries(World, things, o, q)
  PROVE  GeneratorInv'
<1>1. Head(todo).do = "expr" /\ status = "compiling"
  BY FirstThing
<1>2. PICK p \in Plan, q \in Plan, r \in Plan :
        /\ Matches(p) /\ Follows(World, Head(todo), p, q)
        /\ Carries(World, Tail(todo), q, r) /\ r.depth = 1 /\ r.stage = "rest"
  BY FirstThing
<1>3. /\ q \in {p, Flagged(p, 1)} /\ Ready(p) /\ tail <= p.flag
      /\ p.flag = 1 => Path \in TailPlaces
  BY <1>1, <1>2 DEF Follows, Matches, World, Path
<1>4. PICK o \in {p, q, Flagged(p, 0)} : tail' <= o.flag /\ Carries(World, things, o, q)
  BY <1>3
<1>5. o \in Plan /\ o.depth = p.depth /\ o.stage = p.stage
  BY <1>3 DEF Flagged, Planned, Plan
<1>6. Matches(o)'
  <2>1. Settled' <=> Settled
    BY DEF Settled
  <2> QED
    BY <1>2, <1>4, <1>5, <2>1 DEF Matches
<1>7. TableInv' /\ GlobalEmpty' /\ outer' = NewLexicon /\ globals' \subseteq Names /\ status' = "compiling"
  BY <1>1 DEF GeneratorInv, TableInv, TableType, SlotsFollow, GlobalEmpty
<1> QED
  BY <1>2, <1>4, <1>5, <1>6, <1>7, GoesOn
-----------------------------------------------------------------------------
(* The operations on the table.                                            *)

LEMMA PushKeepsInv == ASSUME GeneratorInv, PushScopeStep PROVE GeneratorInv' /\ TableNext
<1>1. Head(todo).do = "push" /\ status = "compiling" /\ todo # <<>> /\ todo' = <<>> \o Tail(todo)
  BY DEF PushScopeStep, NextIs, Leads
<1>2. PICK p \in Plan, q \in Plan, r \in Plan :
        /\ Matches(p) /\ Follows(World, Head(todo), p, q)
        /\ Carries(World, Tail(todo), q, r) /\ r.depth = 1 /\ r.stage = "rest"
  BY FirstThing DEF PushScopeStep
<1>3. /\ p.stage \in {"inside", "rest"} /\ q.depth = p.depth + 1 /\ q.flag = p.flag
      /\ q.stage \in {"inside", "rest", "filling"}
  BY <1>1, <1>2 DEF Follows, Deeper, Planned, Ready
<1>4. TableInv /\ GlobalEmpty /\ Settled /\ Len(table.scopes) = p.depth /\ tail <= p.flag
  BY <1>2, <1>3 DEF GeneratorInv, Matches
<1>5. table' = PushScope(table) /\ UNCHANGED <<prog, outer, globals, tail, jumps, status>>
  BY DEF PushScopeStep, place, history
<1>6. /\ TableNext /\ TableInv' /\ Settled' /\ GlobalEmpty'
      /\ Len(table'.scopes) = Len(table.scopes) + 1
  BY <1>4, <1>5, PushDone
<1>7. Matches(q)'
  BY <1>3, <1>4, <1>5, <1>6 DEF Matches
<1>8. JumpsAreLast' /\ outer' = NewLexicon /\ globals' \subseteq Names /\ tail' \in {0, 1}
  BY <1>5, JumpsStay DEF GeneratorInv
<1> QED
  BY <1>1, <1>2, <1>5, <1>6, <1>7, <1>8, GoesOnAlone

LEMMA PopKeepsInv == ASSUME GeneratorInv, PopScopeStep PROVE GeneratorInv' /\ TableNext
<1>1. Head(todo).do = "pop" /\ status = "compiling" /\ todo # <<>> /\ todo' = <<>> \o Tail(todo)
  BY DEF PopScopeStep, NextIs, Leads
<1>2. PICK p \in Plan, q \in Plan, r \in Plan :
        /\ Matches(p) /\ Follows(World, Head(todo), p, q)
        /\ Carries(World, Tail(todo), q, r) /\ r.depth = 1 /\ r.stage = "rest"
  BY FirstThing DEF PopScopeStep
<1>3. /\ p.stage \in {"inside", "rest"} /\ q.stage = p.stage /\ p.depth = q.depth + 1
      /\ q.flag = p.flag /\ q.depth \in Nat /\ q.depth > 0
  BY <1>1, <1>2 DEF Follows, Deeper, Planned, Ready, Plan
<1>4. /\ TableInv /\ GlobalEmpty /\ Settled /\ Len(table.scopes) = q.depth + 1 /\ tail <= q.flag
      /\ Len(table.scopes) > 1
  BY <1>2, <1>3 DEF GeneratorInv, Matches
<1>5. table' = PopScope(table) /\ UNCHANGED <<prog, outer, globals, tail, jumps, status>>
  BY DEF PopScopeStep, place, history
<1>6. /\ TableNext /\ TableInv' /\ Settled' /\ GlobalEmpty'
      /\ Len(table'.scopes) = Len(table.scopes) - 1
  BY <1>4, <1>5, PopDone
<1>7. Matches(q)'
  BY <1>3, <1>4, <1>5, <1>6 DEF Matches
<1>8. JumpsAreLast' /\ outer' = NewLexicon /\ globals' \subseteq Names /\ tail' \in {0, 1}
  BY <1>5, JumpsStay DEF GeneratorInv
<1> QED
  BY <1>1, <1>2, <1>5, <1>6, <1>7, <1>8, GoesOnAlone

(* A variable of the program, or a temporary with either kind of label.    *)
LEMMA BindingKeeps ==
  ASSUME GeneratorInv, NEW do \in {"bind", "temp", "label"}, NextIs(do), NEW name \in Names,
         todo' = <<>> \o Tail(todo), table' = Bind(table, name),
         UNCHANGED <<prog, outer, globals, tail, jumps, status>>
  PROVE  GeneratorInv' /\ TableNext
<1>1. Head(todo).do = do /\ status = "compiling" /\ todo # <<>>
  BY DEF NextIs
<1>2. PICK p \in Plan, q \in Plan, r \in Plan :
        /\ Matches(p) /\ Follows(World, Head(todo), p, q)
        /\ Carries(World, Tail(todo), q, r) /\ r.depth = 1 /\ r.stage = "rest"
  BY FirstThing
<1>3. q = p /\ p.depth > 1 /\ p.stage \in {"inside", "rest"}
  BY <1>1, <1>2 DEF Follows, Ready
<1>4. TableInv /\ GlobalEmpty /\ Len(table.scopes) = p.depth /\ tail <= p.flag /\ Len(table.scopes) > 1
  BY <1>2, <1>3 DEF GeneratorInv, Matches
<1>5. /\ TableNext /\ TableInv' /\ Settled' /\ GlobalEmpty'
      /\ Len(table'.scopes) = Len(table.scopes)
  BY <1>4, BindDone
<1>6. Matches(q)'
  BY <1>3, <1>4, <1>5 DEF Matches
<1>7. JumpsAreLast' /\ outer' = NewLexicon /\ globals' \subseteq Names /\ tail' \in {0, 1}
  BY JumpsStay DEF GeneratorInv
<1> QED
  BY <1>1, <1>2, <1>5, <1>6, <1>7, GoesOnAlone

LEMMA BindKeepsInv == ASSUME GeneratorInv, BindStep PROVE GeneratorInv' /\ TableNext
<1>1. NextIs("bind") /\ Head(todo).do = "bind" /\ todo' = <<>> \o Tail(todo)
  BY DEF BindStep, NextIs, Leads
<1>2. PICK p \in Plan, q \in Plan : Follows(World, Head(todo), p, q)
  BY <1>1, FirstThing
<1>3. Head(todo).name \in Names
  BY <1>1, <1>2 DEF Follows
<1>4. /\ table' = Bind(table, Head(todo).name)
      /\ UNCHANGED <<prog, outer, globals, tail, jumps, status>>
  BY DEF BindStep, place, history
<1> QED
  BY <1>1, <1>3, <1>4, BindingKeeps

LEMMA TemporaryKeepsInv == ASSUME GeneratorInv, BindTemporary PROVE GeneratorInv' /\ TableNext
<1>1. NextIs("temp") /\ todo' = <<>> \o Tail(todo) /\ Temporary \in Names
  BY GeneratorAssumption DEF BindTemporary, Leads
<1>2. /\ table' = Bind(table, Temporary)
      /\ UNCHANGED <<prog, outer, globals, tail, jumps, status>>
  BY DEF BindTemporary, place, history
<1> QED
  BY <1>1, <1>2, BindingKeeps

LEMMA LabelKeepsInv == ASSUME GeneratorInv, BindLabel PROVE GeneratorInv' /\ TableNext
<1>1. NextIs("label") /\ todo' = <<>> \o Tail(todo)
  BY DEF BindLabel, Leads
<1>2. PICK name \in Labels : table' = Bind(table, name)
  BY DEF BindLabel
<1>3. name \in Names /\ UNCHANGED <<prog, outer, globals, tail, jumps, status>>
  BY GeneratorAssumption DEF BindLabel, place, history
<1> QED
  BY <1>1, <1>2, <1>3, BindingKeeps

LEMMA SetTailKeepsInv == ASSUME GeneratorInv, SetTailStep PROVE GeneratorInv' /\ table' = table
<1>1. /\ Head(todo).do = "tail" /\ status = "compiling" /\ todo # <<>>
      /\ todo' = <<>> \o Tail(todo) /\ tail' = Head(todo).n
  BY DEF SetTailStep, NextIs, Leads
<1>2. PICK p \in Plan, q \in Plan, r \in Plan :
        /\ Matches(p) /\ Follows(World, Head(todo), p, q)
        /\ Carries(World, Tail(todo), q, r) /\ r.depth = 1 /\ r.stage = "rest"
  BY FirstThing DEF SetTailStep
<1>3. /\ Ready(p) /\ q.stage = p.stage /\ q.depth = p.depth /\ Head(todo).n <= q.flag
      /\ Head(todo).n \in {0, 1}
  BY <1>1, <1>2 DEF Follows, Flagged, Planned
<1>4. UNCHANGED <<prog, outer, globals, table, jumps, status>>
  BY DEF SetTailStep, place, history
<1>5. p.stage \in {"inside", "rest"} /\ Settled /\ Len(table.scopes) = p.depth
  BY <1>2, <1>3 DEF Ready, Matches
<1>6. TableInv' /\ GlobalEmpty' /\ Settled'
  BY <1>4, <1>5 DEF GeneratorInv, TableInv, TableType, SlotsFollow, GlobalEmpty, Settled
<1>7. Matches(q)'
  BY <1>1, <1>3, <1>4, <1>5, <1>6 DEF Matches
<1>8. JumpsAreLast' /\ outer' = NewLexicon /\ globals' \subseteq Names /\ tail' \in {0, 1}
  BY <1>1, <1>3, <1>4, JumpsStay DEF GeneratorInv
<1> QED
  BY <1>1, <1>2, <1>4, <1>6, <1>7, <1>8, GoesOnAlone

LEMMA CaptureKeepsInv == ASSUME GeneratorInv, CaptureStep PROVE GeneratorInv' /\ TableNext
<1>1. Head(todo).do = "capture" /\ status = "compiling" /\ todo # <<>> /\ todo' = <<>> \o Tail(todo)
  BY DEF CaptureStep, NextIs, Leads
<1>2. PICK p \in Plan, q \in Plan, r \in Plan :
        /\ Matches(p) /\ Follows(World, Head(todo), p, q)
        /\ Carries(World, Tail(todo), q, r) /\ r.depth = 1 /\ r.stage = "rest"
  BY FirstThing DEF CaptureStep
<1>3. q = p /\ p.depth > 1 /\ p.stage = "filling" /\ Head(todo).name \in Names
  BY <1>1, <1>2 DEF Follows
<1>4. TableInv /\ GlobalEmpty /\ Len(table.scopes) = p.depth /\ tail <= p.flag /\ Len(table.scopes) > 1
  BY <1>2, <1>3 DEF GeneratorInv, Matches
<1>5. /\ table' = SetTop(table, SBind(Top(table), Head(todo).name))
      /\ UNCHANGED <<prog, outer, globals, tail, jumps, status>>
  BY DEF CaptureStep, place, history
<1>6. /\ TableNext /\ TableInv' /\ GlobalEmpty'
      /\ Len(table'.scopes) = Len(table.scopes)
  BY <1>3, <1>4, <1>5, CaptureDone
<1>7. Matches(q)'
  BY <1>3, <1>4, <1>5, <1>6 DEF Matches
<1>8. JumpsAreLast' /\ outer' = NewLexicon /\ globals' \subseteq Names /\ tail' \in {0, 1}
  BY <1>5, JumpsStay DEF GeneratorInv
<1> QED
  BY <1>1, <1>2, <1>5, <1>6, <1>7, <1>8, GoesOnAlone

LEMMA CountKeepsInv == ASSUME GeneratorInv, CountStep PROVE GeneratorInv' /\ TableNext
<1>1. Head(todo).do = "count" /\ status = "compiling" /\ todo # <<>> /\ todo' = <<>> \o Tail(todo)
  BY DEF CountStep, NextIs, Leads
<1>2. PICK p \in Plan, q \in Plan, r \in Plan :
        /\ Matches(p) /\ Follows(World, Head(todo), p, q)
        /\ Carries(World, Tail(todo), q, r) /\ r.depth = 1 /\ r.stage = "rest"
  BY FirstThing DEF CountStep
<1>3. q.depth = p.depth /\ q.flag = p.flag /\ q.stage = "inside"
  BY <1>1, <1>2 DEF Follows, Planned
<1>4. TableInv /\ GlobalEmpty /\ Len(table.scopes) = p.depth /\ tail <= p.flag
  BY <1>2, <1>3 DEF GeneratorInv, Matches
<1>5. /\ table' = [table EXCEPT !.offc = Top(table).offc]
      /\ UNCHANGED <<prog, outer, globals, tail, jumps, status>>
  BY DEF CountStep, place, history
<1>6. /\ TableNext /\ TableInv' /\ Settled' /\ GlobalEmpty'
      /\ Len(table'.scopes) = Len(table.scopes)
  BY <1>4, <1>5, CountDone
<1>7. Matches(q)'
  BY <1>3, <1>4, <1>5, <1>6 DEF Matches
<1>8. JumpsAreLast' /\ outer' = NewLexicon /\ globals' \subseteq Names /\ tail' \in {0, 1}
  BY <1>5, JumpsStay DEF GeneratorInv
<1> QED
  BY <1>1, <1>2, <1>5, <1>6, <1>7, <1>8, GoesOnAlone
-----------------------------------------------------------------------------
(* Units.                                                                  *)

LEMMA EndKeepsInv == ASSUME GeneratorInv, EndClosure PROVE GeneratorInv' /\ TableNext
<1>1. Head(todo).do = "closed" /\ status = "compiling" /\ todo # <<>> /\ todo' = <<>> \o Tail(todo)
  BY DEF EndClosure, NextIs, Leads
<1>2. PICK p \in Plan, q \in Plan, r \in Plan :
        /\ Matches(p) /\ Follows(World, Head(todo), p, q)
        /\ Carries(World, Tail(todo), q, r) /\ r.depth = 1 /\ r.stage = "rest"
  BY FirstThing DEF EndClosure
<1>3. p.flag = 0 /\ q.depth = 1 /\ q.flag = 0
  BY <1>1, <1>2 DEF Follows, Fresh, Rest, Planned
<1>4. table' = outer /\ outer = NewLexicon /\ UNCHANGED <<prog, outer, globals, tail, jumps, status>>
  BY DEF EndClosure, history, GeneratorInv
<1>5. TableNext /\ TableInv' /\ Settled' /\ GlobalEmpty' /\ Len(table'.scopes) = 1
  BY <1>4, NewDone
<1>6. Matches(q)'
  BY <1>2, <1>3, <1>4, <1>5 DEF Matches
<1>7. JumpsAreLast' /\ outer' = NewLexicon /\ globals' \subseteq Names /\ tail' \in {0, 1}
  BY <1>4, JumpsStay DEF GeneratorInv
<1> QED
  BY <1>1, <1>2, <1>4, <1>5, <1>6, <1>7, GoesOnAlone

(* The globals are forgotten, or one of them is known.                     *)
LEMMA GlobalsKeep ==
  ASSUME GeneratorInv, NEW do \in {"entry", "global"}, NextIs(do),
         todo' = <<>> \o Tail(todo), globals' \subseteq globals \cup {Head(todo).name},
         do = "entry" => globals' = {},
         UNCHANGED <<prog, outer, table, tail, jumps, status>>
  PROVE  GeneratorInv'
<1>1. Head(todo).do = do /\ status = "compiling" /\ todo # <<>>
  BY DEF NextIs
<1>2. PICK p \in Plan, q \in Plan, r \in Plan :
        /\ Matches(p) /\ Follows(World, Head(todo), p, q)
        /\ Carries(World, Tail(todo), q, r) /\ r.depth = 1 /\ r.stage = "rest"
  BY FirstThing
<1>3. q = p /\ (do = "global" => Head(todo).name \in Names)
  BY <1>1, <1>2 DEF Follows
<1>4. TableInv' /\ GlobalEmpty' /\ (Settled => Settled')
  BY DEF GeneratorInv, TableInv, TableType, SlotsFollow, GlobalEmpty, Settled
<1>5. Matches(q)'
  BY <1>2, <1>3, <1>4 DEF Matches
<1>6. globals' \subseteq Names
  BY <1>3 DEF GeneratorInv
<1>7. JumpsAreLast' /\ outer' = NewLexicon /\ tail' \in {0, 1}
  BY JumpsStay DEF GeneratorInv
<1> QED
  BY <1>1, <1>2, <1>4, <1>5, <1>6, <1>7, GoesOnAlone

LEMMA EntryKeepsInv == ASSUME GeneratorInv, Entry PROVE GeneratorInv' /\ table' = table
<1>1. NextIs("entry") /\ todo' = <<>> \o Tail(todo) /\ globals' = {}
  BY DEF Entry, Leads
<1>2. UNCHANGED <<prog, outer, table, tail, jumps, status>>
  BY DEF Entry, history
<1> QED
  BY <1>1, <1>2, GlobalsKeep

LEMMA GlobalKeepsInv == ASSUME GeneratorInv, DefineGlobal PROVE GeneratorInv' /\ table' = table
<1>1. NextIs("global") /\ todo' = <<>> \o Tail(todo) /\ globals' = globals \cup {Head(todo).name}
  BY DEF DefineGlobal, Leads
<1>2. UNCHANGED <<prog, outer, table, tail, jumps, status>>
  BY DEF DefineGlobal, history
<1> QED
  BY <1>1, <1>2, GlobalsKeep

LEMMA CarriesFive ==
  ASSUME NEW w, NEW a \in Thing, NEW b \in Thing, NEW c \in Thing, NEW d \in Thing, NEW e \in Thing,
         NEW p \in Plan, NEW q \in Plan, NEW r \in Plan, NEW s \in Plan, NEW t \in Plan, NEW u \in Plan,
         Follows(w, a, p, q), Follows(w, b, q, r), Follows(w, c, r, s), Follows(w, d, s, t),
         Follows(w, e, t, u)
  PROVE  Carries(w, <<a, b, c, d, e>>, p, u)
<1>1. Carries(w, <<a, b>> \o <<c, d, e>>, p, u)
  <2>1. Carries(w, <<a, b>>, p, r)
    BY CarriesTwo
  <2>2. Carries(w, <<c, d, e>>, r, u)
    BY CarriesThree
  <2> QED
    BY <2>1, <2>2, CarriesBoth
<1>2. <<a, b, c, d, e>> = <<a, b>> \o <<c, d, e>>
  OBVIOUS
<1> QED
  BY <1>1, <1>2

(* The names of a lambda, and those that it leaves free, go into its scope. *)
LEMMA CapturesCarry ==
  ASSUME NEW w, NEW names \in Seq(Names), NEW p \in Plan, p.stage = "filling", p.depth > 1
  PROVE  Carries(w, [i \in DOMAIN names |-> Todo("capture", <<>>, names[i], 0)], p, p)
<1> DEFINE n == Len(names)
           s == [i \in 1 .. n |-> Todo("capture", <<>>, names[i], 0)]
<1>1. n \in Nat /\ DOMAIN names = 1 .. n /\ \A i \in 1 .. n : names[i] \in Names
  BY LenProperties, ElementOfSeq
<1> HIDE DEF n
<1>2. ASSUME NEW i \in 1 .. n
      PROVE  /\ Todo("capture", <<>>, names[i], 0) \in Thing
             /\ Todo("capture", <<>>, names[i], 0).do = "capture"
             /\ Todo("capture", <<>>, names[i], 0).name = names[i]
  <2>1. names[i] \in Names \cup {NoName} /\ "capture" \in Doings
    BY <1>1 DEF Doings
  <2> HIDE DEF Doings
  <2> QED
    BY <2>1, Nothing DEF Todo, Thing
<1>3. s \in Seq(Thing) /\ Len(s) = n
  BY <1>1, <1>2
<1>4. ASSUME NEW i \in 1 .. Len(s) PROVE Follows(w, s[i], p, p)
  <2>1. i \in 1 .. n /\ s[i] = Todo("capture", <<>>, names[i], 0)
    BY <1>3
  <2>2. s[i].do = "capture" /\ s[i].name \in Names
    BY <1>1, <1>2, <2>1
  <2> HIDE DEF s
  <2> QED
    BY <2>2 DEF Follows
<1> HIDE DEF s
<1>5. Carries(w, s, p, p)
  BY <1>3, <1>4, CarriesEach
<1> QED
  BY <1>1, <1>5 DEF s

LEMMA BeginKeepsInv == ASSUME GeneratorInv, BeginClosure PROVE GeneratorInv' /\ TableNext
<1> DEFINE path == Head(todo).at
           node == NodeAt(path)
           Capture(names) == [i \in DOMAIN names |-> Todo("capture", <<>>, names[i], 0)]
           Count == Todo("count", <<>>, NoName, 0)
           Closed == Todo("closed", <<>>, NoName, 0)
           ending == <<Count, SetTail(1), Kid(path, 1), SetTail(0), Closed>>
           things == <<PushIt>> \o Capture(node.names) \o Capture(FreeNames(node.kids[1])) \o ending
           start == Planned("inside", 1, 0)
           fill == Planned("filling", 2, 0)
           body == Planned("inside", 2, 0)
           last == Planned("inside", 2, 1)
<1>1. /\ Head(todo).do = "closure" /\ Head(todo) \in Thing /\ status = "compiling"
      /\ todo' = things \o Tail(todo)
  BY FirstThing DEF BeginClosure, NextIs, Leads
<1>2. PICK p \in Plan, q \in Plan, r \in Plan :
        /\ Matches(p) /\ Follows(World, Head(todo), p, q)
        /\ Carries(World, Tail(todo), q, r) /\ r.depth = 1 /\ r.stage = "rest"
  BY FirstThing DEF BeginClosure
<1>3. p = Fresh /\ q \in {Fresh, Rest} /\ path \in LambdaPlaces(prog)
  BY <1>1, <1>2 DEF Follows, World
<1>4. outer' = table /\ table' = NewLexicon /\ UNCHANGED <<prog, globals, tail, jumps, status>>
  BY DEF BeginClosure, history
<1>5. table = NewLexicon /\ tail <= 0
  BY <1>2, <1>3 DEF Fresh, Planned, Matches
<1>6. TableNext /\ TableInv' /\ Settled' /\ GlobalEmpty' /\ Len(table'.scopes) = 1
  BY <1>4, NewDone
<1>7. start \in Plan /\ fill \in Plan /\ body \in Plan /\ last \in Plan
  BY DEF Planned, Plan
<1>8. Matches(start)'
  BY <1>4, <1>5, <1>6 DEF Matches, Planned
<1>9. /\ path \in Seq(Nat) /\ path # <<>> /\ node \in Trees /\ node.kind = "close"
      /\ node.names \in Seq(Names) /\ 1 \in DOMAIN node.kids /\ node.kids[1] \in Trees
  <2>1. path \in Seq(Nat) /\ path # <<>> /\ node \in Trees /\ node.kind = "close"
    BY <1>3 DEF LambdaPlaces, NodeAt
  <2> HIDE DEF node
  <2>2. node.names \in Seq(Names) /\ node.kids \in Seq(Trees) /\ Len(node.kids) = 1
    BY <2>1, TreeTyped DEF WellFormed
  <2>3. 1 \in DOMAIN node.kids /\ node.kids[1] \in Trees
    BY <2>2, LenProperties, ElementOfSeq
  <2> QED
    BY <2>1, <2>2, <2>3
<1> HIDE DEF node
<1>10. Carries(World, <<PushIt>>, start, fill)
  <2>1. PushIt \in Thing /\ PushIt.do = "push"
    <3>1. "push" \in Doings
      BY DEF Doings
    <3> QED
      BY <3>1, PlainTyped DEF PushIt
  <2>2. Follows(World, PushIt, start, fill)
    BY <2>1 DEF Follows, Planned
  <2> QED
    BY <1>7, <2>1, <2>2, CarriesOne
<1>11. Carries(World, Capture(node.names), fill, fill)
  BY <1>7, <1>9, CapturesCarry DEF Planned
<1>12. Carries(World, Capture(FreeNames(node.kids[1])), fill, fill)
  <2>1. FreeNames(node.kids[1]) \in Seq(Names)
    BY <1>9, FreeNamesTyped
  <2>2. fill.stage = "filling" /\ fill.depth > 1
    BY DEF Planned
  <2> HIDE DEF fill
  <2>3. \A names \in Seq(Names) : Carries(World, Capture(names), fill, fill)
    BY <1>7, <2>2, CapturesCarry
  <2> QED
    BY <2>1, <2>3
<1>13. Carries(World, ending, fill, q)
  <2>1. Count \in Thing /\ Closed \in Thing /\ Count.do = "count" /\ Closed.do = "closed"
    <3>1. "count" \in Doings /\ "closed" \in Doings
      BY DEF Doings
    <3> QED
      BY <3>1, PlainTyped
  <2>2. Follows(World, Count, fill, body) /\ Follows(World, Closed, body, q)
    BY <1>3, <2>1 DEF Follows, Planned
  <2>3. Ready(body) /\ Ready(last) /\ Flagged(body, 1) = last /\ Flagged(last, 0) = body
    BY DEF Ready, Flagged, Planned
  <2>4. SetTail(1) \in Thing /\ Follows(World, SetTail(1), body, last)
    BY <1>7, <2>3, MovesTail
  <2>5. SetTail(0) \in Thing /\ Follows(World, SetTail(0), last, body)
    BY <1>7, <2>3, MovesTail
  <2>6. Append(path, 1) \in TailPlaces
    BY <1>9, TailOfLambda DEF node
  <2>7. Kid(path, 1) \in Thing /\ Follows(World, Kid(path, 1), last, last)
    BY <1>7, <1>9, <2>3, <2>6, MovesDown DEF node
  <2> HIDE DEF Count, Closed, body, last, fill, path
  <2> QED
    BY <1>7, <2>1, <2>2, <2>4, <2>5, <2>7, CarriesFive
<1> HIDE DEF ending, start, fill, body, last, path, Capture
<1>14. Carries(World, things, start, q)
  <2>1. Carries(World, <<PushIt>> \o Capture(node.names), start, fill)
    BY <1>10, <1>11, CarriesBoth
  <2>2. Carries(World, (<<PushIt>> \o Capture(node.names)) \o Capture(FreeNames(node.kids[1])),
                start, fill)
    BY <1>12, <2>1, CarriesBoth
  <2> QED
    BY <1>13, <2>2, CarriesBoth
<1>15. JumpsAreLast' /\ outer' = NewLexicon /\ globals' \subseteq Names /\ tail' \in {0, 1}
  BY <1>4, <1>5, JumpsStay DEF GeneratorInv
<1> HIDE DEF things
<1> QED
  BY <1>1, <1>2, <1>4, <1>6, <1>7, <1>8, <1>14, <1>15, GoesOn

LEMMA DefineKeepsInv == ASSUME GeneratorInv, Define PROVE GeneratorInv' /\ table' = table
<1> DEFINE path == Head(todo).at
           params == prog[path[1]].params
           binding == [i \in DOMAIN params |-> BindIt(path \o <<0>>, params[i], i)]
           ending == <<SetTail(1), Expr(path), SetTail(0), PopIt>>
           things == <<PushIt>> \o binding \o ending
           deep == Deeper(Rest)
           last == Flagged(deep, 1)
<1>1. /\ Head(todo).do = "define" /\ Head(todo) \in Thing /\ status = "compiling"
      /\ todo' = things \o Tail(todo)
  BY FirstThing DEF Define, NextIs, Leads
<1>2. PICK p \in Plan, q \in Plan, r \in Plan :
        /\ Matches(p) /\ Follows(World, Head(todo), p, q)
        /\ Carries(World, Tail(todo), q, r) /\ r.depth = 1 /\ r.stage = "rest"
  BY FirstThing DEF Define
<1>3. p = Rest /\ q = Rest /\ \E i \in DOMAIN prog : path = <<i>> /\ prog[i].kind = "deffn"
  BY <1>1, <1>2 DEF Follows, World
<1>4. PICK i \in DOMAIN prog : path = <<i>> /\ prog[i].kind = "deffn"
  BY <1>3
<1>5. /\ i \in Nat /\ prog[i].body \in Trees /\ prog[i].params \in Seq(Names)
      /\ NodeIn(prog, <<i>>) = prog[i].body
  BY ItemTyped DEF GeneratorInv
<1>6. /\ path \in Seq(Nat) /\ path # <<>> /\ path[1] = i /\ params \in Seq(Names)
      /\ NodeIn(prog, path) \in Trees /\ path \in TailPlaces
  <2>1. <<i>>[1] = i /\ <<i>> \in Seq(Nat) /\ <<i>> # <<>>
    BY <1>5
  <2> HIDE DEF path
  <2> QED
    BY <1>4, <1>5, <2>1, TailOfDefinition DEF params
<1> HIDE DEF path, params
<1>7. Ready(Rest) /\ Rest \in Plan
  BY DEF Ready, Rest, Planned, Plan
<1>8. /\ PushIt \in Thing /\ PopIt \in Thing /\ deep \in Plan /\ Ready(deep) /\ deep.flag = 0
      /\ Follows(World, PushIt, Rest, deep) /\ Follows(World, PopIt, deep, Rest) /\ deep.depth > 1
  <2>1. Rest.flag = 0 /\ deep.depth > 1
    BY DEF Rest, Planned, Deeper
  <2> QED
    BY <1>7, <2>1, Moves
<1> HIDE DEF deep
<1>9. /\ last \in Plan /\ Ready(last) /\ last.flag = 1 /\ Flagged(last, 0) = deep
      /\ SetTail(1) \in Thing /\ Follows(World, SetTail(1), deep, last)
  <2>1. Flagged(last, 0) = deep
    BY <1>8 DEF Flagged, Planned, Plan
  <2> QED
    BY <1>8, <2>1, MovesTail
<1> HIDE DEF last
<1>10. SetTail(0) \in Thing /\ Follows(World, SetTail(0), last, deep)
  BY <1>9, MovesTail
<1>11. Expr(path) \in Thing /\ Follows(World, Expr(path), last, last)
  <2>1. 0 \in Nat /\ "expr" \in Doings
    BY DEF Doings
  <2>2. Expr(path) \in Thing /\ Expr(path).do = "expr" /\ Expr(path).at = path
    <3> HIDE DEF Doings
    <3> QED
      BY <1>6, <2>1, Nothing DEF Expr, Todo, Thing
  <2>3. World.items = prog /\ World.tails = TailPlaces
    BY DEF World
  <2> QED
    BY <1>6, <1>9, <2>2, <2>3 DEF Follows
<1>12. Carries(World, ending, deep, Rest)
  BY <1>7, <1>8, <1>9, <1>10, <1>11, CarriesFour
<1>13. Carries(World, binding, deep, deep)
  <2> DEFINE n == Len(params)
  <2>1. n \in Nat /\ DOMAIN params = 1 .. n /\ \A k \in 1 .. n : params[k] \in Names
    BY <1>6, LenProperties, ElementOfSeq
  <2> HIDE DEF n
  <2>2. path \o <<0>> \in Seq(Nat)
    <3>1. <<0>> \in Seq(Nat)
      OBVIOUS
    <3> QED
      BY <1>6, <3>1, ConcatProperties
  <2>3. ASSUME NEW k \in 1 .. n
        PROVE  /\ BindIt(path \o <<0>>, params[k], k) \in Thing
               /\ BindIt(path \o <<0>>, params[k], k).do = "bind"
               /\ BindIt(path \o <<0>>, params[k], k).name \in Names
    <3>1. params[k] \in Names /\ k \in Nat /\ "bind" \in Doings
      BY <2>1 DEF Doings
    <3> HIDE DEF Doings
    <3> QED
      BY <2>2, <3>1 DEF BindIt, Todo, Thing
  <2>4. binding = [k \in 1 .. n |-> BindIt(path \o <<0>>, params[k], k)]
    BY <2>1
  <2> HIDE DEF binding
  <2>5. binding \in Seq(Thing) /\ Len(binding) = n
    BY <2>1, <2>3, <2>4
  <2>6. ASSUME NEW k \in 1 .. Len(binding) PROVE Follows(World, binding[k], deep, deep)
    <3>1. binding[k].do = "bind" /\ binding[k].name \in Names
      BY <2>3, <2>4, <2>5
    <3> QED
      BY <1>8, <3>1 DEF Follows
  <2> QED
    BY <1>8, <2>5, <2>6, CarriesEach
<1>14. Carries(World, <<PushIt>>, Rest, deep)
  BY <1>7, <1>8, CarriesOne
<1> HIDE DEF binding, ending
<1>15. Carries(World, things, Rest, Rest)
  <2>1. Carries(World, <<PushIt>> \o binding, Rest, deep)
    BY <1>13, <1>14, CarriesBoth
  <2> QED
    BY <1>12, <2>1, CarriesBoth
<1>16. UNCHANGED <<prog, outer, globals, table, tail, jumps, status>>
  BY DEF Define, place, history
<1>17. TableInv' /\ GlobalEmpty' /\ (Settled => Settled')
  BY <1>16 DEF GeneratorInv, TableInv, TableType, SlotsFollow, GlobalEmpty, Settled
<1>18. Matches(p)'
  BY <1>2, <1>16, <1>17 DEF Matches
<1>19. JumpsAreLast' /\ outer' = NewLexicon /\ globals' \subseteq Names /\ tail' \in {0, 1}
  BY <1>16, JumpsStay DEF GeneratorInv
<1> HIDE DEF things
<1> QED
  BY <1>1, <1>2, <1>3, <1>15, <1>16, <1>17, <1>18, <1>19, GoesOn
-----------------------------------------------------------------------------
(* The kinds of expressions.                                               *)

LEMMA RefuseKeeps == ASSUME GeneratorInv, Refuse PROVE GeneratorInv' /\ table' = table
<1>1. /\ UNCHANGED <<prog, outer, globals, table, tail, jumps>>
      /\ status' = "refused"
  BY DEF Refuse, place, history
<1>2. TableInv' /\ GlobalEmpty'
  BY <1>1 DEF GeneratorInv, TableInv, TableType, SlotsFollow, GlobalEmpty
<1>3. JumpsAreLast'
  BY <1>1, JumpsStay DEF GeneratorInv
<1> QED
  BY <1>1, <1>2, <1>3 DEF GeneratorInv

(* A call that is a jump is in tail position.                              *)
LEMMA JumpAdded ==
  ASSUME GeneratorInv, NextIs("expr"), prog' = prog, jumps' = With(jumps, Path, tail = 1)
  PROVE  JumpsAreLast'
<1>1. tail = 1 => InTailPlace(Path)
  BY ExpressionHere
<1>2. \A p \in DOMAIN jumps : jumps[p] => InTailPlace(p)
  BY DEF GeneratorInv, JumpsAreLast
<1>3. ASSUME NEW p \in DOMAIN jumps', jumps'[p] PROVE InTailPlace(p)
  <2>1. CASE p = Path
    <3>1. jumps'[p] = (tail = 1)
      BY <2>1 DEF With
    <3> QED
      BY <1>1, <1>3, <2>1, <3>1
  <2>2. CASE p # Path
    <3>1. p \in DOMAIN jumps /\ jumps'[p] = jumps[p]
      BY <2>2 DEF With
    <3> QED
      BY <1>2, <1>3, <3>1
  <2> QED
    BY <2>1, <2>2
<1>4. ASSUME NEW p \in DOMAIN jumps', jumps'[p] PROVE InTailPlace(p)'
  BY <1>3, <1>4, TailPlaceStays
<1> QED
  BY <1>4 DEF JumpsAreLast

(* The plans around an expression: with the flag down, and one scope in.   *)
LEMMA Around ==
  ASSUME GeneratorInv, NEW p \in Plan, NEW q \in {p, Flagged(p, 1)}, Ready(p), tail <= p.flag
  PROVE  LET down == Flagged(p, 0)
         IN  /\ q \in Plan /\ Ready(q) /\ tail <= q.flag
             /\ down \in Plan /\ Ready(down) /\ down.flag = 0
             /\ SetTail(tail) \in Thing /\ SetTail(0) \in Thing
             /\ Follows(World, SetTail(tail), down, p) /\ Follows(World, SetTail(tail), down, q)
             /\ Follows(World, SetTail(0), p, down)
<1> DEFINE down == Flagged(p, 0)
<1>1. tail \in {0, 1}
  BY DEF GeneratorInv
<1>2. down \in Plan /\ Ready(down) /\ down.flag = 0 /\ Follows(World, SetTail(0), p, down) /\ SetTail(0) \in Thing
  BY MovesTail
<1>3. SetTail(tail) \in Thing /\ Follows(World, SetTail(tail), down, p)
  BY <1>1, MovesTail
<1>4. Flagged(p, 1) \in Plan /\ Ready(Flagged(p, 1)) /\ Flagged(p, 1).flag = 1
  BY MovesTail
<1>5. q \in Plan /\ Ready(q) /\ tail <= q.flag
  BY <1>1, <1>4
<1>6. Flagged(q, 0) = down
  BY DEF Flagged, Planned
<1>7. Follows(World, SetTail(tail), down, q)
  BY <1>1, <1>5, <1>6, MovesTail
<1> QED
  BY <1>2, <1>3, <1>5, <1>7

LEMMA Detour == ASSUME NEW w, NEW p \in Plan, Ready(p) PROVE Carries(w, <<PushIt, TempIt, PopIt>>, p, p)
  BY Moves, CarriesThree

LEMMA ConstantKeeps == ASSUME GeneratorInv, Constant PROVE GeneratorInv' /\ table' = table
<1>1. NextIs("expr") /\ todo' = <<>> \o Tail(todo)
  BY DEF Constant, NextNode, Leads
<1>2. UNCHANGED <<prog, outer, globals, table, tail, jumps, status>>
  BY DEF Constant, place, history
<1>3. ASSUME NEW p \in Plan, NEW q \in {p, Flagged(p, 1)}, Ready(p), tail <= p.flag
      PROVE  tail' <= q.flag /\ Carries(World, <<>>, q, q)
  BY <1>2, <1>3, Around, CarriesNone
<1>4. JumpsAreLast' /\ tail' \in {0, 1}
  BY <1>2, JumpsStay DEF GeneratorInv
<1> QED
  BY <1>1, <1>2, <1>3, <1>4, ExpressionGoesOn

(* What leads back to where it began, whatever the plan is there.          *)
LEMMA AsideKeeps ==
  ASSUME GeneratorInv, NextIs("expr"), NEW things, todo' = things \o Tail(todo),
         UNCHANGED <<place, table, tail, slots, history, status>>,
         \A p \in Plan : Ready(p) /\ tail <= p.flag => Carries(World, things, p, p)
  PROVE  GeneratorInv' /\ table' = table
<1>1. UNCHANGED <<prog, outer, globals, table, tail, jumps, status>>
  BY DEF place, history
<1>2. ASSUME NEW p \in Plan, NEW q \in {p, Flagged(p, 1)}, Ready(p), tail <= p.flag
      PROVE  tail' <= q.flag /\ Carries(World, things, q, q)
  <2>1. q \in Plan /\ Ready(q) /\ tail <= q.flag
    BY <1>2, Around
  <2> QED
    BY <1>1, <2>1
<1>3. JumpsAreLast' /\ tail' \in {0, 1}
  BY <1>1, JumpsStay DEF GeneratorInv
<1> QED
  BY <1>1, <1>2, <1>3, ExpressionGoesOn

LEMMA StringKeeps == ASSUME GeneratorInv, String PROVE GeneratorInv' /\ table' = table
<1>1. NextIs("expr") /\ todo' = <<PushIt, TempIt, PopIt>> \o Tail(todo)
  BY DEF String, NextNode, Leads
<1>2. UNCHANGED <<place, table, tail, slots, history, status>>
  BY DEF String
<1> QED
  BY <1>1, <1>2, Detour, AsideKeeps

LEMMA QuotedStringKeeps == ASSUME GeneratorInv, QuotedString PROVE GeneratorInv' /\ table' = table
<1> DEFINE things == <<PushIt, TempIt, PushIt, TempIt, PopIt, PopIt>>
<1>1. NextIs("expr") /\ todo' = things \o Tail(todo)
  BY DEF QuotedString, NextNode, Leads
<1>2. UNCHANGED <<place, table, tail, slots, history, status>>
  BY DEF QuotedString
<1>3. ASSUME NEW p \in Plan, Ready(p) PROVE Carries(World, things, p, p)
  <2>1. /\ PushIt \in Thing /\ TempIt \in Thing /\ PopIt \in Thing
        /\ Deeper(p) \in Plan /\ Ready(Deeper(p))
        /\ Follows(World, PushIt, p, Deeper(p)) /\ Follows(World, TempIt, Deeper(p), Deeper(p))
        /\ Follows(World, PopIt, Deeper(p), p)
    BY <1>3, Moves
  <2>2. Carries(World, <<PushIt, TempIt>>, p, Deeper(p))
    BY <2>1, CarriesTwo
  <2>3. Carries(World, <<PushIt, TempIt, PopIt>>, Deeper(p), Deeper(p))
    BY <2>1, Detour
  <2>4. Carries(World, <<PopIt>>, Deeper(p), p)
    BY <2>1, CarriesOne
  <2>5. things = <<PushIt, TempIt>> \o (<<PushIt, TempIt, PopIt>> \o <<PopIt>>)
    OBVIOUS
  <2> HIDE DEF things
  <2>6. Carries(World, <<PushIt, TempIt, PopIt>> \o <<PopIt>>, Deeper(p), p)
    BY <2>3, <2>4, CarriesBoth
  <2> QED
    BY <2>2, <2>5, <2>6, CarriesBoth
<1> HIDE DEF things
<1> QED
  BY <1>1, <1>2, <1>3, AsideKeeps

LEMMA VariableKeeps == ASSUME GeneratorInv, Variable PROVE GeneratorInv' /\ table' = table
<1>1. CASE Refuse
  BY <1>1, RefuseKeeps
<1>2. CASE ~Refuse
  <2> DEFINE things == IF found'[Path] = Definition THEN <<PushIt, TempIt, PopIt>> ELSE <<>>
  <2>1. NextIs("expr") /\ todo' = things \o Tail(todo)
    BY <1>2 DEF Variable, NextNode, Leads
  <2>2. UNCHANGED <<prog, outer, globals, table, tail, jumps, status>>
    BY <1>2 DEF Variable, place
  <2>3. ASSUME NEW p \in Plan, NEW q \in {p, Flagged(p, 1)}, Ready(p), tail <= p.flag
        PROVE  tail' <= q.flag /\ Carries(World, things, q, q)
    BY <2>2, <2>3, Around, CarriesNone, Detour
  <2>4. JumpsAreLast' /\ tail' \in {0, 1}
    BY <2>2, JumpsStay DEF GeneratorInv
  <2> HIDE DEF things
  <2> QED
    BY <2>1, <2>2, <2>3, <2>4, ExpressionGoesOn
<1> QED
  BY <1>1, <1>2

LEMMA CreateKeeps == ASSUME GeneratorInv, CreateClosure PROVE GeneratorInv' /\ table' = table
<1>1. CASE Refuse
  BY <1>1, RefuseKeeps
<1>2. CASE ~Refuse
  <2> DEFINE things == <<PushIt, TempIt, PopIt, PushIt, TempIt, TempIt, PopIt>>
  <2>1. NextIs("expr") /\ todo' = things \o Tail(todo)
    BY <1>2 DEF CreateClosure, NextNode, Leads
  <2>2. UNCHANGED <<prog, outer, globals, table, tail, jumps, status>>
    BY <1>2 DEF CreateClosure, place
  <2>3. ASSUME NEW p \in Plan, Ready(p) PROVE Carries(World, things, p, p)
    <3>1. Carries(World, <<PushIt, TempIt, TempIt, PopIt>>, p, p)
      BY <2>3, Moves, CarriesFour
    <3>2. Carries(World, <<PushIt, TempIt, PopIt>> \o <<PushIt, TempIt, TempIt, PopIt>>, p, p)
      BY <2>3, <3>1, Detour, CarriesBoth
    <3>3. things = <<PushIt, TempIt, PopIt>> \o <<PushIt, TempIt, TempIt, PopIt>>
      OBVIOUS
    <3> QED
      BY <3>2, <3>3
  <2> HIDE DEF things
  <2>4. ASSUME NEW p \in Plan, NEW q \in {p, Flagged(p, 1)}, Ready(p), tail <= p.flag
        PROVE  tail' <= q.flag /\ Carries(World, things, q, q)
    BY <2>2, <2>3, <2>4, Around
  <2>5. JumpsAreLast' /\ tail' \in {0, 1}
    BY <2>2, JumpsStay DEF GeneratorInv
  <2> QED
    BY <2>1, <2>2, <2>4, <2>5, ExpressionGoesOn
<1> QED
  BY <1>1, <1>2

LEMMA KidsHere ==
  ASSUME GeneratorInv, NextIs("expr")
  PROVE  /\ Here \in Trees /\ Here.kids \in Seq(Trees) /\ Here.names \in Seq(Names)
         /\ Len(Here.kids) \in Nat /\ DOMAIN Here.kids = 1 .. Len(Here.kids)
         /\ WellFormed(Here)
  BY ExpressionHere, TreeTyped, LenProperties

LEMMA KidHere ==
  ASSUME GeneratorInv, NextIs("expr"), NEW k \in DOMAIN Here.kids, NEW p \in Plan, Ready(p),
         p.flag = 1 => Path \in TailPlaces /\ PassesOn(Here, k)
  PROVE  /\ Kid(Path, k) \in Thing
         /\ Follows(World, Kid(Path, k), p, p) /\ Follows(World, Kid(Path, k), p, Flagged(p, 1))
<1>1. Path \in Seq(Nat) /\ Path # <<>> /\ NodeAt(Path) \in Trees /\ Here = NodeAt(Path)
  BY ExpressionHere
<1>2. k \in Nat
  BY KidsHere
<1>3. p.flag = 1 => Append(Path, k) \in TailPlaces
  BY <1>1, <1>2, TailPassed
<1> QED
  BY <1>1, <1>3, MovesDown

LEMMA UnaryKeeps == ASSUME GeneratorInv, UnaryOperation PROVE GeneratorInv' /\ table' = table
<1> DEFINE things == <<Kid(Path, 1), SetTail(tail)>>
<1>1. NextIs("expr") /\ todo' = things \o Tail(todo) /\ Here.kind \in {"unary", "fileop"}
  BY DEF UnaryOperation, NextNode, Leads
<1>2. UNCHANGED <<prog, outer, globals, table, jumps, status>> /\ tail' = 0
  BY DEF UnaryOperation, place, history
<1>3. 1 \in DOMAIN Here.kids
  BY <1>1, KidsHere DEF WellFormed
<1>4. ASSUME NEW p \in Plan, NEW q \in {p, Flagged(p, 1)}, Ready(p), tail <= p.flag
      PROVE  tail' <= Flagged(p, 0).flag /\ Carries(World, things, Flagged(p, 0), q)
  <2> DEFINE down == Flagged(p, 0)
  <2>1. /\ q \in Plan /\ down \in Plan /\ Ready(down) /\ down.flag = 0
        /\ SetTail(tail) \in Thing /\ Follows(World, SetTail(tail), down, q)
    BY <1>4, Around
  <2> HIDE DEF down
  <2>2. Kid(Path, 1) \in Thing /\ Follows(World, Kid(Path, 1), down, down)
    BY <1>1, <1>3, <2>1, KidHere
  <2>3. Carries(World, things, down, q)
    BY <2>1, <2>2, CarriesTwo
  <2> QED
    BY <1>2, <2>1, <2>3 DEF down
<1>5. JumpsAreLast'
  BY <1>2, JumpsStay DEF GeneratorInv
<1> HIDE DEF things
<1> QED
  BY <1>1, <1>2, <1>4, <1>5, ExpressionGoesOn

LEMMA BoxKeeps == ASSUME GeneratorInv, BoxOperation PROVE GeneratorInv' /\ table' = table
<1> DEFINE things == <<PushIt, TempIt, Kid(Path, 1), PopIt, SetTail(tail)>>
<1>1. NextIs("expr") /\ todo' = things \o Tail(todo) /\ Here.kind = "boxop"
  BY DEF BoxOperation, NextNode, Leads
<1>2. UNCHANGED <<prog, outer, globals, table, jumps, status>> /\ tail' = 0
  BY DEF BoxOperation, place, history
<1>3. 1 \in DOMAIN Here.kids
  BY <1>1, KidsHere DEF WellFormed
<1>4. ASSUME NEW p \in Plan, NEW q \in {p, Flagged(p, 1)}, Ready(p), tail <= p.flag
      PROVE  tail' <= Flagged(p, 0).flag /\ Carries(World, things, Flagged(p, 0), q)
  <2> DEFINE down == Flagged(p, 0)
             deep == Deeper(down)
  <2>1. /\ q \in Plan /\ down \in Plan /\ Ready(down) /\ down.flag = 0
        /\ SetTail(tail) \in Thing /\ Follows(World, SetTail(tail), down, q)
    BY <1>4, Around
  <2> HIDE DEF down
  <2>2. /\ PushIt \in Thing /\ PopIt \in Thing /\ TempIt \in Thing
        /\ deep \in Plan /\ Ready(deep) /\ deep.flag = 0
        /\ Follows(World, PushIt, down, deep) /\ Follows(World, TempIt, deep, deep)
        /\ Follows(World, PopIt, deep, down)
    BY <2>1, Moves
  <2> HIDE DEF deep
  <2>3. Kid(Path, 1) \in Thing /\ Follows(World, Kid(Path, 1), deep, deep)
    BY <1>1, <1>3, <2>2, KidHere
  <2>4. Carries(World, <<PushIt, TempIt, Kid(Path, 1)>>, down, deep)
    BY <2>1, <2>2, <2>3, CarriesThree
  <2>5. Carries(World, <<PopIt, SetTail(tail)>>, deep, q)
    BY <2>1, <2>2, CarriesTwo
  <2>6. things = <<PushIt, TempIt, Kid(Path, 1)>> \o <<PopIt, SetTail(tail)>>
    OBVIOUS
  <2> HIDE DEF things
  <2>7. Carries(World, things, down, q)
    BY <2>4, <2>5, <2>6, CarriesBoth
  <2> QED
    BY <1>2, <2>1, <2>7 DEF down
<1>5. JumpsAreLast'
  BY <1>2, JumpsStay DEF GeneratorInv
<1> HIDE DEF things
<1> QED
  BY <1>1, <1>2, <1>4, <1>5, ExpressionGoesOn

LEMMA BinaryKeeps == ASSUME GeneratorInv, BinaryOperation PROVE GeneratorInv' /\ table' = table
<1> DEFINE things == <<PushIt, LabelIt, Kid(Path, 1), Kid(Path, 2), PopIt, SetTail(tail)>>
<1>1. NextIs("expr") /\ todo' = things \o Tail(todo) /\ Here.kind = "binary"
  BY DEF BinaryOperation, NextNode, Leads
<1>2. UNCHANGED <<prog, outer, globals, table, jumps, status>> /\ tail' = 0
  BY DEF BinaryOperation, place, history
<1>3. 1 \in DOMAIN Here.kids /\ 2 \in DOMAIN Here.kids
  BY <1>1, KidsHere DEF WellFormed
<1>4. ASSUME NEW p \in Plan, NEW q \in {p, Flagged(p, 1)}, Ready(p), tail <= p.flag
      PROVE  tail' <= Flagged(p, 0).flag /\ Carries(World, things, Flagged(p, 0), q)
  <2> DEFINE down == Flagged(p, 0)
             deep == Deeper(down)
  <2>1. /\ q \in Plan /\ down \in Plan /\ Ready(down) /\ down.flag = 0
        /\ SetTail(tail) \in Thing /\ Follows(World, SetTail(tail), down, q)
    BY <1>4, Around
  <2> HIDE DEF down
  <2>2. /\ PushIt \in Thing /\ PopIt \in Thing /\ LabelIt \in Thing
        /\ deep \in Plan /\ Ready(deep) /\ deep.flag = 0
        /\ Follows(World, PushIt, down, deep) /\ Follows(World, LabelIt, deep, deep)
        /\ Follows(World, PopIt, deep, down)
    BY <2>1, Moves
  <2> HIDE DEF deep
  <2>3. /\ Kid(Path, 1) \in Thing /\ Follows(World, Kid(Path, 1), deep, deep)
        /\ Kid(Path, 2) \in Thing /\ Follows(World, Kid(Path, 2), deep, deep)
    BY <1>1, <1>3, <2>2, KidHere
  <2>4. Carries(World, <<PushIt, LabelIt, Kid(Path, 1)>>, down, deep)
    BY <2>1, <2>2, <2>3, CarriesThree
  <2>5. Carries(World, <<Kid(Path, 2), PopIt, SetTail(tail)>>, deep, q)
    BY <2>1, <2>2, <2>3, CarriesThree
  <2>6. things = <<PushIt, LabelIt, Kid(Path, 1)>> \o <<Kid(Path, 2), PopIt, SetTail(tail)>>
    OBVIOUS
  <2> HIDE DEF things
  <2>7. Carries(World, things, down, q)
    BY <2>4, <2>5, <2>6, CarriesBoth
  <2> QED
    BY <1>2, <2>1, <2>7 DEF down
<1>5. JumpsAreLast'
  BY <1>2, JumpsStay DEF GeneratorInv
<1> HIDE DEF things
<1> QED
  BY <1>1, <1>2, <1>4, <1>5, ExpressionGoesOn

LEMMA ConsKeeps == ASSUME GeneratorInv, ConsOperation PROVE GeneratorInv' /\ table' = table
<1> DEFINE first == <<PushIt, LabelIt, PushIt, TempIt>>
           rest == <<PopIt, PopIt, SetTail(tail)>>
           things == <<PushIt, LabelIt, PushIt, TempIt, Kid(Path, 1), Kid(Path, 2), PopIt, PopIt,
                       SetTail(tail)>>
<1>1. NextIs("expr") /\ todo' = things \o Tail(todo) /\ Here.kind = "cons"
  BY DEF ConsOperation, NextNode, Leads
<1>2. UNCHANGED <<prog, outer, globals, table, jumps, status>> /\ tail' = 0
  BY DEF ConsOperation, place, history
<1>3. 1 \in DOMAIN Here.kids /\ 2 \in DOMAIN Here.kids
  BY <1>1, KidsHere DEF WellFormed
<1>4. ASSUME NEW p \in Plan, NEW q \in {p, Flagged(p, 1)}, Ready(p), tail <= p.flag
      PROVE  tail' <= Flagged(p, 0).flag /\ Carries(World, things, Flagged(p, 0), q)
  <2> DEFINE down == Flagged(p, 0)
             deep == Deeper(down)
             deepest == Deeper(deep)
  <2>1. /\ q \in Plan /\ down \in Plan /\ Ready(down) /\ down.flag = 0
        /\ SetTail(tail) \in Thing /\ Follows(World, SetTail(tail), down, q)
    BY <1>4, Around
  <2> HIDE DEF down
  <2>2. /\ PushIt \in Thing /\ PopIt \in Thing /\ LabelIt \in Thing /\ TempIt \in Thing
        /\ deep \in Plan /\ Ready(deep) /\ deep.flag = 0
        /\ Follows(World, PushIt, down, deep) /\ Follows(World, LabelIt, deep, deep)
        /\ Follows(World, PopIt, deep, down)
    BY <2>1, Moves
  <2> HIDE DEF deep
  <2>3. /\ deepest \in Plan /\ Ready(deepest) /\ deepest.flag = 0
        /\ Follows(World, PushIt, deep, deepest) /\ Follows(World, TempIt, deepest, deepest)
        /\ Follows(World, PopIt, deepest, deep)
    BY <2>2, Moves
  <2> HIDE DEF deepest
  <2>4. /\ Kid(Path, 1) \in Thing /\ Follows(World, Kid(Path, 1), deepest, deepest)
        /\ Kid(Path, 2) \in Thing /\ Follows(World, Kid(Path, 2), deepest, deepest)
    BY <1>1, <1>3, <2>3, KidHere
  <2>5. Carries(World, first, down, deepest)
    BY <2>1, <2>2, <2>3, CarriesFour
  <2>6. Carries(World, <<Kid(Path, 1), Kid(Path, 2)>>, deepest, deepest)
    BY <2>3, <2>4, CarriesTwo
  <2>7. Carries(World, rest, deepest, q)
    BY <2>1, <2>2, <2>3, CarriesThree
  <2>8. things = (first \o <<Kid(Path, 1), Kid(Path, 2)>>) \o rest
    OBVIOUS
  <2> HIDE DEF first, rest, things
  <2>9. Carries(World, things, down, q)
    BY <2>5, <2>6, <2>7, <2>8, CarriesBoth
  <2> QED
    BY <1>2, <2>1, <2>9 DEF down
<1>5. JumpsAreLast'
  BY <1>2, JumpsStay DEF GeneratorInv
<1> HIDE DEF things
<1> QED
  BY <1>1, <1>2, <1>4, <1>5, ExpressionGoesOn

LEMMA IfKeeps == ASSUME GeneratorInv, If PROVE GeneratorInv' /\ table' = table
<1> DEFINE things == <<Kid(Path, 1), SetTail(tail), Kid(Path, 3), Kid(Path, 2)>>
<1>1. NextIs("expr") /\ todo' = things \o Tail(todo) /\ Here.kind = "ifexp"
  BY DEF If, NextNode, Leads
<1>2. UNCHANGED <<prog, outer, globals, table, jumps, status>> /\ tail' = 0
  BY DEF If, place, history
<1>3. 1 \in DOMAIN Here.kids /\ 2 \in DOMAIN Here.kids /\ 3 \in DOMAIN Here.kids
  BY <1>1, KidsHere DEF WellFormed
<1>4. PassesOn(Here, 2) /\ PassesOn(Here, 3)
  BY <1>1 DEF PassesOn
<1>5. ASSUME NEW p \in Plan, NEW q \in {p, Flagged(p, 1)}, Ready(p), tail <= p.flag,
             p.flag = 1 => Path \in TailPlaces
      PROVE  tail' <= Flagged(p, 0).flag /\ Carries(World, things, Flagged(p, 0), q)
  <2> DEFINE down == Flagged(p, 0)
  <2>1. /\ q \in Plan /\ down \in Plan /\ Ready(down) /\ down.flag = 0
        /\ SetTail(tail) \in Thing /\ Follows(World, SetTail(tail), down, p)
    BY <1>5, Around
  <2> HIDE DEF down
  <2>2. Kid(Path, 1) \in Thing /\ Follows(World, Kid(Path, 1), down, down)
    BY <1>1, <1>3, <2>1, KidHere
  <2>3. Kid(Path, 3) \in Thing /\ Follows(World, Kid(Path, 3), p, p)
    BY <1>1, <1>3, <1>4, <1>5, KidHere
  <2>4. Kid(Path, 2) \in Thing /\ Follows(World, Kid(Path, 2), p, q)
    BY <1>1, <1>3, <1>4, <1>5, KidHere
  <2>5. Carries(World, things, down, q)
    BY <2>1, <2>2, <2>3, <2>4, CarriesFour
  <2> QED
    BY <1>2, <2>1, <2>5 DEF down
<1>6. JumpsAreLast'
  BY <1>2, JumpsStay DEF GeneratorInv
<1> HIDE DEF things
<1> QED
  BY <1>1, <1>2, <1>5, <1>6, ExpressionGoesOn

LEMMA SequenceKeeps == ASSUME GeneratorInv, Sequence PROVE GeneratorInv' /\ table' = table
<1> DEFINE things == <<Kid(Path, 1), SetTail(tail), Kid(Path, 2)>>
<1>1. NextIs("expr") /\ todo' = things \o Tail(todo) /\ Here.kind = "multi"
  BY DEF Sequence, NextNode, Leads
<1>2. UNCHANGED <<prog, outer, globals, table, jumps, status>> /\ tail' = 0
  BY DEF Sequence, place, history
<1>3. 1 \in DOMAIN Here.kids /\ 2 \in DOMAIN Here.kids
  BY <1>1, KidsHere DEF WellFormed
<1>4. PassesOn(Here, 2)
  BY <1>1 DEF PassesOn
<1>5. ASSUME NEW p \in Plan, NEW q \in {p, Flagged(p, 1)}, Ready(p), tail <= p.flag,
             p.flag = 1 => Path \in TailPlaces
      PROVE  tail' <= Flagged(p, 0).flag /\ Carries(World, things, Flagged(p, 0), q)
  <2> DEFINE down == Flagged(p, 0)
  <2>1. /\ q \in Plan /\ down \in Plan /\ Ready(down) /\ down.flag = 0
        /\ SetTail(tail) \in Thing /\ Follows(World, SetTail(tail), down, p)
    BY <1>5, Around
  <2> HIDE DEF down
  <2>2. Kid(Path, 1) \in Thing /\ Follows(World, Kid(Path, 1), down, down)
    BY <1>1, <1>3, <2>1, KidHere
  <2>3. Kid(Path, 2) \in Thing /\ Follows(World, Kid(Path, 2), p, q)
    BY <1>1, <1>3, <1>4, <1>5, KidHere
  <2>4. Carries(World, things, down, q)
    BY <2>1, <2>2, <2>3, CarriesThree
  <2> QED
    BY <1>2, <2>1, <2>4 DEF down
<1>6. JumpsAreLast'
  BY <1>2, JumpsStay DEF GeneratorInv
<1> HIDE DEF things
<1> QED
  BY <1>1, <1>2, <1>5, <1>6, ExpressionGoesOn

LEMMA AssignKeeps == ASSUME GeneratorInv, Assign PROVE GeneratorInv' /\ table' = table
<1>1. CASE Refuse
  BY <1>1, RefuseKeeps
<1>2. CASE ~Refuse
  <2> DEFINE things == <<Kid(Path, 1)>> \o IF found'[Path] = Global THEN <<>> ELSE <<SetTail(tail)>>
  <2>1. NextIs("expr") /\ todo' = things \o Tail(todo) /\ Here.kind = "mutst"
    BY <1>2 DEF Assign, NextNode, Leads
  <2>2. UNCHANGED <<prog, outer, globals, table, jumps, status>> /\ tail' = 0
    BY <1>2 DEF Assign, place
  <2>3. 1 \in DOMAIN Here.kids
    BY <2>1, KidsHere DEF WellFormed
  <2>4. ASSUME NEW p \in Plan, NEW q \in {p, Flagged(p, 1)}, Ready(p), tail <= p.flag
        PROVE  tail' <= Flagged(p, 0).flag /\ Carries(World, things, Flagged(p, 0), q)
    <3> DEFINE down == Flagged(p, 0)
    <3>1. /\ q \in Plan /\ down \in Plan /\ Ready(down) /\ down.flag = 0
          /\ SetTail(tail) \in Thing /\ Follows(World, SetTail(tail), down, q)
      BY <2>4, Around
    <3>2. q \in {down, Flagged(down, 1)}
      BY <3>1 DEF Flagged, Planned, Plan
    <3> HIDE DEF down
    <3>3. /\ Kid(Path, 1) \in Thing
          /\ Follows(World, Kid(Path, 1), down, down) /\ Follows(World, Kid(Path, 1), down, q)
      BY <2>1, <2>3, <3>1, <3>2, KidHere
    <3>4. Carries(World, <<Kid(Path, 1)>>, down, down) /\ Carries(World, <<Kid(Path, 1)>>, down, q)
      BY <3>1, <3>3, CarriesOne
    <3>5. Carries(World, <<SetTail(tail)>>, down, q) /\ Carries(World, <<>>, q, q)
      BY <3>1, CarriesOne, CarriesNone
    <3>6. Carries(World, things, down, q)
      BY <3>4, <3>5, CarriesBoth
    <3> QED
      BY <2>2, <3>1, <3>6 DEF down
  <2>5. JumpsAreLast'
    BY <2>2, JumpsStay DEF GeneratorInv
  <2> HIDE DEF things
  <2> QED
    BY <2>1, <2>2, <2>4, <2>5, ExpressionGoesOn
<1> QED
  BY <1>1, <1>2

LEMMA Halves ==
  ASSUME NEW n \in Nat, n % 2 = 1
  PROVE  /\ n \div 2 \in Nat /\ n \in 1 .. n
         /\ \A i \in 1 .. n \div 2 : 2 * i - 1 \in 1 .. n /\ 2 * i \in 1 .. n /\ (2 * i) % 2 = 0
<1>1. n = 2 * (n \div 2) + 1 /\ n \div 2 \in Nat /\ n \in 1 .. n
  OBVIOUS
<1>2. ASSUME NEW h \in Nat, n = 2 * h + 1, NEW i \in 1 .. h
      PROVE  2 * i - 1 \in 1 .. n /\ 2 * i \in 1 .. n /\ (2 * i) % 2 = 0
  BY <1>2
<1> QED
  BY <1>1, <1>2

LEMMA CondKeeps == ASSUME GeneratorInv, CondStep PROVE GeneratorInv' /\ table' = table
<1> DEFINE Clause(i) == <<SetTail(0), Kid(Path, 2 * i - 1), SetTail(tail), Kid(Path, 2 * i)>>
           clauses == [i \in 1 .. Len(Here.kids) \div 2 |-> Clause(i)]
           last == <<Kid(Path, Len(Here.kids))>>
           things == FlattenSeq(clauses) \o last
<1>1. NextIs("expr") /\ todo' = things \o Tail(todo) /\ Here.kind = "conde"
  BY DEF CondStep, NextNode, Leads
<1>2. UNCHANGED <<prog, outer, globals, table, tail, jumps, status>>
  BY DEF CondStep, place, history
<1>3. Len(Here.kids) \in Nat /\ Len(Here.kids) % 2 = 1 /\ DOMAIN Here.kids = 1 .. Len(Here.kids)
  BY <1>1, KidsHere DEF WellFormed
<1> DEFINE n == Len(Here.kids)
           half == n \div 2
<1>4. n \in Nat /\ half \in Nat /\ n \in DOMAIN Here.kids
  BY <1>3, Halves
<1>5. ASSUME NEW i \in 1 .. half
      PROVE  2 * i - 1 \in DOMAIN Here.kids /\ 2 * i \in DOMAIN Here.kids /\ (2 * i) % 2 = 0
  BY <1>3, Halves
<1>6. PassesOn(Here, n) /\ \A i \in 1 .. half : PassesOn(Here, 2 * i)
  BY <1>1, <1>5 DEF PassesOn
<1> HIDE DEF n, half
<1>7. ASSUME NEW p \in Plan, NEW q \in {p, Flagged(p, 1)}, Ready(p), tail <= p.flag,
             p.flag = 1 => Path \in TailPlaces
      PROVE  tail' <= p.flag /\ Carries(World, things, p, q)
  <2> DEFINE down == Flagged(p, 0)
  <2>1. /\ q \in Plan /\ down \in Plan /\ Ready(down) /\ down.flag = 0
        /\ SetTail(tail) \in Thing /\ Follows(World, SetTail(tail), down, p)
        /\ SetTail(0) \in Thing /\ Follows(World, SetTail(0), p, down)
    BY <1>7, Around
  <2> HIDE DEF down
  <2>2. ASSUME NEW i \in 1 .. half PROVE Carries(World, Clause(i), p, p)
    <3>1. Kid(Path, 2 * i - 1) \in Thing /\ Follows(World, Kid(Path, 2 * i - 1), down, down)
      BY <1>1, <1>5, <2>1, KidHere
    <3>2. Kid(Path, 2 * i) \in Thing /\ Follows(World, Kid(Path, 2 * i), p, p)
      BY <1>1, <1>5, <1>6, <1>7, KidHere
    <3> QED
      BY <2>1, <3>1, <3>2, CarriesFour
  <2>3. clauses = [i \in 1 .. half |-> clauses[i]] /\ \A i \in 1 .. half : clauses[i] = Clause(i)
    BY DEF half, n
  <2> HIDE DEF clauses, Clause
  <2>4. Carries(World, FlattenSeq(clauses), p, p)
    BY <1>4, <2>2, <2>3, CarriesFlat
  <2>5. Kid(Path, n) \in Thing /\ Follows(World, Kid(Path, n), p, q)
    BY <1>1, <1>4, <1>6, <1>7, KidHere
  <2>6. Carries(World, last, p, q)
    BY <2>1, <2>5, CarriesOne DEF n
  <2> HIDE DEF last
  <2>7. Carries(World, things, p, q)
    BY <2>4, <2>6, CarriesBoth
  <2> QED
    BY <1>2, <1>7, <2>7
<1>8. JumpsAreLast' /\ tail' \in {0, 1}
  BY <1>2, JumpsStay DEF GeneratorInv
<1> HIDE DEF things
<1> QED
  BY <1>1, <1>2, <1>7, <1>8, ExpressionGoesOn

(* The operands of a quoted list are compiled two scopes in, with the flag *)
(* down.                                                                   *)
LEMMA QuotedListKeeps == ASSUME GeneratorInv, QuotedList PROVE GeneratorInv' /\ table' = table
<1> DEFINE n == Len(Here.kids)
           Also(i) == IF i = 1 THEN <<Kid(Path, n)>> ELSE <<>>
           Round(i) == <<SetTail(0), Kid(Path, n - i)>> \o Also(i) \o <<SetTail(tail)>>
           rounds == [i \in 1 .. n - 1 |-> Round(i)]
           first == <<PushIt, TempIt, PushIt, TempIt, TempIt>>
           last == <<PopIt, PopIt>>
           things == first \o FlattenSeq(rounds) \o last
<1>1. NextIs("expr") /\ todo' = things \o Tail(todo) /\ Here.kind = "cquot"
  BY DEF QuotedList, NextNode, Leads
<1>2. UNCHANGED <<place, table, tail, slots, history, status>>
  BY DEF QuotedList
<1>3. n \in Nat /\ n >= 2 /\ DOMAIN Here.kids = 1 .. n
  BY <1>1, KidsHere DEF WellFormed
<1> HIDE DEF n
<1>4. n - 1 \in Nat /\ n \in DOMAIN Here.kids /\ \A i \in 1 .. n - 1 : n - i \in DOMAIN Here.kids
  BY <1>3
<1>5. ASSUME NEW p \in Plan, Ready(p), tail <= p.flag PROVE Carries(World, things, p, p)
  <2> DEFINE deep == Deeper(p)
             deepest == Deeper(deep)
             down == Flagged(deepest, 0)
  <2>1. /\ PushIt \in Thing /\ PopIt \in Thing /\ TempIt \in Thing
        /\ deep \in Plan /\ Ready(deep) /\ deep.flag = p.flag
        /\ Follows(World, PushIt, p, deep) /\ Follows(World, TempIt, deep, deep)
        /\ Follows(World, PopIt, deep, p)
    BY <1>5, Moves
  <2> HIDE DEF deep
  <2>2. /\ deepest \in Plan /\ Ready(deepest) /\ deepest.flag = deep.flag
        /\ Follows(World, PushIt, deep, deepest) /\ Follows(World, TempIt, deepest, deepest)
        /\ Follows(World, PopIt, deepest, deep)
    BY <2>1, Moves
  <2> HIDE DEF deepest
  <2>3. /\ down \in Plan /\ Ready(down) /\ down.flag = 0
        /\ SetTail(0) \in Thing /\ Follows(World, SetTail(0), deepest, down)
        /\ SetTail(tail) \in Thing /\ Follows(World, SetTail(tail), down, deepest)
    <3>1. deepest \in {deepest, Flagged(deepest, 1)} /\ tail <= deepest.flag
      BY <1>5, <2>1, <2>2
    <3> QED
      BY <2>2, <3>1, Around
  <2> HIDE DEF down
  <2>4. Carries(World, first, p, deepest)
    BY <2>1, <2>2, CarriesFive
  <2>5. Carries(World, last, deepest, p)
    BY <1>5, <2>1, <2>2, CarriesTwo
  <2>6. \A k \in DOMAIN Here.kids :
          Kid(Path, k) \in Thing /\ Follows(World, Kid(Path, k), down, down)
    BY <1>1, <2>3, KidHere
  <2>7. ASSUME NEW i \in 1 .. n - 1 PROVE Carries(World, Round(i), deepest, deepest)
    <3>1. Carries(World, <<SetTail(0), Kid(Path, n - i)>>, deepest, down)
      BY <1>4, <2>2, <2>3, <2>6, CarriesTwo
    <3>2. Carries(World, Also(i), down, down)
      BY <1>4, <2>3, <2>6, CarriesOne, CarriesNone
    <3>3. Carries(World, <<SetTail(tail)>>, down, deepest)
      BY <2>2, <2>3, CarriesOne
    <3> HIDE DEF Also
    <3>4. Carries(World, <<SetTail(0), Kid(Path, n - i)>> \o Also(i), deepest, down)
      BY <3>1, <3>2, CarriesBoth
    <3>5. Carries(World, (<<SetTail(0), Kid(Path, n - i)>> \o Also(i)) \o <<SetTail(tail)>>,
                  deepest, deepest)
      BY <3>3, <3>4, CarriesBoth
    <3> QED
      BY <3>5
  <2>8. rounds = [i \in 1 .. n - 1 |-> rounds[i]] /\ \A i \in 1 .. n - 1 : rounds[i] = Round(i)
    OBVIOUS
  <2> HIDE DEF rounds, Round
  <2>9. Carries(World, FlattenSeq(rounds), deepest, deepest)
    BY <1>4, <2>2, <2>7, <2>8, CarriesFlat
  <2> HIDE DEF first, last
  <2>10. Carries(World, first \o FlattenSeq(rounds), p, deepest)
    BY <2>4, <2>9, CarriesBoth
  <2>11. Carries(World, (first \o FlattenSeq(rounds)) \o last, p, p)
    BY <2>5, <2>10, CarriesBoth
  <2> QED
    BY <2>11
<1> HIDE DEF things
<1> QED
  BY <1>1, <1>2, <1>5, AsideKeeps

(* A variable is bound, and its value compiled, one scope in.              *)
LEMMA BindMoves ==
  ASSUME NEW w, NEW path \in Seq(Nat), NEW name \in Names, NEW i \in Nat,
         NEW p \in Plan, Ready(p), p.depth > 1
  PROVE  BindIt(path, name, i) \in Thing /\ Follows(w, BindIt(path, name, i), p, p)
<1>1. "bind" \in Doings
  BY DEF Doings
<1>2. /\ BindIt(path, name, i) \in Thing
      /\ BindIt(path, name, i).do = "bind" /\ BindIt(path, name, i).name = name
  <2> HIDE DEF Doings
  <2> QED
    BY <1>1 DEF BindIt, Todo, Thing
<1> QED
  BY <1>2 DEF Follows

(* A flag is raised in a scope as it is outside of it.                     *)
LEMMA DeeperFlag ==
  ASSUME NEW p \in Plan, Ready(p)
  PROVE  /\ Deeper(p) \in Plan /\ Ready(Deeper(p)) /\ Deeper(p).depth > 1
         /\ Deeper(p).flag = p.flag
         /\ \A n \in {0, 1} : Deeper(Flagged(p, n)) = Flagged(Deeper(p), n)
<1>1. Deeper(p) \in Plan /\ Deeper(p).depth > 1 /\ Deeper(p).stage = p.stage /\ Deeper(p).flag = p.flag
  BY DEF Deeper, Planned, Plan
<1>2. \A n \in {0, 1} : Deeper(Flagged(p, n)) = Flagged(Deeper(p), n)
  BY DEF Deeper, Flagged, Planned
<1> QED
  BY <1>1, <1>2 DEF Ready

LEMMA LetKeeps == ASSUME GeneratorInv, LetStep PROVE GeneratorInv' /\ table' = table
<1> DEFINE Clause(i) == <<BindIt(Path, Here.names[i], i), Kid(Path, i)>>
           clauses == [i \in DOMAIN Here.names |-> Clause(i)]
           ending == <<SetTail(tail), Kid(Path, Len(Here.kids)), PopIt>>
           things == <<PushIt>> \o FlattenSeq(clauses) \o ending
<1>1. NextIs("expr") /\ todo' = things \o Tail(todo) /\ Here.kind = "letex"
  BY DEF LetStep, NextNode, Leads
<1>2. UNCHANGED <<prog, outer, globals, table, jumps, status>> /\ tail' = 0
  BY DEF LetStep, place, history
<1> DEFINE n == Len(Here.names)
<1>3. /\ Len(Here.kids) = n + 1 /\ DOMAIN Here.kids = 1 .. n + 1
      /\ Here.names \in Seq(Names)
  BY <1>1, KidsHere DEF WellFormed
<1>4. n \in Nat /\ DOMAIN Here.names = 1 .. n /\ \A i \in 1 .. n : Here.names[i] \in Names
  BY <1>3, LenProperties, ElementOfSeq
<1> HIDE DEF n
<1>5. PassesOn(Here, Len(Here.kids)) /\ Len(Here.kids) \in DOMAIN Here.kids
  BY <1>1, <1>3, <1>4 DEF PassesOn
<1>6. \A i \in 1 .. n : i \in DOMAIN Here.kids /\ i \in Nat
  BY <1>3, <1>4
<1>7. Path \in Seq(Nat)
  BY <1>1, ExpressionHere
<1>8. ASSUME NEW p \in Plan, NEW q \in {p, Flagged(p, 1)}, Ready(p), tail <= p.flag,
             p.flag = 1 => Path \in TailPlaces
      PROVE  tail' <= Flagged(p, 0).flag /\ Carries(World, things, Flagged(p, 0), q)
  <2> DEFINE down == Flagged(p, 0)
             deep == Deeper(down)
             high == Deeper(p)
             last == Deeper(q)
  <2>1. /\ q \in Plan /\ Ready(q) /\ down \in Plan /\ Ready(down) /\ down.flag = 0
    BY <1>8, Around
  <2>2. /\ deep = Flagged(high, 0) /\ last \in {high, Flagged(high, 1)}
        /\ high \in Plan /\ Ready(high) /\ high.flag = p.flag
    BY <1>8, DeeperFlag
  <2> HIDE DEF down
  <2>3. deep \in Plan /\ Ready(deep) /\ deep.depth > 1 /\ deep.flag = 0 /\ last \in Plan
    BY <2>1, DeeperFlag
  <2>4. PushIt \in Thing /\ Follows(World, PushIt, down, deep)
    BY <2>1, Moves
  <2>5. PopIt \in Thing /\ Follows(World, PopIt, last, q)
    BY <2>1, Moves
  <2> HIDE DEF deep, high, last
  <2>6. SetTail(tail) \in Thing /\ Follows(World, SetTail(tail), deep, high)
    <3>1. tail \in {0, 1} /\ tail <= high.flag
      BY <1>8, <2>2 DEF GeneratorInv
    <3> QED
      BY <2>2, <3>1, MovesTail
  <2>7. Kid(Path, Len(Here.kids)) \in Thing /\ Follows(World, Kid(Path, Len(Here.kids)), high, last)
    BY <1>1, <1>5, <1>8, <2>2, KidHere
  <2>8. Carries(World, ending, deep, q)
    BY <2>1, <2>2, <2>3, <2>5, <2>6, <2>7, CarriesThree
  <2>9. ASSUME NEW i \in 1 .. n PROVE Carries(World, Clause(i), deep, deep)
    <3>1. BindIt(Path, Here.names[i], i) \in Thing /\ Follows(World, BindIt(Path, Here.names[i], i), deep, deep)
      BY <1>4, <1>6, <1>7, <2>3, BindMoves
    <3>2. Kid(Path, i) \in Thing /\ Follows(World, Kid(Path, i), deep, deep)
      BY <1>1, <1>6, <2>3, KidHere
    <3> QED
      BY <2>3, <3>1, <3>2, CarriesTwo
  <2>10. clauses = [i \in 1 .. n |-> clauses[i]] /\ \A i \in 1 .. n : clauses[i] = Clause(i)
    BY <1>4
  <2> HIDE DEF clauses, Clause, ending
  <2>11. Carries(World, FlattenSeq(clauses), deep, deep)
    BY <1>4, <2>3, <2>9, <2>10, CarriesFlat
  <2>12. Carries(World, <<PushIt>>, down, deep)
    BY <2>1, <2>3, <2>4, CarriesOne
  <2>13. Carries(World, <<PushIt>> \o FlattenSeq(clauses), down, deep)
    BY <2>11, <2>12, CarriesBoth
  <2>14. Carries(World, things, down, q)
    BY <2>8, <2>13, CarriesBoth
  <2> QED
    BY <1>2, <2>1, <2>14 DEF down
<1>9. JumpsAreLast'
  BY <1>2, JumpsStay DEF GeneratorInv
<1> HIDE DEF things
<1> QED
  BY <1>1, <1>2, <1>8, <1>9, ExpressionGoesOn

(* Where the procedure and the arguments of a call are compiled.           *)
Inside(p) == IF tail = 1 THEN Deeper(p) ELSE Deeper(Deeper(p))

LEMMA InsideReady ==
  ASSUME NEW p \in Plan, Ready(p)
  PROVE  Inside(p) \in Plan /\ Ready(Inside(p)) /\ Inside(p).flag = p.flag
  BY DeeperFlag DEF Inside

LEMMA SlotsCarry ==
  ASSUME NEW w, NEW p \in Plan, Ready(p), NEW args \in Nat
  PROVE  Carries(w, CallSlots(args), p, Inside(p))
<1> DEFINE slots_ == [i \in 1 .. args + 1 |-> TempIt]
           first == IF tail = 1 THEN <<>> ELSE <<PushIt, TempIt, TempIt>>
           outside == IF tail = 1 THEN p ELSE Deeper(p)
<1>1. outside \in Plan /\ Ready(outside) /\ Inside(p) = Deeper(outside)
  BY DeeperFlag DEF Inside
<1>2. Carries(w, first, p, outside)
  <2>1. CASE tail = 1
    BY <2>1, CarriesNone
  <2>2. CASE tail # 1
    <3>1. Carries(w, <<PushIt, TempIt, TempIt>>, p, Deeper(p))
      BY Moves, CarriesThree
    <3> QED
      BY <2>2, <3>1
  <2> QED
    BY <2>1, <2>2
<1> HIDE DEF outside, first
<1> DEFINE deep == Deeper(outside)
<1>3. /\ deep \in Plan /\ PushIt \in Thing /\ TempIt \in Thing
      /\ Follows(w, PushIt, outside, deep) /\ Follows(w, TempIt, deep, deep)
  BY <1>1, Moves
<1> HIDE DEF deep
<1>4. Carries(w, <<PushIt>>, outside, deep)
  BY <1>1, <1>3, CarriesOne
<1>5. slots_ \in Seq(Thing) /\ \A i \in 1 .. Len(slots_) : slots_[i] = TempIt
  BY <1>3
<1> HIDE DEF slots_
<1>6. Carries(w, slots_, deep, deep)
  BY <1>3, <1>5, CarriesEach
<1>7. Carries(w, first \o <<PushIt>>, p, deep)
  BY <1>2, <1>4, CarriesBoth
<1>8. Carries(w, (first \o <<PushIt>>) \o slots_, p, deep)
  BY <1>6, <1>7, CarriesBoth
<1> QED
  BY <1>1, <1>8 DEF CallSlots, first, slots_, deep

LEMMA DoneCarries ==
  ASSUME NEW w, NEW p \in Plan, NEW q \in Plan, Ready(p),
         SetTail(tail) \in Thing, Follows(w, SetTail(tail), p, q)
  PROVE  Carries(w, CallDone, Inside(p), q)
<1> DEFINE pops == IF tail = 1 THEN <<PopIt>> ELSE <<PopIt, PopIt>>
<1>1. Carries(w, pops, Inside(p), p)
  <2>1. /\ Deeper(p) \in Plan /\ Ready(Deeper(p)) /\ Deeper(Deeper(p)) \in Plan /\ PopIt \in Thing
        /\ Follows(w, PopIt, Deeper(p), p) /\ Follows(w, PopIt, Deeper(Deeper(p)), Deeper(p))
    BY Moves
  <2>2. CASE tail = 1
    <3>1. Carries(w, <<PopIt>>, Deeper(p), p)
      BY <2>1, CarriesOne
    <3> QED
      BY <2>2, <3>1 DEF Inside
  <2>3. CASE tail # 1
    <3>1. Carries(w, <<PopIt, PopIt>>, Deeper(Deeper(p)), p)
      BY <2>1, CarriesTwo
    <3> QED
      BY <2>3, <3>1 DEF Inside
  <2> QED
    BY <2>2, <2>3
<1>2. Carries(w, <<SetTail(tail)>>, p, q)
  BY CarriesOne
<1> HIDE DEF pops
<1>3. Carries(w, pops \o <<SetTail(tail)>>, Inside(p), q)
  BY <1>1, <1>2, CarriesBoth
<1> QED
  BY <1>3 DEF CallDone, pops

(* The arguments: the flag is down.                                        *)
LEMMA ArgumentsCarry ==
  ASSUME GeneratorInv, NextIs("expr"), NEW n \in Nat, n <= Len(Here.kids),
         NEW p \in Plan, Ready(p), p.flag = 0
  PROVE  Carries(World, [k \in 1 .. n |-> Kid(Path, k)], p, p)
<1> DEFINE s == [k \in 1 .. n |-> Kid(Path, k)]
<1>1. \A k \in 1 .. n : k \in DOMAIN Here.kids
  BY KidsHere
<1>2. \A k \in 1 .. n : Kid(Path, k) \in Thing /\ Follows(World, Kid(Path, k), p, p)
  BY <1>1, KidHere
<1>3. s \in Seq(Thing) /\ Len(s) = n /\ \A k \in 1 .. n : s[k] = Kid(Path, k)
  BY <1>2
<1> HIDE DEF s
<1>4. Carries(World, s, p, p)
  BY <1>2, <1>3, CarriesEach
<1> QED
  BY <1>4 DEF s

LEMMA CallNamedKeeps == ASSUME GeneratorInv, CallNamed PROVE GeneratorInv' /\ table' = table
<1>1. CASE Refuse
  BY <1>1, RefuseKeeps
<1>2. CASE ~Refuse
  <2> DEFINE args == [k \in DOMAIN Here.kids |-> Kid(Path, k)]
             things == CallSlots(Len(Here.kids)) \o args \o CallDone
  <2>1. NextIs("expr") /\ todo' = things \o Tail(todo)
    BY <1>2 DEF CallNamed, NextNode, Leads
  <2>2. /\ UNCHANGED <<prog, outer, globals, table, status>> /\ tail' = 0
        /\ jumps' = With(jumps, Path, tail = 1)
    BY <1>2 DEF CallNamed, place
  <2>3. Len(Here.kids) \in Nat /\ DOMAIN Here.kids = 1 .. Len(Here.kids)
    BY <2>1, KidsHere
  <2>4. args = [k \in 1 .. Len(Here.kids) |-> Kid(Path, k)]
    BY <2>3
  <2> HIDE DEF args
  <2>5. ASSUME NEW p \in Plan, NEW q \in {p, Flagged(p, 1)}, Ready(p), tail <= p.flag
        PROVE  tail' <= Flagged(p, 0).flag /\ Carries(World, things, Flagged(p, 0), q)
    <3> DEFINE down == Flagged(p, 0)
    <3>1. /\ q \in Plan /\ down \in Plan /\ Ready(down) /\ down.flag = 0
          /\ SetTail(tail) \in Thing /\ Follows(World, SetTail(tail), down, q)
      BY <2>5, Around
    <3> HIDE DEF down
    <3>2. Inside(down) \in Plan /\ Ready(Inside(down)) /\ Inside(down).flag = 0
      BY <3>1, InsideReady
    <3>3. Carries(World, CallSlots(Len(Here.kids)), down, Inside(down))
      BY <2>3, <3>1, SlotsCarry
    <3>4. Carries(World, args, Inside(down), Inside(down))
      <4>1. Len(Here.kids) <= Len(Here.kids)
        BY <2>3
      <4>2. Carries(World, [k \in 1 .. Len(Here.kids) |-> Kid(Path, k)], Inside(down), Inside(down))
        BY <2>1, <2>3, <3>2, <4>1, ArgumentsCarry
      <4> QED
        BY <2>4, <4>2
    <3>5. Carries(World, CallSlots(Len(Here.kids)) \o args, down, Inside(down))
      BY <3>3, <3>4, CarriesBoth
    <3>6. Carries(World, CallDone, Inside(down), q)
      BY <3>1, DoneCarries
    <3>7. Carries(World, things, down, q)
      BY <3>5, <3>6, CarriesBoth
    <3> QED
      BY <2>2, <3>1, <3>7 DEF down
  <2>6. JumpsAreLast'
    BY <2>1, <2>2, JumpAdded
  <2> HIDE DEF things
  <2> QED
    BY <2>1, <2>2, <2>5, <2>6, ExpressionGoesOn
<1> QED
  BY <1>1, <1>2

LEMMA CallValueKeeps == ASSUME GeneratorInv, CallValue PROVE GeneratorInv' /\ table' = table
<1> DEFINE n == Len(Here.kids) - 1
           args == [k \in 1 .. n |-> Kid(Path, k)]
           procedure == <<Kid(Path, n + 1)>>
           things == CallSlots(n) \o procedure \o args \o CallDone
<1>1. NextIs("expr") /\ Here.kind = "calle" /\ todo' = things \o Tail(todo)
  BY DEF CallValue, NextNode, Leads
<1>2. /\ UNCHANGED <<prog, outer, globals, table, status>> /\ tail' = 0
      /\ jumps' = With(jumps, Path, tail = 1)
  BY DEF CallValue, place
<1>3. n \in Nat /\ n <= Len(Here.kids) /\ n + 1 \in DOMAIN Here.kids
  BY <1>1, KidsHere DEF WellFormed
<1> HIDE DEF n
<1>4. ASSUME NEW p \in Plan, NEW q \in {p, Flagged(p, 1)}, Ready(p), tail <= p.flag
      PROVE  tail' <= Flagged(p, 0).flag /\ Carries(World, things, Flagged(p, 0), q)
  <2> DEFINE down == Flagged(p, 0)
  <2>1. /\ q \in Plan /\ down \in Plan /\ Ready(down) /\ down.flag = 0
        /\ SetTail(tail) \in Thing /\ Follows(World, SetTail(tail), down, q)
    BY <1>4, Around
  <2> HIDE DEF down
  <2>2. Inside(down) \in Plan /\ Ready(Inside(down)) /\ Inside(down).flag = 0
    BY <2>1, InsideReady
  <2>3. Carries(World, CallSlots(n), down, Inside(down))
    BY <1>3, <2>1, SlotsCarry
  <2>4. Carries(World, procedure, Inside(down), Inside(down))
    <3>1. Kid(Path, n + 1) \in Thing /\ Follows(World, Kid(Path, n + 1), Inside(down), Inside(down))
      BY <1>1, <1>3, <2>2, KidHere
    <3> QED
      BY <2>2, <3>1, CarriesOne
  <2>5. Carries(World, args, Inside(down), Inside(down))
    BY <1>1, <1>3, <2>2, ArgumentsCarry
  <2> HIDE DEF args, procedure
  <2>6. Carries(World, CallSlots(n) \o procedure, down, Inside(down))
    BY <2>3, <2>4, CarriesBoth
  <2>7. Carries(World, (CallSlots(n) \o procedure) \o args, down, Inside(down))
    BY <2>5, <2>6, CarriesBoth
  <2>8. Carries(World, CallDone, Inside(down), q)
    BY <2>1, DoneCarries
  <2>9. Carries(World, things, down, q)
    BY <2>7, <2>8, CarriesBoth
  <2> QED
    BY <1>2, <2>1, <2>9 DEF down
<1>5. JumpsAreLast'
  BY <1>1, <1>2, JumpAdded
<1> HIDE DEF things
<1> QED
  BY <1>1, <1>2, <1>4, <1>5, ExpressionGoesOn

(* All is compiled.                                                        *)
LEMMA FinishKeeps == ASSUME GeneratorInv, Finish PROVE GeneratorInv' /\ table' = table
<1>1. UNCHANGED <<prog, outer, globals, todo, table, tail, jumps>> /\ todo = <<>>
      /\ status = "compiling" /\ status' = "done"
  BY DEF Finish, place, history
<1>2. TableInv' /\ GlobalEmpty' /\ (Settled' <=> Settled)
  BY <1>1 DEF GeneratorInv, TableInv, TableType, SlotsFollow, GlobalEmpty, Settled
<1>3. JumpsAreLast'
  BY <1>1, JumpsStay DEF GeneratorInv
<1>4. Ahead'
  <2>1. PICK p \in Plan, r \in Plan :
          Matches(p) /\ Carries(World, todo, p, r) /\ r.depth = 1 /\ r.stage = "rest"
    BY <1>1 DEF GeneratorInv, Ahead
  <2>2. Matches(p)' /\ Carries(World, todo, p, r)'
    <3>1. World' = World /\ todo' = todo
      BY <1>1, WorldStays
    <3> QED
      BY <1>1, <1>2, <2>1, <3>1 DEF Matches
  <2> QED
    BY <2>1, <2>2 DEF Ahead
<1> QED
  BY <1>1, <1>2, <1>3, <1>4 DEF GeneratorInv
-----------------------------------------------------------------------------
(* What compile() begins with.                                             *)

LEMMA ForEachCarries ==
  ASSUME prog \in Programs, NEW w, NEW p \in Plan, NEW kind, NEW things,
         \A i \in DOMAIN prog : prog[i].kind = kind => Carries(w, things[i], p, p)
  PROVE  Carries(w, ForEach(kind, things), p, p)
<1> DEFINE n == Len(prog)
           seqs == [i \in DOMAIN prog |-> IF prog[i].kind = kind THEN things[i] ELSE <<>>]
<1>1. n \in Nat /\ DOMAIN prog = 1 .. n
  BY LenProperties, GeneratorAssumption
<1>2. \A i \in 1 .. n : seqs[i] = IF prog[i].kind = kind THEN things[i] ELSE <<>>
  BY <1>1
<1>3. seqs = [i \in 1 .. n |-> seqs[i]]
  BY <1>1
<1> HIDE DEF n, seqs
<1>4. Carries(w, <<>>, p, p)
  BY CarriesNone
<1>5. ASSUME NEW i \in 1 .. n PROVE Carries(w, seqs[i], p, p)
  <2>1. CASE prog[i].kind = kind
    BY <1>1, <1>2, <2>1
  <2>2. CASE prog[i].kind # kind
    BY <1>2, <1>4, <2>2
  <2> QED
    BY <2>1, <2>2
<1>6. Carries(w, FlattenSeq(seqs), p, p)
  BY <1>1, <1>3, <1>5, CarriesFlat
<1> QED
  BY <1>6 DEF ForEach, seqs

LEMMA ItemPlace ==
  ASSUME prog \in Programs, NEW i \in DOMAIN prog
  PROVE  <<i>> \in Seq(Nat) /\ <<i>> # <<>> /\ NodeIn(prog, <<i>>) \in Trees
<1>1. i \in Nat /\ NodeIn(prog, <<i>>) \in Trees
  BY ItemTyped
<1> QED
  BY <1>1

(* The expression of an item, compiled outside of every unit.              *)
LEMMA ItemCarries ==
  ASSUME prog \in Programs, NEW i \in DOMAIN prog
  PROVE  Expr(<<i>>) \in Thing /\ Follows(World, Expr(<<i>>), Rest, Rest)
<1> DEFINE thing == Expr(<<i>>)
<1>1. <<i>> \in Seq(Nat) /\ <<i>> # <<>> /\ NodeIn(prog, <<i>>) \in Trees
  BY ItemPlace
<1>2. thing \in Thing /\ thing.do = "expr" /\ thing.at = <<i>>
  <2>1. "expr" \in Doings
    BY DEF Doings
  <2> HIDE DEF Doings
  <2> QED
    BY <1>1, <2>1, Nothing DEF Expr, Todo, Thing
<1> HIDE DEF thing
<1>3. thing.at # <<>> /\ NodeIn(World.items, thing.at) \in Trees
  <2>1. World.items = prog
    BY DEF World
  <2> QED
    BY <1>1, <1>2, <2>1
<1>4. Ready(Rest) /\ Rest.flag = 0
  BY DEF Ready, Rest, Planned
<1>5. Follows(World, thing, Rest, Rest)
  BY <1>2, <1>3, <1>4 DEF Follows
<1> QED
  BY <1>2, <1>5 DEF thing

LEMMA LambdasCarry ==
  ASSUME prog \in Programs
  PROVE  \E p \in {Fresh, Rest} :
           Carries(World, [l \in DOMAIN AllLambdas |-> Todo("closure", AllLambdas[l], NoName, 0)], p, Rest)
<1> DEFINE n == Len(AllLambdas)
           s == [l \in DOMAIN AllLambdas |-> Todo("closure", AllLambdas[l], NoName, 0)]
<1>1. Fresh \in Plan /\ Rest \in Plan
  BY DEF Fresh, Rest, Planned, Plan
<1>2. /\ n \in Nat /\ DOMAIN AllLambdas = 1 .. n
      /\ \A l \in 1 .. n : AllLambdas[l] \in LambdaPlaces(prog)
  BY AllLambdasTyped, LenProperties, ElementOfSeq
<1> HIDE DEF n
<1>3. ASSUME NEW l \in 1 .. n
      PROVE  /\ Todo("closure", AllLambdas[l], NoName, 0) \in Thing
             /\ Todo("closure", AllLambdas[l], NoName, 0).do = "closure"
             /\ Todo("closure", AllLambdas[l], NoName, 0).at \in LambdaPlaces(prog)
  <2>1. AllLambdas[l] \in Seq(Nat) /\ AllLambdas[l] \in LambdaPlaces(prog) /\ "closure" \in Doings
    BY <1>2 DEF LambdaPlaces, Doings
  <2> HIDE DEF Doings
  <2> QED
    BY <2>1, Nothing DEF Todo, Thing
<1>4. s \in Seq(Thing) /\ Len(s) = n /\ \A l \in 1 .. n : s[l] = Todo("closure", AllLambdas[l], NoName, 0)
  BY <1>2, <1>3
<1> HIDE DEF s
<1>5. \A l \in 1 .. Len(s) : Follows(World, s[l], Fresh, Fresh) /\ Follows(World, s[l], Fresh, Rest)
  BY <1>3, <1>4 DEF Follows, World
<1>6. CASE s = <<>>
  <2>1. Carries(World, s, Rest, Rest)
    BY <1>1, <1>6, CarriesNone
  <2> QED
    BY <2>1 DEF s
<1>7. CASE s # <<>>
  <2>1. Carries(World, s, Fresh, Rest)
    BY <1>1, <1>4, <1>5, <1>7, CarriesUntil
  <2> QED
    BY <2>1 DEF s
<1> QED
  BY <1>6, <1>7

LEMMA InitHolds == ASSUME Init PROVE GeneratorInv
<1> DEFINE closures == [l \in DOMAIN AllLambdas |-> Todo("closure", AllLambdas[l], NoName, 0)]
           define == [i \in DOMAIN prog |-> <<Todo("define", <<i>>, NoName, 0)>>]
           entry == <<Todo("entry", <<>>, NoName, 0)>>
           global == [i \in DOMAIN prog |-> <<Expr(<<i>>), Todo("global", <<i>>, prog[i].name, 0)>>]
           expr == [i \in DOMAIN prog |-> <<Expr(<<i>>)>>]
           definitions == ForEach("deffn", define)
           values == ForEach("globl", global)
           expressions == ForEach("expr", expr)
<1>1. /\ prog \in Programs
      /\ todo = closures \o definitions \o entry \o values \o expressions
      /\ table = NewLexicon /\ outer = NewLexicon /\ globals = NamesOf("globl")
      /\ tail = 0 /\ jumps = <<>> /\ status = "compiling"
  BY DEF Init, TableInit
<1>2. TableInv /\ GlobalEmpty /\ Settled /\ Len(table.scopes) = 1
  <2>1. TableInv
    BY <1>1, InvInit
  <2>4. table.scopes = <<NewScope(1)>> /\ table.offc = 1
    BY <1>1, NewLexiconHolds
  <2>5. Len(table.scopes) = 1 /\ table.scopes[1] = NewScope(1)
    BY <2>4
  <2> QED
    BY <2>1, <2>4, <2>5 DEF Settled, GlobalEmpty, Top, NewScope
<1>3. globals \subseteq Names
  <2>1. \A i \in DOMAIN prog : prog[i].kind = "globl" => prog[i].name \in Names
    BY <1>1, ItemTyped
  <2> QED
    BY <1>1, <2>1 DEF NamesOf
<1>4. JumpsAreLast
  BY <1>1 DEF JumpsAreLast
<1>5. Fresh \in Plan /\ Rest \in Plan /\ Rest.depth = 1 /\ Rest.stage = "rest"
      /\ Fresh.depth = 1 /\ Fresh.flag = 0 /\ Rest.flag = 0
  BY DEF Fresh, Rest, Planned, Plan
<1>6. World.items = prog
  BY DEF World
<1>7. PICK p \in {Fresh, Rest} : Carries(World, closures, p, Rest)
  BY <1>1, LambdasCarry
<1>8. Carries(World, definitions, Rest, Rest)
  <2>1. ASSUME NEW i \in DOMAIN prog, prog[i].kind = "deffn"
        PROVE  Carries(World, define[i], Rest, Rest)
    <3> DEFINE thing == Todo("define", <<i>>, NoName, 0)
    <3>1. <<i>> \in Seq(Nat) /\ "define" \in Doings
      <4>1. "define" \in Doings
        BY DEF Doings
      <4> QED
        BY <1>1, <4>1, ItemPlace
    <3>2. thing \in Thing /\ thing.do = "define" /\ thing.at = <<i>>
      <4> HIDE DEF Doings
      <4> QED
        BY <3>1, Nothing DEF Todo, Thing
    <3> HIDE DEF thing
    <3>3. Follows(World, thing, Rest, Rest)
      BY <1>6, <2>1, <3>2 DEF Follows
    <3>4. Carries(World, <<thing>>, Rest, Rest)
      BY <1>5, <3>2, <3>3, CarriesOne
    <3> QED
      BY <3>4 DEF thing
  <2> HIDE DEF define
  <2> QED
    BY <1>1, <1>5, <2>1, ForEachCarries
<1>9. Carries(World, entry, Rest, Rest)
  <2> DEFINE thing == Todo("entry", <<>>, NoName, 0)
  <2>1. "entry" \in Doings
    BY DEF Doings
  <2>2. thing \in Thing /\ thing.do = "entry"
    BY <2>1, PlainTyped
  <2> HIDE DEF thing
  <2>3. Follows(World, thing, Rest, Rest)
    BY <2>2 DEF Follows
  <2>4. Carries(World, <<thing>>, Rest, Rest)
    BY <1>5, <2>2, <2>3, CarriesOne
  <2> QED
    BY <2>4 DEF thing
<1>10. Carries(World, values, Rest, Rest)
  <2>1. ASSUME NEW i \in DOMAIN prog, prog[i].kind = "globl"
        PROVE  Carries(World, global[i], Rest, Rest)
    <3> DEFINE thing == Todo("global", <<i>>, prog[i].name, 0)
    <3>1. <<i>> \in Seq(Nat) /\ prog[i].name \in Names /\ "global" \in Doings
      <4>1. "global" \in Doings
        BY DEF Doings
      <4> QED
        BY <1>1, <2>1, <4>1, ItemPlace, ItemTyped
    <3>2. thing \in Thing /\ thing.do = "global" /\ thing.name \in Names
      <4> HIDE DEF Doings
      <4> QED
        BY <3>1, Nothing DEF Todo, Thing
    <3> HIDE DEF thing
    <3>3. Follows(World, thing, Rest, Rest)
      BY <3>2 DEF Follows
    <3>4. Expr(<<i>>) \in Thing /\ Follows(World, Expr(<<i>>), Rest, Rest)
      BY <1>1, ItemCarries
    <3>5. Carries(World, <<Expr(<<i>>), thing>>, Rest, Rest)
      BY <1>5, <3>2, <3>3, <3>4, CarriesTwo
    <3> QED
      BY <3>5 DEF thing
  <2> HIDE DEF global
  <2> QED
    BY <1>1, <1>5, <2>1, ForEachCarries
<1>11. Carries(World, expressions, Rest, Rest)
  <2>1. ASSUME NEW i \in DOMAIN prog, prog[i].kind = "expr"
        PROVE  Carries(World, expr[i], Rest, Rest)
    <3>1. Expr(<<i>>) \in Thing /\ Follows(World, Expr(<<i>>), Rest, Rest)
      BY <1>1, ItemCarries
    <3>2. Carries(World, <<Expr(<<i>>)>>, Rest, Rest)
      BY <1>5, <3>1, CarriesOne
    <3> QED
      BY <3>2
  <2> HIDE DEF expr
  <2> QED
    BY <1>1, <1>5, <2>1, ForEachCarries
<1> HIDE DEF closures, definitions, entry, values, expressions
<1>12. Carries(World, todo, p, Rest)
  <2>1. Carries(World, closures \o definitions, p, Rest)
    BY <1>7, <1>8, CarriesBoth
  <2>2. Carries(World, (closures \o definitions) \o entry, p, Rest)
    BY <1>9, <2>1, CarriesBoth
  <2>3. Carries(World, ((closures \o definitions) \o entry) \o values, p, Rest)
    BY <1>10, <2>2, CarriesBoth
  <2>4. Carries(World, (((closures \o definitions) \o entry) \o values) \o expressions, p, Rest)
    BY <1>11, <2>3, CarriesBoth
  <2> QED
    BY <1>1, <2>4
<1>13. Matches(p)
  BY <1>1, <1>2, <1>5 DEF Matches
<1>14. Ahead
  BY <1>5, <1>12, <1>13 DEF Ahead
<1> QED
  BY <1>1, <1>2, <1>3, <1>4, <1>14 DEF GeneratorInv
-----------------------------------------------------------------------------
(* Every step keeps the invariant, and does with the table what Lexicon    *)
(* says may be done with it.                                               *)
LEMMA StepKeeps ==
  ASSUME GeneratorInv, [Next]_vars
  PROVE  GeneratorInv' /\ [TableNext]_table
<1>1. CASE Next
  <2>1. CASE PushScopeStep
    BY <2>1, PushKeepsInv
  <2>2. CASE PopScopeStep
    BY <2>2, PopKeepsInv
  <2>3. CASE BindStep
    BY <2>3, BindKeepsInv
  <2>4. CASE BindTemporary
    BY <2>4, TemporaryKeepsInv
  <2>5. CASE SetTailStep
    BY <2>5, SetTailKeepsInv
  <2>6. CASE BeginClosure
    BY <2>6, BeginKeepsInv
  <2>7. CASE CaptureStep
    BY <2>7, CaptureKeepsInv
  <2>8. CASE CountStep
    BY <2>8, CountKeepsInv
  <2>9. CASE EndClosure
    BY <2>9, EndKeepsInv
  <2>10. CASE Define
    BY <2>10, DefineKeepsInv
  <2>11. CASE Entry
    BY <2>11, EntryKeepsInv
  <2>12. CASE DefineGlobal
    BY <2>12, GlobalKeepsInv
  <2>13. CASE Constant
    BY <2>13, ConstantKeeps
  <2>14. CASE Variable
    BY <2>14, VariableKeeps
  <2>15. CASE UnaryOperation
    BY <2>15, UnaryKeeps
  <2>16. CASE BinaryOperation
    BY <2>16, BinaryKeeps
  <2>17. CASE If
    BY <2>17, IfKeeps
  <2>18. CASE CondStep
    BY <2>18, CondKeeps
  <2>19. CASE LetStep
    BY <2>19, LetKeeps
  <2>20. CASE Sequence
    BY <2>20, SequenceKeeps
  <2>21. CASE Assign
    BY <2>21, AssignKeeps
  <2>22. CASE CreateClosure
    BY <2>22, CreateKeeps
  <2>23. CASE CallNamed
    BY <2>23, CallNamedKeeps
  <2>24. CASE CallValue
    BY <2>24, CallValueKeeps
  <2>25. CASE Finish
    BY <2>25, FinishKeeps
  <2>26. CASE BindLabel
    BY <2>26, LabelKeepsInv
  <2>27. CASE String
    BY <2>27, StringKeeps
  <2>28. CASE QuotedString
    BY <2>28, QuotedStringKeeps
  <2>29. CASE BoxOperation
    BY <2>29, BoxKeeps
  <2>30. CASE ConsOperation
    BY <2>30, ConsKeeps
  <2>31. CASE QuotedList
    BY <2>31, QuotedListKeeps
  <2> QED
    BY <1>1, <2>1, <2>2, <2>3, <2>4, <2>5, <2>6, <2>7, <2>8, <2>9, <2>10, <2>11, <2>12, <2>13,
       <2>14, <2>15, <2>16, <2>17, <2>18, <2>19, <2>20, <2>21, <2>22, <2>23, <2>24, <2>25,
       <2>26, <2>27, <2>28, <2>29, <2>30, <2>31 DEF Next
<1>2. CASE UNCHANGED vars
  <2>1. UNCHANGED <<prog, outer, globals, todo, table, tail, jumps, status>>
    BY <1>2 DEF vars, place, history
  <2>2. TableInv' /\ GlobalEmpty' /\ (Settled' <=> Settled)
    BY <2>1 DEF GeneratorInv, TableInv, TableType, SlotsFollow, GlobalEmpty, Settled
  <2>3. JumpsAreLast'
    BY <2>1, JumpsStay DEF GeneratorInv
  <2>4. Ahead => Ahead'
    <3>1. World' = World /\ todo' = todo
      BY <2>1, WorldStays
    <3>2. ASSUME NEW p \in Plan, Matches(p) PROVE Matches(p)'
      BY <2>1, <2>2, <3>2 DEF Matches
    <3> QED
      BY <3>1, <3>2 DEF Ahead
  <2> QED
    BY <2>1, <2>2, <2>3, <2>4 DEF GeneratorInv
<1> QED
  BY <1>1, <1>2
-----------------------------------------------------------------------------
(* The theorems.                                                           *)

(* Whatever the program, what is still to be done leads with the table and *)
(* the tail flag as they are to the end of the program, every scope closed. *)
THEOREM GeneratorInvariant == Spec => []GeneratorInv
<1>1. Init => GeneratorInv
  BY InitHolds
<1>2. GeneratorInv /\ [Next]_vars => GeneratorInv'
  BY StepKeeps
<1> QED
  BY <1>1, <1>2, PTL DEF Spec

(* compile_expr, compile_closure and compile() use the table of            *)
(* definitions as Lexicon says it may be used: no scope is opened or       *)
(* closed while its counter is off, and the global scope is never closed.  *)
THEOREM UsesTheTable == Spec => UsesTable
<1>1. Init => TableInit
  BY DEF Init
<1>2. GeneratorInv /\ [Next]_vars => [TableNext]_table
  BY StepKeeps
<1> QED
  BY <1>1, <1>2, GeneratorInvariant, PTL DEF Spec, UsesTable, TableSpec

(* So while any program is compiled the slots of its variables follow one  *)
(* another, none is shared, and no array of the table is overrun.          *)
THEOREM SlotsStayApart == Spec => [](SlotsFollow /\ SlotsDistinct /\ WithinCapacity)
  BY UsesTheTable, SlotsAreConsecutive, SlotsNeverShared, ArraysSuffice, PTL DEF UsesTable

(* The table, the flag, the globals and the status have their types.       *)
THEOREM GeneratorTyped == Spec => []TypeOK
<1>1. NewLexicon \in Table
  <2>1. NewScope(1) \in Scope
    BY NewScopeTyped
  <2>2. Grown(0, DefaultSize) = 4
    BY DEF Grown, DefaultSize
  <2>3. NewLexicon = [scopes |-> <<NewScope(1)>>, cap |-> 4, offc |-> 1]
    BY <2>2 DEF NewLexicon, PushScope
  <2> QED
    BY <2>1, <2>3 DEF Table
<1>2. GeneratorInv => TypeOK
  BY <1>1 DEF GeneratorInv, TableInv, TypeOK
<1> QED
  BY <1>2, GeneratorInvariant, PTL

LEMMA CarriesNothing ==
  ASSUME NEW w, NEW p, NEW q, Carries(w, <<>>, p, q)
  PROVE  p = q
  BY RunsNothing DEF Carries

(* Each lambda and each definition, the entry of the program and its end   *)
(* find every scope closed that was opened: as many are left as were       *)
(* entered, on every way through compile_expr.                             *)
THEOREM ScopesAreClosed == Spec => []ScopesClosed
<1>1. ASSUME GeneratorInv, NEW p \in Plan, Matches(p), p.depth = 1, p.stage # "filling"
      PROVE  Len(table.scopes) = 1 /\ table.offc = 1
  <2>1. Len(table.scopes) = 1 /\ table.offc = Top(table).offc /\ Top(table) = table.scopes[1]
    BY <1>1 DEF Matches, Settled, Top
  <2>2. table.scopes[1].offc = FirstSlot(table.scopes, 1) + Len(table.scopes[1].vars)
    <3>1. 1 \in DOMAIN table.scopes
      BY <1>1, <2>1, InvScopes DEF GeneratorInv
    <3> QED
      BY <1>1, <3>1 DEF GeneratorInv, TableInv, SlotsFollow
  <2>3. Len(table.scopes[1].vars) = 0 /\ FirstSlot(table.scopes, 1) = 1
    BY <1>1, EmptySeq DEF GeneratorInv, GlobalEmpty, FirstSlot
  <2> QED
    BY <2>1, <2>2, <2>3
<1>2. ASSUME GeneratorInv, NEW do \in {"closure", "define", "entry"}, NextIs(do)
      PROVE  Len(table.scopes) = 1 /\ table.offc = 1
  <2>1. Head(todo).do = do
    BY <1>2 DEF NextIs
  <2>2. PICK p \in Plan, q \in Plan : Matches(p) /\ Follows(World, Head(todo), p, q)
    BY <1>2, FirstThing
  <2>3. p \in {Fresh, Rest}
    BY <2>1, <2>2 DEF Follows
  <2>4. p.depth = 1 /\ p.stage # "filling"
    BY <2>3 DEF Fresh, Rest, Planned
  <2> QED
    BY <1>1, <1>2, <2>2, <2>4
<1>3. ASSUME GeneratorInv, status = "done"
      PROVE  Len(table.scopes) = 1 /\ table.offc = 1
  <2>1. PICK p \in Plan, r \in Plan :
          Matches(p) /\ Carries(World, todo, p, r) /\ r.depth = 1 /\ r.stage = "rest"
    BY <1>3 DEF GeneratorInv, Ahead
  <2>2. Carries(World, <<>>, p, r)
    BY <1>3, <2>1 DEF GeneratorInv
  <2>3. p = r
    BY <2>2, CarriesNothing
  <2> QED
    BY <1>1, <1>3, <2>1, <2>3
<1>4. GeneratorInv => ScopesClosed
  BY <1>2, <1>3 DEF ScopesClosed
<1> QED
  BY <1>4, GeneratorInvariant, PTL

(* A call becomes a jump only in tail position: where the flag may be up,  *)
(* nothing is left to do after the expression but to return.               *)
THEOREM JumpsComeLast == Spec => []JumpsAreLast
<1>1. GeneratorInv => JumpsAreLast
  BY DEF GeneratorInv
<1> QED
  BY <1>1, GeneratorInvariant, PTL
=============================================================================
