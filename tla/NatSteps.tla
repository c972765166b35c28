------------------------------ MODULE NatSteps ------------------------------
(***************************************************************************)
(* Computations in steps: f[0] is x and f[n] comes from f[n - 1].  The     *)
(* module is instantiated with the step a recursive function of a model    *)
(* takes, so that its lemmas hold of that function.                      *)
(***************************************************************************)
EXTENDS Integers, TLAPS

LOCAL INSTANCE WellFoundedInduction

CONSTANT Op(_, _, _)    \* the n-th step from a value: Op(par, value, n)

Steps(par, x) ==
    LET f[n \in Nat] == IF n = 0 THEN x ELSE Op(par, f[n - 1], n) IN f

\* g holds the first n values.
IsRun(g, n, par, x) ==
    /\ g = [i \in 0..n |-> g[i]]
    /\ g[0] = x
    /\ \A i \in 1..n : g[i] = Op(par, g[i - 1], i)

-----------------------------------------------------------------------------
(* Induction *)

\* A set of naturals that is not empty has a least element.
LEMMA LeastNat ==
    ASSUME NEW S \in SUBSET Nat, S # {}
    PROVE  \E m \in S : \A k \in S : m <= k
<1> DEFINE Less == {p \in Nat \X Nat : p[1] < p[2]}
<1>1. IsWellFoundedOn(Less, Nat)
  BY NatLessThanWellFounded, Zenon DEF OpToRel
<1>2. \A k, m \in S : <<k, m>> \in Less <=> k < m
  OBVIOUS
<1> HIDE DEF Less
<1>3. PICK m \in S : \A k \in S : ~ (<<k, m>> \in Less)
  BY <1>1, WFMin, Zenon
<1>4. \A k \in S : ~ (k < m)
  BY <1>2, <1>3
<1> QED
  BY <1>4

\* Induction over the naturals, for a set that holds what is to be shown.
LEMMA Induct ==
    ASSUME NEW S, 0 \in S, \A n \in Nat : n \in S => n + 1 \in S
    PROVE  \A n \in Nat : n \in S
<1> DEFINE Bad == {n \in Nat : n \notin S}
<1> SUFFICES ASSUME Bad # {} PROVE FALSE
  OBVIOUS
<1>1. Bad \in SUBSET Nat /\ \A n \in Nat : n \notin Bad <=> n \in S
  OBVIOUS
<1> HIDE DEF Bad
<1>2. PICK m \in Bad : \A k \in Bad : m <= k
  BY <1>1, LeastNat
<1>3. m - 1 \in Nat /\ m - 1 \notin Bad
  BY <1>1, <1>2
<1> QED
  BY <1>1, <1>2, <1>3

-----------------------------------------------------------------------------
(* The computation *)

\* Two runs agree on the values both hold.
LEMMA Agree ==
    ASSUME NEW par, NEW x, NEW m \in Nat, NEW n \in Nat, NEW g, NEW h,
           IsRun(g, m, par, x), IsRun(h, n, par, x)
    PROVE  \A i \in Nat : i <= m /\ i <= n => g[i] = h[i]
<1> DEFINE Same == {i \in Nat : i <= m /\ i <= n => g[i] = h[i]}
<1>1. 0 \in Same
  BY DEF IsRun
<1>2. ASSUME NEW i \in Nat, i \in Same PROVE i + 1 \in Same
  <2> SUFFICES ASSUME i + 1 <= m, i + 1 <= n PROVE g[i + 1] = h[i + 1]
    OBVIOUS
  <2>1. i + 1 \in 1..m /\ i + 1 \in 1..n /\ (i + 1) - 1 = i /\ g[i] = h[i]
    BY <1>2
  <2> QED
    BY <2>1 DEF IsRun
<1>3. \A i \in Nat : i \in Same
  <2> HIDE DEF Same
  <2> QED
    BY <1>1, <1>2, Induct
<1> QED
  BY <1>3

\* There is a run of any length.
LEMMA RunExists ==
    ASSUME NEW par, NEW x
    PROVE  \A n \in Nat : \E g : IsRun(g, n, par, x)
<1> DEFINE Good == {n \in Nat : \E g : IsRun(g, n, par, x)}
<1>1. 0 \in Good
  <2> DEFINE g == [i \in 0..0 |-> x]
  <2>1. IsRun(g, 0, par, x)
    BY DEF IsRun
  <2> QED
    BY <2>1
<1>2. ASSUME NEW n \in Nat, n \in Good PROVE n + 1 \in Good
  <2>1. PICK g : IsRun(g, n, par, x)
    BY <1>2
  <2> DEFINE h == [i \in 0 .. n + 1 |-> IF i = n + 1 THEN Op(par, g[n], n + 1) ELSE g[i]]
  <2>2. h[0] = x /\ h = [i \in 0 .. n + 1 |-> h[i]]
    BY <2>1 DEF IsRun
  <2>3. \A i \in 1 .. n + 1 : h[i] = Op(par, h[i - 1], i)
    <3> TAKE i \in 1 .. n + 1
    <3>1. i - 1 \in 0 .. n + 1 /\ i - 1 # n + 1 /\ h[i - 1] = g[i - 1]
      OBVIOUS
    <3>2. CASE i = n + 1
      BY <3>1, <3>2
    <3>3. CASE i # n + 1
      <4>1. i \in 1..n /\ h[i] = g[i]
        BY <3>3
      <4>2. g[i] = Op(par, g[i - 1], i)
        BY <2>1, <4>1 DEF IsRun
      <4> QED
        BY <3>1, <4>1, <4>2
    <3> QED
      BY <3>2, <3>3
  <2>4. IsRun(h, n + 1, par, x)
    <3> HIDE DEF h
    <3> QED
      BY <2>2, <2>3 DEF IsRun
  <2> QED
    BY <2>4
<1>3. \A n \in Nat : n \in Good
  <2> HIDE DEF Good
  <2> QED
    BY <1>1, <1>2, Induct
<1> QED
  BY <1>3

\* The recursive function does what its definition says.
LEMMA StepsUnfold ==
    \A par, x :
        /\ Steps(par, x)[0] = x
        /\ \A n \in Nat : Steps(par, x)[n + 1] = Op(par, Steps(par, x)[n], n + 1)
<1> TAKE par, x
<1> DEFINE RunTo(n) == CHOOSE g : IsRun(g, n, par, x)
           f == [n \in Nat |-> RunTo(n)[n]]
<1>1. \A n \in Nat : IsRun(RunTo(n), n, par, x)
  BY RunExists
<1> HIDE DEF RunTo
<1>2. \A n \in Nat : n # 0 => f[n] = Op(par, f[n - 1], n)
  <2> SUFFICES ASSUME NEW n \in Nat, n # 0 PROVE f[n] = Op(par, f[n - 1], n)
    OBVIOUS
  <2>1. n - 1 \in Nat /\ n - 1 <= n /\ n - 1 <= n - 1
    OBVIOUS
  <2>2. RunTo(n)[n - 1] = RunTo(n - 1)[n - 1]
    BY <1>1, <2>1, Agree
  <2>3. RunTo(n)[n] = Op(par, RunTo(n)[n - 1], n)
    BY <1>1 DEF IsRun
  <2> QED
    BY <2>1, <2>2, <2>3
<1>3. f[0] = x
  BY <1>1 DEF IsRun
<1>4. f = [n \in Nat |-> IF n = 0 THEN x ELSE Op(par, f[n - 1], n)]
  <2>1. f = [n \in Nat |-> f[n]]
    OBVIOUS
  <2> HIDE DEF f
  <2>2. \A n \in Nat : f[n] = IF n = 0 THEN x ELSE Op(par, f[n - 1], n)
    BY <1>2, <1>3
  <2> QED
    BY <2>1, <2>2
<1> HIDE DEF f
<1>5. Steps(par, x) = [n \in Nat |-> IF n = 0 THEN x ELSE Op(par, Steps(par, x)[n - 1], n)]
  BY <1>4, Zenon DEF Steps
<1> QED
  BY <1>5
=============================================================================
