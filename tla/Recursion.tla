------------------------------ MODULE Recursion ------------------------------
(***************************************************************************)
(* Induction over the prefixes of a sequence.  A function defined by          *)
(* recursion over 0 .. N satisfies its defining equation, whatever the step:  *)
(* a module that needs this of a recursive function of its own instantiates   *)
(* N, Base and Op with that function's length, first value and step, each     *)
(* with the function's parameters as its first argument.                      *)
(***************************************************************************)
EXTENDS Integers, WellFoundedInduction, TLAPS

CONSTANTS N(_), Base(_), Op(_, _, _)

Fold(p) ==
  CHOOSE f : f = [i \in 0 .. N(p) |-> IF i = 0 THEN Base(p) ELSE Op(p, f[i - 1], i)]

Below == {q \in Nat \X Nat : q[1] < q[2]}

\* The natural numbers are well-founded.
LEMMA BelowIsWellFounded == IsWellFoundedOn(Below, Nat)
  <1>1. OpToRel(<, Nat) = Below
    BY DEF OpToRel, Below
  <1>. QED
    BY <1>1, NatLessThanWellFounded

\* Induction, as a fact about sets: a set of numbers that holds 0 and is closed
\* under successors, up to a bound, holds every number up to the bound.
THEOREM Induction ==
  ASSUME NEW S, NEW n \in Nat, 0 \in S,
         \A i \in 0 .. n - 1 : i \in S => i + 1 \in S
  PROVE  \A i \in 0 .. n : i \in S
  <1> DEFINE T == (0 .. n) \ S
  <1>1. SUFFICES ASSUME T # {} PROVE FALSE
    OBVIOUS
  <1>2. PICK x \in T : \A y \in T : <<y, x>> \notin Below
    <2>1. T \subseteq Nat
      OBVIOUS
    <2>. HIDE DEF T
    <2>. QED
      BY <1>1, <2>1, BelowIsWellFounded, WFMin
  <1>3. x \in 1 .. n /\ x \notin S
    OBVIOUS
  <1>4. <<x - 1, x>> \in Below
    BY <1>3 DEF Below
  <1>5. x - 1 \in S
    BY <1>2, <1>3, <1>4
  <1>6. (x - 1) + 1 = x /\ x - 1 \in 0 .. n - 1
    BY <1>3
  <1>. QED
    BY <1>3, <1>5, <1>6

\* The recursive function exists, so its definition is an equation.
THEOREM FoldDef ==
  ASSUME NEW p, N(p) \in Nat
  PROVE  /\ DOMAIN Fold(p) = 0 .. N(p)
         /\ Fold(p)[0] = Base(p)
         /\ \A i \in 1 .. N(p) : Fold(p)[i] = Op(p, Fold(p)[i - 1], i)
  <1> DEFINE Upto(f, n) == f = [i \in 0 .. n |-> IF i = 0 THEN Base(p) ELSE Op(p, f[i - 1], i)]
             S == {n \in Nat : \E f : Upto(f, n)}
  <1>1. 0 \in S
    <2>1. Upto([i \in 0 .. 0 |-> Base(p)], 0)
      OBVIOUS
    <2>. QED
      BY <2>1
  <1>2. ASSUME NEW n \in Nat, n \in S PROVE n + 1 \in S
    <2>1. PICK f : Upto(f, n)
      BY <1>2
    <2> DEFINE g == [i \in 0 .. n + 1 |-> IF i <= n THEN f[i] ELSE Op(p, f[n], n + 1)]
    <2>2. \A i \in 0 .. n : g[i] = f[i]
      OBVIOUS
    <2>3. g[n + 1] = Op(p, g[n], n + 1)
      OBVIOUS
    <2>4. \A i \in 0 .. n + 1 : g[i] = IF i = 0 THEN Base(p) ELSE Op(p, g[i - 1], i)
      <3> TAKE i \in 0 .. n + 1
      <3>1. CASE i = n + 1
        <4>1. i # 0 /\ i - 1 = n
          BY <3>1
        <4>. QED
          BY <2>3, <3>1, <4>1
      <3>2. CASE i = 0
        BY <2>1, <2>2, <3>2
      <3>3. CASE i \in 1 .. n
        <4>1. i - 1 \in 0 .. n /\ i \in 0 .. n /\ i # 0
          BY <3>3
        <4>2. f[i] = Op(p, f[i - 1], i)
          BY <2>1, <4>1
        <4>. QED
          BY <2>2, <4>1, <4>2
      <3>. QED
        BY <3>1, <3>2, <3>3
    <2>5. Upto(g, n + 1)
      <3> DEFINE h == [i \in 0 .. n + 1 |-> IF i = 0 THEN Base(p) ELSE Op(p, g[i - 1], i)]
      <3>1. \A i \in 0 .. n + 1 : g[i] = h[i]
        BY <2>4
      <3>2. g = h
        BY <3>1
      <3>. QED
        BY <3>2
    <2>. HIDE DEF g
    <2>. QED
      BY <2>5
  <1>3. N(p) \in S
    <2>. HIDE DEF S
    <2>1. \A i \in 0 .. N(p) - 1 : i \in S => i + 1 \in S
      BY <1>2
    <2>2. \A i \in 0 .. N(p) : i \in S
      BY <1>1, <2>1, Induction
    <2>. QED
      BY <2>2
  <1>4. \E f : Upto(f, N(p))
    BY <1>3
  <1>5. Upto(Fold(p), N(p))
    BY <1>4 DEF Fold
  <1>. QED
    BY <1>5
=============================================================================
