-------------------------------- MODULE Loops --------------------------------
(***************************************************************************)
(* What a loop of n rounds computes: induction over the rounds, and that a *)
(* function defined from each round to the next exists.  Both are stated   *)
(* about sets and functions, so that the provers can use them of any loop. *)
(***************************************************************************)
EXTENDS Integers, WellFoundedInduction, TLAPS

(* What holds at the start and is kept by every round holds in every round.  *)
LEMMA Reaches ==
  ASSUME NEW n \in Nat, NEW T, 0 \in T, \A i \in 1..n : i - 1 \in T => i \in T
  PROVE  0..n \subseteq T
<1> DEFINE R == OpToRel(<, Nat)
           S == {i \in 0..n : i \notin T}
<1>1. IsWellFoundedOn(R, Nat)
  BY NatLessThanWellFounded
<1>2. \A x, y \in Nat : <<y, x>> \in R <=> y < x
  BY DEF OpToRel
<1>3. SUFFICES ASSUME S # {} PROVE FALSE
  OBVIOUS
<1>4. S \subseteq Nat
  OBVIOUS
<1> HIDE DEF R
<1>5. PICK x \in S : \A y \in S : ~(<<y, x>> \in R)
  BY <1>1, <1>3, <1>4, WFMin
<1>6. x \in 1..n /\ x - 1 \in 0..n /\ x - 1 < x
  BY <1>5
<1>7. x - 1 \in S
  BY <1>5, <1>6
<1> QED
  BY <1>2, <1>4, <1>5, <1>6, <1>7

\* f[i] is the state after i rounds of a loop that starts at x; G[i] is its i-th round.
IsLoop(f, n, D, x, G) == f \in [0..n -> D] /\ f[0] = x /\ \A i \in 1..n : f[i] = G[i][f[i - 1]]

(* A loop whose rounds keep its state within D can be run.                   *)
LEMMA LoopExists ==
  ASSUME NEW n \in Nat, NEW D, NEW x \in D, NEW G \in [1..n -> [D -> D]]
  PROVE  \E f : IsLoop(f, n, D, x, G)
<1> DEFINE Upto(k, f) == f \in [0..k -> D] /\ f[0] = x /\ \A i \in 1..k : f[i] = G[i][f[i - 1]]
           T == {k \in 0..n : \E f : Upto(k, f)}
<1>1. 0 \in T
  <2>1. Upto(0, [i \in 0..0 |-> x])
    OBVIOUS
  <2>2. 0 \in 0..n
    OBVIOUS
  <2> HIDE DEF Upto
  <2> QED
    BY <2>1, <2>2
<1>2. ASSUME NEW k \in 1..n, k - 1 \in T PROVE k \in T
  <2>1. PICK f : Upto(k - 1, f)
    BY <1>2
  <2> DEFINE g == [i \in 0..k |-> IF i = k THEN G[k][f[k - 1]] ELSE f[i]]
  <2>2. G[k][f[k - 1]] \in D
    BY <2>1
  <2>3. g \in [0..k -> D] /\ g[0] = x
    BY <2>1, <2>2
  <2>4. ASSUME NEW i \in 1..k PROVE g[i] = G[i][g[i - 1]]
    <3>1. g[i - 1] = f[i - 1]
      OBVIOUS
    <3>2. CASE i = k
      BY <3>1, <3>2
    <3>3. CASE i # k
      <4>1. i \in 1..k - 1
        BY <3>3
      <4> QED
      BY <2>1, <3>1, <3>3, <4>1
    <3> QED
      BY <3>2, <3>3
  <2>5. Upto(k, g)
    BY <2>3, <2>4
  <2> HIDE DEF Upto, g
  <2> QED
    BY <2>5
<1>3. n \in T
  <2> HIDE DEF T
  <2>1. 0..n \subseteq T
    BY <1>1, <1>2, Reaches
  <2> QED
    BY <2>1
<1> QED
  BY <1>3 DEF IsLoop
=============================================================================
