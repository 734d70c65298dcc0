----------------------------- MODULE Induction -----------------------------
(***************************************************************************)
(* Induction over the naturals, stated with sets and functions in place of *)
(* predicates, so that a proof can cite it: a property of n is the set of  *)
(* the n that have it, a recursion step is a function.  It all rests on    *)
(* the well-foundedness of the naturals (WellFoundedInduction).            *)
(***************************************************************************)
EXTENDS Integers, Sequences, WellFoundedInduction, TLAPS

(* Every non-empty set of naturals has a least element. *)
LEMMA LeastNatural ==
  ASSUME NEW T \in SUBSET Nat, T # {}
  PROVE  \E x \in T : \A y \in T : x <= y
<1> DEFINE R == OpToRel(<, Nat)
<1>1. \A x, y \in Nat : <<y, x>> \in R <=> y < x
  BY DEF OpToRel
<1>2. IsWellFoundedOn(R, Nat)
  BY NatLessThanWellFounded
<1> HIDE DEF R
<1>3. PICK x \in T : \A y \in T : ~ (<<y, x>> \in R)
  BY <1>2, WFMin
<1>4. ASSUME NEW y \in T PROVE x <= y
  <2>1. x \in Nat /\ y \in Nat /\ ~ (<<y, x>> \in R)
    BY <1>3
  <2> QED
    BY <1>1, <2>1
<1> QED
  BY <1>4

(* A set that holds 0 and the successor of each natural it holds is Nat. *)
LEMMA NatInductionSet ==
  ASSUME NEW T, 0 \in T, \A n \in Nat : n \in T => n + 1 \in T
  PROVE  Nat \subseteq T
<1> SUFFICES ASSUME Nat \ T # {} PROVE FALSE
  OBVIOUS
<1>1. PICK x \in Nat \ T : \A y \in Nat \ T : x <= y
  BY LeastNatural
<1>2. x # 0 /\ x - 1 \in Nat /\ x - 1 < x
  OBVIOUS
<1>3. x - 1 \in T
  BY <1>1, <1>2
<1>4. (x - 1) + 1 \in T
  BY <1>2, <1>3
<1> QED
  BY <1>2, <1>4

(* A set that holds n when it holds all that is below n is Nat. *)
LEMMA StrongInductionSet ==
  ASSUME NEW T, \A n \in Nat : (\A m \in 0 .. n - 1 : m \in T) => n \in T
  PROVE  Nat \subseteq T
<1> SUFFICES ASSUME Nat \ T # {} PROVE FALSE
  OBVIOUS
<1>1. PICK x \in Nat \ T : \A y \in Nat \ T : x <= y
  BY LeastNatural
<1>2. ASSUME NEW m \in 0 .. x - 1 PROVE m \in T
  <2>1. m \in Nat /\ ~ (x <= m)
    BY <1>2
  <2> QED
    BY <1>1, <2>1
<1> QED
  BY <1>2

(* The same over 0 .. N. *)
LEMMA IntervalInductionSet ==
  ASSUME NEW N \in Nat, NEW T, 0 \in T,
         \A n \in 0 .. N - 1 : n \in T => n + 1 \in T
  PROVE  0 .. N \subseteq T
<1> DEFINE U == T \cup {n \in Nat : n > N}
<1>1. 0 \in U
  OBVIOUS
<1>2. ASSUME NEW n \in Nat, n \in U PROVE n + 1 \in U
  <2>1. CASE n \in 0 .. N - 1
    <3>1. n \in T
      BY <1>2, <2>1
    <3> QED
      BY <2>1, <3>1
  <2>2. CASE n \notin 0 .. N - 1
    BY <2>2
  <2> QED
    BY <2>1, <2>2
<1> HIDE DEF U
<1>3. Nat \subseteq U
  BY <1>1, <1>2, NatInductionSet
<1> QED
  BY <1>3 DEF U

(* The steps of a recursion along 0 .. N: step[k] makes value k of the one before. *)
Steps(N, S) == [1 .. N -> [S -> S]]

Solutions(N, S, base, step) ==
  {f \in [0 .. N -> S] : f[0] = base /\ \A k \in 1 .. N : f[k] = step[k][f[k - 1]]}

(* A recursion along 0 .. N has a solution ... *)
LEMMA RecursionExists ==
  ASSUME NEW N \in Nat, NEW S, NEW base \in S, NEW step \in Steps(N, S)
  PROVE  Solutions(N, S, base, step) # {}
<1> DEFINE Good(n) == \E f \in [0 .. n -> S] :
                        f[0] = base /\ \A k \in 1 .. n : f[k] = step[k][f[k - 1]]
           T == {n \in 0 .. N : Good(n)}
<1>1. 0 \in T
  <2> DEFINE f == [k \in 0 .. 0 |-> base]
  <2>1. f \in [0 .. 0 -> S] /\ f[0] = base /\ \A k \in 1 .. 0 : f[k] = step[k][f[k - 1]]
    OBVIOUS
  <2>2. Good(0)
    BY <2>1
  <2> QED
    BY <2>2
<1>2. ASSUME NEW n \in 0 .. N - 1, n \in T PROVE n + 1 \in T
  <2>1. PICK f \in [0 .. n -> S] :
          f[0] = base /\ \A k \in 1 .. n : f[k] = step[k][f[k - 1]]
    BY <1>2
  <2> DEFINE g == [k \in 0 .. n + 1 |-> IF k = n + 1 THEN step[n + 1][f[n]] ELSE f[k]]
  <2>2. f[n] \in S /\ n + 1 \in 1 .. N
    OBVIOUS
  <2>3. step[n + 1][f[n]] \in S
    BY <2>2 DEF Steps
  <2>4. g \in [0 .. n + 1 -> S]
    BY <2>3
  <2>5. g[0] = base
    BY <2>1
  <2>6. ASSUME NEW k \in 1 .. n + 1 PROVE g[k] = step[k][g[k - 1]]
    <3>1. g[k - 1] = f[k - 1]
      OBVIOUS
    <3>2. CASE k = n + 1
      <4>1. k - 1 = n /\ g[k] = step[n + 1][f[n]]
        BY <3>2
      <4> HIDE DEF g
      <4> QED
        BY <3>1, <3>2, <4>1
    <3>3. CASE k # n + 1
      BY <2>1, <3>1, <3>3
    <3> QED
      BY <3>2, <3>3
  <2> HIDE DEF g
  <2>7. Good(n + 1)
    BY <2>4, <2>5, <2>6
  <2> QED
    BY <2>7
<1> HIDE DEF T
<1>3. 0 .. N \subseteq T
  BY <1>1, <1>2, IntervalInductionSet
<1>4. N \in T
  BY <1>3
<1> QED
  BY <1>4 DEF T, Solutions

(* ... and every solution of it has values in the set that the step stays in. *)
LEMMA RecursionTyped ==
  ASSUME NEW N \in Nat, NEW S, NEW f, f[0] \in S,
         \A k \in 1 .. N : f[k - 1] \in S => f[k] \in S
  PROVE  \A k \in 0 .. N : f[k] \in S
<1> DEFINE T == {k \in 0 .. N : f[k] \in S}
<1>1. 0 \in T
  OBVIOUS
<1>2. ASSUME NEW n \in 0 .. N - 1, n \in T PROVE n + 1 \in T
  <2>1. n + 1 \in 1 .. N /\ f[(n + 1) - 1] \in S
    BY <1>2
  <2>2. f[n + 1] \in S
    BY <2>1
  <2> QED
    BY <2>1, <2>2
<1> HIDE DEF T
<1>3. 0 .. N \subseteq T
  BY <1>1, <1>2, IntervalInductionSet
<1> QED
  BY <1>3 DEF T
=============================================================================
