--------------------------- MODULE DataInduction ---------------------------
(***************************************************************************)
(* Induction and recursion over the naturals in a form without operator    *)
(* parameters: a statement about all naturals is a set that contains them, *)
(* and a step of a recursion is a function.  They come from the fact that  *)
(* a set has a minimal element for a well-founded relation.                *)
(***************************************************************************)
EXTENDS Integers, Sequences, WellFoundedInduction, TLAPS

\* A set of naturals that is not empty has a least element.
LEMMA LeastNatural ==
  ASSUME NEW T, T \subseteq Nat, T # {}
  PROVE  \E n \in T : \A m \in T : n <= m
<1> DEFINE R == OpToRel(<, Nat)
<1>1. IsWellFoundedOn(R, Nat)
  BY NatLessThanWellFounded
<1>2. \A x, y \in Nat : x < y => <<x, y>> \in R
  BY DEF OpToRel
<1> HIDE DEF R
<1>3. PICK x \in T : \A y \in T : ~(<<y, x>> \in R)
  BY <1>1, WFMin
<1>4. \A y \in T : ~(y < x)
  BY <1>2, <1>3
<1>5. \A y \in T : x <= y
  <2> TAKE y \in T
  <2>1. x \in Nat /\ y \in Nat
    OBVIOUS
  <2> QED
    BY <2>1, <1>4
<1> QED
  BY <1>5

\* What holds for a, and for n + 1 wherever it holds for n, holds from a up to b.
LEMMA IntervalInduction ==
  ASSUME NEW a \in Nat, NEW b \in Nat, NEW S,
         a \in S, \A n \in a..(b - 1) : n \in S => n + 1 \in S
  PROVE  \A n \in a..b : n \in S
<1> SUFFICES ASSUME NEW k \in a..b, k \notin S PROVE FALSE
  OBVIOUS
<1> DEFINE T == {n \in a..b : n \notin S}
<1>1. T \subseteq Nat /\ T # {}
  OBVIOUS
<1>2. PICK n \in T : \A m \in T : n <= m
  BY <1>1, LeastNatural
<1>3. n \in (a + 1)..b /\ n - 1 \in a..(b - 1)
  BY <1>2
<1>4. n - 1 \notin T
  BY <1>2, <1>3
<1>5. n - 1 \in S
  BY <1>3, <1>4
<1>6. (n - 1) + 1 \in S
  BY <1>3, <1>5
<1> QED
  BY <1>3, <1>6

\* f starts with c at a, and up to b the step is D.
Follows(f, a, b, c, D) == f[a] = c /\ \A n \in (a + 1)..b : f[n] = D[<<n, f[n - 1]>>]

\* A recursion that starts with c at a and whose step is D defines a function up to b.
LEMMA IntervalRecursion ==
  ASSUME NEW a \in Nat, NEW b \in Nat, a <= b, NEW V, NEW c \in V,
         NEW D \in [((a + 1)..b) \X V -> V]
  PROVE  \E f \in [a..b -> V] : Follows(f, a, b, c, D)
<1> DEFINE S == {m \in a..b : \E f \in [a..m -> V] : Follows(f, a, m, c, D)}
<1>1. a \in S
  <2> DEFINE f == [n \in a..a |-> c]
  <2>1. f \in [a..a -> V] /\ Follows(f, a, a, c, D) /\ a \in a..b
    BY DEF Follows
  <2> HIDE DEF f
  <2> QED
    BY <2>1
<1>2. ASSUME NEW m \in a..(b - 1), m \in S PROVE m + 1 \in S
  <2>1. PICK f \in [a..m -> V] : Follows(f, a, m, c, D)
    BY <1>2
  <2> DEFINE g == [n \in a..(m + 1) |-> IF n = m + 1 THEN D[<<n, f[m]>>] ELSE f[n]]
  <2>2. <<m + 1, f[m]>> \in ((a + 1)..b) \X V
    OBVIOUS
  <2>3. g \in [a..(m + 1) -> V]
    BY <2>2
  <2>4. ASSUME NEW n \in (a + 1)..(m + 1) PROVE g[n] = D[<<n, g[n - 1]>>]
    <3>1. n - 1 \in a..m /\ n \in a..(m + 1)
      OBVIOUS
    <3>2. g[n - 1] = f[n - 1]
      BY <3>1
    <3>3. CASE n = m + 1
      BY <3>1, <3>2, <3>3
    <3>4. CASE n # m + 1
      BY <2>1, <3>1, <3>2, <3>4 DEF Follows
    <3> QED
      BY <3>3, <3>4
  <2>5. g[a] = c /\ m + 1 \in a..b
    BY <2>1 DEF Follows
  <2> HIDE DEF g
  <2>6. Follows(g, a, m + 1, c, D)
    BY <2>4, <2>5 DEF Follows
  <2> QED
    BY <2>3, <2>5, <2>6
<1> HIDE DEF S
<1>3. \A n \in a..b : n \in S
  <2>1. \A n \in a..(b - 1) : n \in S => n + 1 \in S
    BY <1>2
  <2> QED
    BY <1>1, <2>1, IntervalInduction, Zenon
<1>4. b \in S
  BY <1>3
<1> QED
  BY <1>4 DEF S
=============================================================================
