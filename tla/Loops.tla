-------------------------------- MODULE Loops --------------------------------
(***************************************************************************)
(* Facts about the loops of the code that the specifications write as      *)
(* recursive functions on 0..n: f[k] is what the loop has computed after k *)
(* rounds.  The induction they need is that of the natural numbers, taken  *)
(* from the well-foundedness of the inclusion of finite sets.              *)
(***************************************************************************)
EXTENDS Integers, Sequences, FiniteSetTheorems, WellFoundedInduction, TLAPS

\* The smaller of two positions is the smaller of the intervals up to them,
\* and those are well-founded.
LEMMA Least ==
  ASSUME NEW S \in SUBSET Nat, S # {}
  PROVE  \E m \in S : \A n \in S : m <= n
<1>. DEFINE upTo == {0..n : n \in S}
<1>1. upTo \subseteq FiniteSubsetsOf(Nat)
  <2>1. ASSUME NEW n \in S PROVE 0..n \in FiniteSubsetsOf(Nat)
    BY FS_Interval DEF FiniteSubsetsOf
  <2>. QED
    BY <2>1
<1>2. upTo # {}
  OBVIOUS
<1>3. PICK t \in upTo : \A u \in upTo : ~(<<u, t>> \in StrictSubsetOrdering(Nat))
  <2>. HIDE DEF upTo
  <2>. QED
    BY <1>1, <1>2, FS_StrictSubsetOrderingWellFounded, WFMin
<1>4. PICK m \in S : t = 0..m
  OBVIOUS
<1>5. ASSUME NEW n \in S, n < m PROVE FALSE
  <2>1. 0..n \in upTo
    OBVIOUS
  <2>2. 0..n \subseteq 0..m /\ m \in 0..m /\ m \notin 0..n
    BY <1>5
  <2>3. 0..n \in SUBSET Nat /\ 0..m \in SUBSET Nat
    OBVIOUS
  <2>4. <<0..n, t>> \in StrictSubsetOrdering(Nat)
    <3>. HIDE DEF upTo
    <3>. QED
      BY <1>4, <2>2, <2>3 DEF StrictSubsetOrdering
  <2>. QED
    BY <1>3, <2>1, <2>4
<1>. QED
  BY <1>5

\* What holds before the first round, and after each round if before it,
\* holds to the end: P is the set of the rounds after which it does.
LEMMA Rounds ==
  ASSUME NEW n \in Nat, NEW P, 0 \in P, \A k \in 1..n : k - 1 \in P => k \in P
  PROVE  0..n \subseteq P
<1>. DEFINE S == {k \in 0..n : k \notin P}
<1>. SUFFICES ASSUME S # {} PROVE FALSE
  OBVIOUS
<1>1. PICK m \in S : \A k \in S : m <= k
  <2>1. S \in SUBSET Nat
    OBVIOUS
  <2>. HIDE DEF S
  <2>. QED
    BY <2>1, Least
<1>2. m \in 1..n /\ m - 1 \in 0..n /\ m - 1 < m
  OBVIOUS
<1>3. m - 1 \in P
  BY <1>1, <1>2
<1>. QED
  BY <1>2, <1>3

\* A loop of n rounds that starts from base and never leaves S; round k takes
\* x to G[k][x].  f is what it has computed after each round.
IsLoop(S, base, n, G) == base \in S /\ n \in Nat /\ G \in [1..n -> [S -> S]]

Run(S, base, n, G, f) ==
  f \in [0..n -> S] /\ f[0] = base /\ \A k \in 1..n : f[k] = G[k][f[k - 1]]

LEMMA LoopExists ==
  ASSUME NEW S, NEW base, NEW n, NEW G, IsLoop(S, base, n, G)
  PROVE  \E f : Run(S, base, n, G, f)
<1>. USE DEF IsLoop
<1>. DEFINE Runs(m, f) == /\ f \in [0..m -> S]
                          /\ f[0] = base
                          /\ \A k \in 1..m : f[k] = G[k][f[k - 1]]
            P == {m \in 0..n : \E f : Runs(m, f)}
<1>1. 0 \in P
  <2>1. Runs(0, [k \in 0..0 |-> base])
    OBVIOUS
  <2>. HIDE DEF Runs
  <2>. QED
    BY <2>1
<1>2. ASSUME NEW m \in 1..n, m - 1 \in P PROVE m \in P
  <2>1. PICK f : Runs(m - 1, f)
    <3>. HIDE DEF Runs
    <3>. QED
      BY <1>2
  <2>. DEFINE x == G[m][f[m - 1]]
              g == [k \in 0..m |-> IF k = m THEN x ELSE f[k]]
  <2>2. x \in S
    BY <2>1
  <2>3. \A k \in 0..(m - 1) : f[k] \in S
    BY <2>1
  <2>. HIDE DEF x
  <2>4. g \in [0..m -> S] /\ g[m] = x /\ \A k \in 0..(m - 1) : g[k] = f[k]
    BY <2>2, <2>3
  <2>. HIDE DEF g
  <2>5. ASSUME NEW k \in 1..m PROVE g[k] = G[k][g[k - 1]]
    <3>1. CASE k = m
      BY <2>4, <3>1 DEF x
    <3>2. CASE k # m
      <4>1. k \in 1..(m - 1) /\ k \in 0..(m - 1) /\ k - 1 \in 0..(m - 1)
        BY <3>2
      <4>. QED
        BY <2>1, <2>4, <4>1
    <3>. QED
      BY <3>1, <3>2
  <2>6. Runs(m, g)
    <3>1. g[0] = base
      BY <2>1, <2>4
    <3>. QED
      BY <2>4, <2>5, <3>1
  <2>. HIDE DEF Runs
  <2>. QED
    BY <2>6
<1>3. n \in P
  <2>1. n \in 0..n
    OBVIOUS
  <2>. HIDE DEF P
  <2>. QED
    BY <1>1, <1>2, <2>1, Rounds
<1>4. PICK f : Runs(n, f)
  <2>. HIDE DEF Runs
  <2>. QED
    BY <1>3
<1>. QED
  BY <1>4 DEF Run
=============================================================================
