------------------------------ MODULE Induction ------------------------------
(***************************************************************************)
(* Induction over the natural numbers and the existence of functions       *)
(* defined by recursion, stated about sets and functions and not about     *)
(* operators, so that the provers can use them.  They follow from the      *)
(* order of the naturals being well-founded.                               *)
(***************************************************************************)
EXTENDS Integers, Sequences, SequenceTheorems, WellFoundedInduction, TLAPS

\* A set that contains 0 and every successor of a natural number in it
\* contains all of them.
LEMMA NatInductionOnSet ==
  ASSUME NEW S, 0 \in S, \A n \in Nat : n \in S => n + 1 \in S
  PROVE  Nat \subseteq S
<1> DEFINE T == Nat \ S
<1>1. SUFFICES ASSUME T # {} PROVE FALSE
  OBVIOUS
<1>2. IsWellFoundedOn(OpToRel(<, Nat), Nat)
  BY NatLessThanWellFounded
<1>3. PICK x \in T : \A y \in T : ~(<<y, x>> \in OpToRel(<, Nat))
  <2>1. T \subseteq Nat
    OBVIOUS
  <2> HIDE DEF T
  <2> QED
    BY <1>1, <1>2, <2>1, WFMin
<1>4. x \in Nat /\ x # 0 /\ x - 1 \in Nat /\ (x - 1) + 1 = x
  OBVIOUS
<1>5. x - 1 \in T
  BY <1>4
<1>6. <<x - 1, x>> \in OpToRel(<, Nat)
  BY <1>4 DEF OpToRel
<1> QED
  BY <1>3, <1>5, <1>6

\* h is the beginning, up to n, of the function that starts with a and goes on
\* by g.
Begins(h, n, a, g) ==
  h[0] = a /\ \A k \in 0..(n - 1) : h[k + 1] = g[<<k, h[k]>>]

\* f is that function.
IsRecursion(f, S, a, g) ==
  f \in [Nat -> S] /\ f[0] = a /\ \A n \in Nat : f[n + 1] = g[<<n, f[n]>>]

\* A function on the naturals may be defined by its first value and a step
\* from each value to the next.
LEMMA NatRecursion ==
  ASSUME NEW S, NEW a \in S, NEW g \in [Nat \X S -> S]
  PROVE  \E f : IsRecursion(f, S, a, g)
<1> DEFINE Defined == {n \in Nat : \E h \in [0..n -> S] : Begins(h, n, a, g)}
<1>1. Nat \subseteq Defined
  <2>1. 0 \in Defined
    <3>1. [k \in 0..0 |-> a] \in [0..0 -> S] /\ Begins([k \in 0..0 |-> a], 0, a, g)
      BY DEF Begins
    <3> QED
      BY <3>1
  <2>2. ASSUME NEW n \in Nat, n \in Defined PROVE n + 1 \in Defined
    <3>1. PICK h \in [0..n -> S] : Begins(h, n, a, g)
      BY <2>2
    <3> DEFINE e == [k \in 0..(n + 1) |-> IF k = n + 1 THEN g[<<n, h[n]>>] ELSE h[k]]
    <3>2. e \in [0..(n + 1) -> S]
      <4>1. h[n] \in S /\ g[<<n, h[n]>>] \in S
        OBVIOUS
      <4>2. \A k \in 0..(n + 1) : k # n + 1 => k \in 0..n
        OBVIOUS
      <4> QED
        BY <4>1, <4>2
    <3>3. Begins(e, n + 1, a, g)
      <4>1. e[0] = a
        BY <3>1 DEF Begins
      <4>2. 0..((n + 1) - 1) = 0..n
        OBVIOUS
      <4>3. ASSUME NEW k \in 0..n PROVE e[k + 1] = g[<<k, e[k]>>]
        <5>1. CASE k = n
          <6>1. e[n + 1] = g[<<n, h[n]>>] /\ e[n] = h[n]
            OBVIOUS
          <6> QED
            BY <5>1, <6>1
        <5>2. CASE k # n
          <6>1. k \in 0..(n - 1)
            BY <5>2
          <6>2. e[k + 1] = h[k + 1] /\ e[k] = h[k]
            BY <6>1
          <6>3. h[k + 1] = g[<<k, h[k]>>]
            BY <3>1, <6>1 DEF Begins
          <6> QED
            BY <6>2, <6>3
        <5> QED
          BY <5>1, <5>2
      <4> QED
        BY <4>1, <4>2, <4>3 DEF Begins
    <3> QED
      BY <3>2, <3>3
  <2> HIDE DEF Defined
  <2> QED
    BY <2>1, <2>2, NatInductionOnSet
<1> DEFINE part == [n \in Nat |-> CHOOSE h \in [0..n -> S] : Begins(h, n, a, g)]
           f == [n \in Nat |-> part[n][n]]
<1>2. \A n \in Nat : part[n] \in [0..n -> S] /\ Begins(part[n], n, a, g)
  BY <1>1
<1> HIDE DEF part
<1>3. ASSUME NEW n \in Nat
      PROVE  \A k \in 0..n : part[n + 1][k] = part[n][k]
  <2> DEFINE Same == {k \in Nat : k <= n => part[n + 1][k] = part[n][k]}
  <2>1. 0 \in Same
    BY <1>2 DEF Begins
  <2>2. ASSUME NEW k \in Nat, k \in Same PROVE k + 1 \in Same
    <3>1. SUFFICES ASSUME k + 1 <= n PROVE part[n + 1][k + 1] = part[n][k + 1]
      OBVIOUS
    <3>2. k \in 0..(n - 1) /\ k \in 0..((n + 1) - 1) /\ n + 1 \in Nat
      BY <3>1
    <3>3. part[n + 1][k + 1] = g[<<k, part[n + 1][k]>>] /\ part[n][k + 1] = g[<<k, part[n][k]>>]
      BY <1>2, <3>2 DEF Begins
    <3>4. part[n + 1][k] = part[n][k]
      BY <2>2, <3>1
    <3> QED
      BY <3>3, <3>4
  <2>3. Nat \subseteq Same
    <3> HIDE DEF Same
    <3> QED
      BY <2>1, <2>2, NatInductionOnSet
  <2> QED
    BY <2>3
<1>4. f \in [Nat -> S]
  BY <1>2
<1>5. f[0] = a
  BY <1>2 DEF Begins
<1>6. ASSUME NEW n \in Nat PROVE f[n + 1] = g[<<n, f[n]>>]
  <2>1. n + 1 \in Nat /\ n \in 0..((n + 1) - 1) /\ n \in 0..n
    OBVIOUS
  <2>2. part[n + 1][n + 1] = g[<<n, part[n + 1][n]>>]
    BY <1>2, <2>1 DEF Begins
  <2>3. part[n + 1][n] = part[n][n]
    BY <1>3, <2>1
  <2> QED
    BY <2>1, <2>2, <2>3
<1> QED
  BY <1>4, <1>5, <1>6 DEF IsRecursion

\* The value that g gives to p depends only on the values after p.
LooksAhead(g, N, S) ==
  \A p \in 1..N : \A f, h \in [1..N -> S] :
    (\A q \in (p + 1)..N : f[q] = h[q]) => g[<<p, f>>] = g[<<p, h>>]

\* f is the function whose values g gives.
IsBackward(f, N, S, g) == f \in [1..N -> S] /\ \A p \in 1..N : f[p] = g[<<p, f>>]

\* A function on 1..N may be defined by what its value at p is, given its
\* values after p.
LEMMA BackwardRecursion ==
  ASSUME NEW N \in Nat, NEW S, NEW a \in S,
         NEW g \in [(1..N) \X [1..N -> S] -> S], LooksAhead(g, N, S)
  PROVE  \E f : IsBackward(f, N, S, g)
<1> DEFINE F == [1..N -> S]
           next == [x \in Nat \X F |-> [p \in 1..N |-> g[<<p, x[2]>>]]]
<1>1. next \in [Nat \X F -> F]
  OBVIOUS
<1>2. PICK e : IsRecursion(e, F, [p \in 1..N |-> a], next)
  <2>1. [p \in 1..N |-> a] \in F
    OBVIOUS
  <2> HIDE DEF next, F
  <2> QED
    BY <1>1, <2>1, NatRecursion
<1>3. \A n \in Nat : e[n] \in F
  BY <1>2 DEF IsRecursion
<1>4. ASSUME NEW n \in Nat, NEW p \in 1..N PROVE e[n + 1][p] = g[<<p, e[n]>>]
  <2>1. e[n + 1] = next[<<n, e[n]>>] /\ e[n] \in F
    BY <1>2, <1>3 DEF IsRecursion
  <2> QED
    BY <2>1
<1> HIDE DEF next
<1> DEFINE Settled == {n \in Nat : \A p \in 1..N : p > N - n => e[n + 1][p] = e[n][p]}
<1>5. 0 \in Settled
  OBVIOUS
<1>6. ASSUME NEW n \in Nat, n \in Settled PROVE n + 1 \in Settled
  <2>1. SUFFICES ASSUME NEW p \in 1..N, p > N - (n + 1)
                 PROVE  e[(n + 1) + 1][p] = e[n + 1][p]
    OBVIOUS
  <2>2. \A q \in (p + 1)..N : q \in 1..N /\ q > N - n
    BY <2>1
  <2>3. \A q \in (p + 1)..N : e[n + 1][q] = e[n][q]
    BY <1>6, <2>2
  <2>4. e[n + 1] \in [1..N -> S] /\ e[n] \in [1..N -> S]
    BY <1>3
  <2>5. g[<<p, e[n + 1]>>] = g[<<p, e[n]>>]
    BY <2>3, <2>4 DEF LooksAhead
  <2>6. e[(n + 1) + 1][p] = g[<<p, e[n + 1]>>] /\ e[n + 1][p] = g[<<p, e[n]>>]
    <3>1. n + 1 \in Nat
      OBVIOUS
    <3> QED
      BY <1>4, <3>1
  <2> QED
    BY <2>5, <2>6
<1>7. N \in Settled
  <2> HIDE DEF Settled
  <2> QED
    BY <1>5, <1>6, NatInductionOnSet
<1>8. ASSUME NEW p \in 1..N PROVE e[N][p] = g[<<p, e[N]>>]
  <2>1. e[N + 1][p] = e[N][p]
    BY <1>7
  <2> QED
    BY <1>4, <2>1
<1>9. IsBackward(e[N], N, S, g)
  BY <1>3, <1>8 DEF IsBackward
<1> QED
  BY <1>9

-----------------------------------------------------------------------------
(* Sums *)

\* s[n] is the sum of the first n of the N values of f.
IsRunningTotal(s, f, N) == s = [k \in 0..N |-> IF k = 0 THEN 0 ELSE s[k - 1] + f[k]]

\* There is such a function.
LEMMA RunningTotalExists ==
  ASSUME NEW N \in Nat, NEW f \in [1..N -> Nat]
  PROVE  \E s : IsRunningTotal(s, f, N)
<1> DEFINE g == [x \in Nat \X Nat |-> x[2] + (IF x[1] + 1 \in 1..N THEN f[x[1] + 1] ELSE 0)]
<1>1. g \in [Nat \X Nat -> Nat]
  OBVIOUS
<1>2. PICK h : IsRecursion(h, Nat, 0, g)
  <2>1. 0 \in Nat
    OBVIOUS
  <2> HIDE DEF g
  <2> QED
    BY <1>1, <2>1, NatRecursion
<1>3. ASSUME NEW k \in 1..N PROVE h[k] = h[k - 1] + f[k]
  <2>1. k - 1 \in Nat /\ (k - 1) + 1 = k
    OBVIOUS
  <2>2. h[k] = g[<<k - 1, h[k - 1]>>]
    BY <1>2, <2>1 DEF IsRecursion
  <2>3. h[k - 1] \in Nat
    BY <1>2, <2>1 DEF IsRecursion
  <2> QED
    BY <2>1, <2>2, <2>3
<1> DEFINE s == [k \in 0..N |-> h[k]]
<1>4. \A k \in 0..N : k # 0 => k \in 1..N /\ k - 1 \in 0..N
  OBVIOUS
<1>5. \A k \in 0..N : s[k] = IF k = 0 THEN 0 ELSE s[k - 1] + f[k]
  BY <1>2, <1>3, <1>4 DEF IsRecursion
<1> QED
  BY <1>5 DEF IsRunningTotal

\* What it computes: a natural number at every index, which does not decrease.
LEMMA RunningTotal ==
  ASSUME NEW N \in Nat, NEW f \in [1..N -> Nat], NEW s, IsRunningTotal(s, f, N)
  PROVE  /\ s[0] = 0
         /\ \A n \in 1..N : s[n] = s[n - 1] + f[n]
         /\ \A n \in 0..N : s[n] \in Nat
         /\ \A m, n \in 0..N : m <= n => s[m] <= s[n]
<1>1. s[0] = 0 /\ \A n \in 1..N : s[n] = s[n - 1] + f[n]
  BY DEF IsRunningTotal
<1> DEFINE Natural == {n \in Nat : n <= N => s[n] \in Nat}
<1>2. Nat \subseteq Natural
  <2>1. 0 \in Natural
    BY <1>1
  <2>2. ASSUME NEW n \in Nat, n \in Natural PROVE n + 1 \in Natural
    <3>1. SUFFICES ASSUME n + 1 <= N PROVE s[n + 1] \in Nat
      OBVIOUS
    <3>2. n + 1 \in 1..N /\ (n + 1) - 1 = n
      BY <3>1
    <3>3. s[n + 1] = s[n] + f[n + 1]
      BY <1>1, <3>2
    <3> QED
      BY <2>2, <3>1, <3>2, <3>3
  <2> HIDE DEF Natural
  <2> QED
    BY <2>1, <2>2, NatInductionOnSet
<1>3. \A n \in 0..N : s[n] \in Nat
  BY <1>2
<1>4. ASSUME NEW m \in 0..N, NEW n \in 0..N, m <= n PROVE s[m] <= s[n]
  <2> DEFINE Above == {d \in Nat : m + d <= N => s[m] <= s[m + d]}
  <2>1. 0 \in Above
    BY <1>3
  <2>2. ASSUME NEW d \in Nat, d \in Above PROVE d + 1 \in Above
    <3>1. SUFFICES ASSUME m + (d + 1) <= N PROVE s[m] <= s[m + (d + 1)]
      OBVIOUS
    <3>2. m + (d + 1) \in 1..N /\ (m + (d + 1)) - 1 = m + d /\ m + d \in 0..N
      BY <3>1
    <3>3. s[m + (d + 1)] = s[m + d] + f[m + (d + 1)]
      BY <1>1, <3>2
    <3>4. s[m + d] \in Nat /\ s[m] \in Nat /\ f[m + (d + 1)] \in Nat /\ s[m] <= s[m + d]
      BY <1>3, <2>2, <3>2
    <3> QED
      BY <3>3, <3>4
  <2>3. Nat \subseteq Above
    <3> HIDE DEF Above
    <3> QED
      BY <2>1, <2>2, NatInductionOnSet
  <2>4. n - m \in Nat /\ m + (n - m) = n
    BY <1>4
  <2> QED
    BY <2>3, <2>4
<1> QED
  BY <1>1, <1>3, <1>4

-----------------------------------------------------------------------------
(* Concatenations *)

\* f[i] is the concatenation of h[i], h[i + 1] and so on up to h[N], and a.
IsJoined(f, N, a, h) == f = [i \in 1..(N + 1) |-> IF i > N THEN a ELSE h[i] \o f[i + 1]]

\* There is such a function.
LEMMA JoinedExists ==
  ASSUME NEW N \in Nat, NEW S, NEW a \in Seq(S), NEW h \in [1..N -> Seq(S)]
  PROVE  \E f : IsJoined(f, N, a, h)
<1> DEFINE g == [x \in Nat \X Seq(S) |->
                   IF N - x[1] \in 1..N THEN h[N - x[1]] \o x[2] ELSE x[2]]
<1>1. g \in [Nat \X Seq(S) -> Seq(S)]
  <2>1. ASSUME NEW x \in Nat \X Seq(S)
        PROVE  (IF N - x[1] \in 1..N THEN h[N - x[1]] \o x[2] ELSE x[2]) \in Seq(S)
    <3>1. x[2] \in Seq(S)
      OBVIOUS
    <3>2. N - x[1] \in 1..N => h[N - x[1]] \in Seq(S)
      OBVIOUS
    <3> QED
      BY <3>1, <3>2, ConcatProperties
  <2> QED
    BY <2>1
<1>2. PICK e : IsRecursion(e, Seq(S), a, g)
  <2> HIDE DEF g
  <2> QED
    BY <1>1, NatRecursion
<1> DEFINE f == [i \in 1..(N + 1) |-> e[N + 1 - i]]
<1>3. ASSUME NEW i \in 1..(N + 1)
      PROVE  f[i] = IF i > N THEN a ELSE h[i] \o f[i + 1]
  <2>1. CASE i > N
    <3>1. N + 1 - i = 0
      BY <2>1
    <3> QED
      BY <1>2, <2>1, <3>1 DEF IsRecursion
  <2>2. CASE i <= N
    <3>1. /\ N - i \in Nat /\ (N - i) + 1 = N + 1 - i /\ N - (N - i) = i /\ i \in 1..N
          /\ i + 1 \in 1..(N + 1) /\ N + 1 - (i + 1) = N - i
      BY <2>2
    <3>2. e[(N - i) + 1] = g[<<N - i, e[N - i]>>] /\ e[N - i] \in Seq(S)
      BY <1>2, <3>1 DEF IsRecursion
    <3>3. g[<<N - i, e[N - i]>>] = h[i] \o e[N - i]
      BY <3>1, <3>2
    <3>4. f[i + 1] = e[N - i]
      BY <3>1
    <3>5. f[i] = e[(N - i) + 1]
      BY <3>1
    <3>6. f[i] = h[i] \o f[i + 1]
      <4> HIDE DEF f, g
      <4> QED
        BY <3>2, <3>3, <3>4, <3>5
    <3> HIDE DEF f
    <3> QED
      BY <2>2, <3>6
  <2> QED
    BY <2>1, <2>2
<1> QED
  BY <1>3 DEF IsJoined

\* What it computes.
Unrolls(f, N, a, h) == f[N + 1] = a /\ \A i \in 1..N : f[i] = h[i] \o f[i + 1]

LEMMA Joined ==
  ASSUME NEW N \in Nat, NEW a, NEW h, NEW f, IsJoined(f, N, a, h)
  PROVE  Unrolls(f, N, a, h)
<1>1. \A i \in 1..(N + 1) : f[i] = IF i > N THEN a ELSE h[i] \o f[i + 1]
  BY DEF IsJoined
<1>2. N + 1 \in 1..(N + 1) /\ N + 1 > N
  OBVIOUS
<1>3. ASSUME NEW i \in 1..N PROVE i \in 1..(N + 1) /\ ~(i > N)
  OBVIOUS
<1> QED
  BY <1>1, <1>2, <1>3 DEF Unrolls

LEMMA JoinedIsSeq ==
  ASSUME NEW N \in Nat, NEW S, NEW a \in Seq(S), NEW h \in [1..N -> Seq(S)],
         NEW f, IsJoined(f, N, a, h)
  PROVE  \A i \in 1..(N + 1) : f[i] \in Seq(S)
<1>0. Unrolls(f, N, a, h)
  BY Joined
<1>1. f[N + 1] = a /\ \A i \in 1..N : f[i] = h[i] \o f[i + 1]
  BY <1>0 DEF Unrolls
<1> DEFINE Typed == {n \in Nat : n <= N => f[N + 1 - n] \in Seq(S)}
<1>2. 0 \in Typed
  BY <1>1
<1>3. ASSUME NEW n \in Nat, n \in Typed PROVE n + 1 \in Typed
  <2>1. SUFFICES ASSUME n + 1 <= N PROVE f[N + 1 - (n + 1)] \in Seq(S)
    OBVIOUS
  <2>2. N + 1 - (n + 1) = N - n /\ N - n \in 1..N /\ (N - n) + 1 = N + 1 - n
    BY <2>1
  <2>3. f[N - n] = h[N - n] \o f[N + 1 - n]
    BY <1>1, <2>2
  <2>4. h[N - n] \in Seq(S) /\ f[N + 1 - n] \in Seq(S)
    BY <1>3, <2>1, <2>2
  <2> QED
    BY <2>2, <2>3, <2>4, ConcatProperties
<1>4. Nat \subseteq Typed
  <2> HIDE DEF Typed
  <2> QED
    BY <1>2, <1>3, NatInductionOnSet
<1>5. ASSUME NEW i \in 1..(N + 1) PROVE f[i] \in Seq(S)
  <2>1. N + 1 - i \in Nat /\ N + 1 - i <= N /\ N + 1 - (N + 1 - i) = i
    OBVIOUS
  <2> QED
    BY <1>4, <2>1
<1> QED
  BY <1>5
=============================================================================
