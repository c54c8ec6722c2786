---------------------------- MODULE ReplayProofs ----------------------------
(***************************************************************************)
(* Theorems about Replay: its limits and its books, the end-of-day close,  *)
(* and where shares can vanish.                                            *)
(***************************************************************************)
EXTENDS Replay, FiniteSetTheorems, WellFoundedInduction, TLAPS

-----------------------------------------------------------------------------
(***************************************************************************)
(* Folds over sequences.  A fold is the last of a row of values F[0], ..., *)
(* F[n], each of which follows from the one before.  The library defines   *)
(* it by recursion on the sets of indices that are left, so what has to be *)
(* shown first is that there is a function with that recursion.            *)
(***************************************************************************)

\* A set of natural numbers has a least element.
LEMMA LeastOne ==
    ASSUME NEW T, T \subseteq Nat, T # {}
    PROVE  \E d \in T : \A e \in T : d <= e
  <1>1. PICK d \in T : \A e \in T : <<e, d>> \notin OpToRel(<, Nat)
    BY WFMin, NatLessThanWellFounded, ZenonT(30)
  <1>2. ASSUME NEW e \in T PROVE d <= e
    <2>1. ~(e < d)
      BY <1>1, <1>2 DEF OpToRel
    <2> QED BY <2>1
  <1> QED BY <1>2

\* Induction up to a bound, for a set of indices in the place of a predicate.
LEMMA UpTo ==
    ASSUME NEW n \in Nat, NEW S, 0 \in S, \A k \in 1 .. n : k - 1 \in S => k \in S
    PROVE  0 .. n \subseteq S
  <1> DEFINE Bad == (0 .. n) \ S
  <1>1. SUFFICES ASSUME Bad # {} PROVE FALSE
    OBVIOUS
  <1>2. PICK k \in Bad : \A m \in Bad : k <= m
    <2>1. Bad \subseteq Nat
      OBVIOUS
    <2> HIDE DEF Bad
    <2> QED BY <1>1, <2>1, LeastOne
  <1>3. k \in 1 .. n /\ k - 1 \in Nat /\ k - 1 < k /\ k - 1 \in 0 .. n
    BY <1>2
  <1>4. k - 1 \notin Bad
    BY <1>2, <1>3
  <1> QED BY <1>2, <1>3, <1>4

\* The greatest of a set of indices that contains its upper bound.
LEMMA MaxIsBound ==
    ASSUME NEW n \in Nat, NEW s \in SUBSET (1 .. n + 1), n + 1 \in s
    PROVE  Max(s) = n + 1
  <1>1. \A y \in s : n + 1 >= y
    OBVIOUS
  <1>2. \E x \in s : \A y \in s : x >= y
    BY <1>1
  <1>3. Max(s) \in s /\ \A y \in s : Max(s) >= y
    BY <1>2 DEF Max
  <1>4. Max(s) >= n + 1 /\ Max(s) \in 1 .. n + 1
    BY <1>3
  <1> QED BY <1>4

\* The greatest of a set of indices is one of them.
LEMMA MaxOfIndices ==
    ASSUME NEW n \in Nat, NEW s \in SUBSET (1 .. n), s # {}
    PROVE  Max(s) \in s
  <1> DEFINE B == {n - k : k \in s}
  <1>1. B \subseteq Nat /\ B # {}
    <2>1. \A k \in s : n - k \in Nat /\ n - k \in B
      OBVIOUS
    <2> QED BY <2>1
  <1>2. PICK b \in B : \A d \in B : b <= d
    <2> HIDE DEF B
    <2> QED BY <1>1, LeastOne
  <1>3. PICK x \in s : b = n - x
    BY <1>2
  <1>4. ASSUME NEW y \in s PROVE x >= y
    <2>1. b <= n - y
      BY <1>2
    <2> QED BY <1>3, <2>1
  <1> QED BY <1>4 DEF Max

\* A set of indices without the upper bound is one of the indices before it.
LEMMA WithoutBound ==
    ASSUME NEW n \in Nat, NEW s \in SUBSET (1 .. n + 1)
    PROVE  /\ s \ {n + 1} \in SUBSET (1 .. n)
           /\ n + 1 \notin s => s \in SUBSET (1 .. n)
  OBVIOUS

\* The recursion over sets of indices, with the step as a function of an index and
\* a value, has a solution for every length.
Recursion(f, e, D, n) ==
    \A s \in SUBSET (1 .. n) : f[s] = IF s = {} THEN e ELSE D[<<Max(s), f[s \ {Max(s)}]>>]

\* A solution of one length extends to the next.
LEMMA RecursionStep ==
    ASSUME NEW V, NEW e \in V, NEW N \in Nat, NEW D \in [(1 .. N) \X V -> V],
           NEW n \in Nat, n < N,
           NEW f \in [SUBSET (1 .. n) -> V], Recursion(f, e, D, n)
    PROVE  \E g \in [SUBSET (1 .. n + 1) -> V] : Recursion(g, e, D, n + 1)
  <1> DEFINE g == [s \in SUBSET (1 .. n + 1) |->
                     IF n + 1 \in s THEN D[<<n + 1, f[s \ {n + 1}]>>] ELSE f[s]]
  <1>1. ASSUME NEW s \in SUBSET (1 .. n + 1)
        PROVE  /\ g[s] \in V
               /\ g[s] = IF s = {} THEN e ELSE D[<<Max(s), g[s \ {Max(s)}]>>]
    <2>1. CASE n + 1 \in s
      <3> DEFINE r == s \ {n + 1}
      <3>1. Max(s) = n + 1 /\ s # {}
        BY <2>1, MaxIsBound
      <3>2. r \in SUBSET (1 .. n) /\ r \in SUBSET (1 .. n + 1) /\ n + 1 \notin r
        BY WithoutBound
      <3>3. g[r] = f[r] /\ f[r] \in V
        BY <3>2
      <3>4. g[s] = D[<<n + 1, f[r]>>]
        BY <2>1
      <3>5. <<n + 1, f[r]>> \in (1 .. N) \X V
        BY <3>3
      <3> HIDE DEF g
      <3> QED BY <3>1, <3>3, <3>4, <3>5
    <2>2. CASE n + 1 \notin s
      <3>1. s \in SUBSET (1 .. n)
        BY <2>2, WithoutBound
      <3>2. g[s] = f[s] /\ f[s] \in V
        BY <2>2, <3>1
      <3>3. f[s] = IF s = {} THEN e ELSE D[<<Max(s), f[s \ {Max(s)}]>>]
        BY <3>1 DEF Recursion
      <3>4. g[s \ {Max(s)}] = f[s \ {Max(s)}]
        BY <2>2
      <3> HIDE DEF g
      <3> QED BY <3>2, <3>3, <3>4
    <2> QED BY <2>1, <2>2
  <1>2. g \in [SUBSET (1 .. n + 1) -> V]
    BY <1>1
  <1>3. Recursion(g, e, D, n + 1)
    BY <1>1 DEF Recursion
  <1> QED BY <1>2, <1>3

LEMMA RecursionSolved ==
    ASSUME NEW V, NEW e \in V, NEW N \in Nat, NEW D \in [(1 .. N) \X V -> V]
    PROVE  \E f \in [SUBSET (1 .. N) -> V] : Recursion(f, e, D, N)
  <1> DEFINE Solved(n) == \E f \in [SUBSET (1 .. n) -> V] : Recursion(f, e, D, n)
             S == {n \in 0 .. N : Solved(n)}
  <1>1. Solved(0)
    <2> DEFINE f == [s \in SUBSET (1 .. 0) |-> e]
    <2>1. SUBSET (1 .. 0) = {{}}
      OBVIOUS
    <2>2. f \in [SUBSET (1 .. 0) -> V]
      OBVIOUS
    <2>3. Recursion(f, e, D, 0)
      BY <2>1 DEF Recursion
    <2> QED BY <2>2, <2>3
  <1>2. ASSUME NEW n \in 1 .. N, Solved(n - 1) PROVE Solved(n)
    <2>1. PICK f \in [SUBSET (1 .. n - 1) -> V] : Recursion(f, e, D, n - 1)
      BY <1>2
    <2>2. n - 1 \in Nat /\ n - 1 < N /\ n - 1 + 1 = n
      OBVIOUS
    <2>3. \E g \in [SUBSET (1 .. n - 1 + 1) -> V] : Recursion(g, e, D, n - 1 + 1)
      BY <2>1, <2>2, RecursionStep
    <2> QED BY <2>2, <2>3
  <1> HIDE DEF Solved
  <1>3. 0 .. N \subseteq S
    <2>1. 0 \in S /\ \A n \in 1 .. N : n - 1 \in S => n \in S
      BY <1>1, <1>2
    <2> HIDE DEF S
    <2> QED BY <2>1, UpTo
  <1>4. Solved(N)
    BY <1>3
  <1> QED BY <1>4 DEF Solved

\* Along the sets of the first indices the recursion takes one step per index.
LEMMA FirstIndices ==
    ASSUME NEW n \in Nat, NEW k \in 1 .. n
    PROVE  /\ 1 .. k \in SUBSET (1 .. n) /\ 1 .. (k - 1) \in SUBSET (1 .. n)
           /\ 1 .. k # {}
           /\ Max(1 .. k) = k
           /\ (1 .. k) \ {k} = 1 .. (k - 1)
  <1>1. k - 1 \in Nat /\ k \in 1 .. k /\ k - 1 + 1 = k
    OBVIOUS
  <1>2. Max(1 .. k) = k
    BY <1>1, MaxIsBound
  <1> QED BY <1>1, <1>2

-----------------------------------------------------------------------------
(***************************************************************************)
(* Sums of costs.                                                          *)
(***************************************************************************)

\* The row of partial sums of a function on 1 .. n.
Sums(F, c, n) == F[0] = 0 /\ \A k \in 1 .. n : F[k] = F[k - 1] + c[k]

\* The numbers of a position.
LEMMA PositionTyped ==
    \A p \in Position : p.price \in Nat /\ p.current \in Nat /\ p.qty \in Nat
  <1>1. Prices \subseteq Nat
    BY ReplayAssumption
  <1>2. \A p \in Position : p.price \in Prices /\ p.current \in Prices /\ p.qty \in Nat
    BY DEF Position
  <1> QED BY <1>1, <1>2

\* What a position costs and what it is worth are natural numbers.
LEMMA CostTyped == \A p \in Position : Cost(p) \in Nat /\ p.current * p.qty * Unit \in Nat
  <1>1. Prices \subseteq Nat /\ Unit \in Nat
    BY ReplayAssumption
  <1> SUFFICES ASSUME NEW p \in Position
               PROVE  Cost(p) \in Nat /\ p.current * p.qty * Unit \in Nat
    OBVIOUS
  <1>2. p.price \in Nat /\ p.current \in Nat /\ p.qty \in Nat
    BY PositionTyped
  <1>3. \A x, y, z \in Nat : x * (y + 1) * z \in Nat /\ x * z * y \in Nat
    OBVIOUS
  <1> QED BY <1>1, <1>2, <1>3 DEF Cost, BuyFill

\* The recursion of a sum has a solution, and every solution ends in the last of
\* the partial sums.
Adds(f, c, n) ==
    \A s \in SUBSET (1 .. n) : f[s] = IF s = {} THEN 0 ELSE f[s \ {Max(s)}] + c[Max(s)]

LEMMA SumSolved ==
    ASSUME NEW n \in Nat, NEW c \in [1 .. n -> Int]
    PROVE  \E f \in [SUBSET (1 .. n) -> Int] : Adds(f, c, n)
  <1> DEFINE V == Int
             e == 0
             D == [x \in (1 .. n) \X V |-> x[2] + c[x[1]]]
  <1>1. D \in [(1 .. n) \X V -> V] /\ e \in V
    OBVIOUS
  <1>2. PICK f \in [SUBSET (1 .. n) -> V] : Recursion(f, e, D, n)
    <2> HIDE DEF D, V, e
    <2> QED BY <1>1, RecursionSolved
  <1>3. ASSUME NEW s \in SUBSET (1 .. n), s # {}
        PROVE  f[s] = f[s \ {Max(s)}] + c[Max(s)]
    <2>1. f[s] = D[<<Max(s), f[s \ {Max(s)}]>>]
      BY <1>2, <1>3 DEF Recursion
    <2>2. Max(s) \in s
      BY <1>3, MaxOfIndices
    <2>3. <<Max(s), f[s \ {Max(s)}]>> \in (1 .. n) \X V
      BY <2>2
    <2> QED BY <2>1, <2>3
  <1>4. f[{}] = 0
    BY <1>2 DEF Recursion
  <1>5. Adds(f, c, n)
    BY <1>3, <1>4 DEF Adds
  <1> QED BY <1>5

LEMMA SumOfSolution ==
    ASSUME NEW n \in Nat, NEW c \in [1 .. n -> Int], NEW h, Adds(h, c, n)
    PROVE  \E F \in [0 .. n -> Int] : Sums(F, c, n) /\ F[n] = h[1 .. n]
  <1> DEFINE F == [k \in 0 .. n |-> h[1 .. k]]
  <1>1. F[0] = 0
    <2>1. 1 .. 0 = {} /\ {} \in SUBSET (1 .. n) /\ F[0] = h[1 .. 0]
      OBVIOUS
    <2>2. h[{}] = 0
      BY <2>1 DEF Adds
    <2> QED BY <2>1, <2>2
  <1>2. ASSUME NEW k \in 1 .. n PROVE F[k] = F[k - 1] + c[k]
    <2>1. F[k] = h[1 .. k] /\ F[k - 1] = h[1 .. (k - 1)]
      OBVIOUS
    <2>2. /\ 1 .. k \in SUBSET (1 .. n) /\ 1 .. k # {}
          /\ Max(1 .. k) = k
          /\ (1 .. k) \ {k} = 1 .. (k - 1)
      BY FirstIndices
    <2>3. h[1 .. k] = h[1 .. (k - 1)] + c[k]
      BY <2>2 DEF Adds
    <2> HIDE DEF F
    <2> QED BY <2>1, <2>3
  <1>3. F[n] = h[1 .. n]
    OBVIOUS
  <1>4. F = [k \in 0 .. n |-> F[k]]
    OBVIOUS
  <1> HIDE DEF F
  <1>5. \A k \in 0 .. n : F[k] \in Int
    <2> DEFINE S == {k \in 0 .. n : F[k] \in Int}
    <2>1. 0 \in S /\ \A k \in 1 .. n : k - 1 \in S => k \in S
      BY <1>1, <1>2
    <2>2. 0 .. n \subseteq S
      <3> HIDE DEF S
      <3> QED BY <2>1, UpTo
    <2> QED BY <2>2
  <1>6. Sums(F, c, n)
    BY <1>1, <1>2 DEF Sums
  <1> QED BY <1>3, <1>4, <1>5, <1>6

\* Invested adds up what the positions cost.
LEMMA InvestedSums ==
    ASSUME NEW acc, acc.open \in Seq(Position),
           NEW n \in Nat, n = Len(acc.open),
           NEW c \in [1 .. n -> Int], \A k \in 1 .. n : c[k] = Cost(acc.open[k])
    PROVE  \E F \in [0 .. n -> Int] : Sums(F, c, n) /\ Invested(acc) = F[n]
  <1> DEFINE q == acc.open
             Iter(h) == [s \in SUBSET DOMAIN q |->
                           IF s = {} THEN 0 ELSE h[s \ {Max(s)}] + Cost(q[Max(s)])]
             h == CHOOSE g : g = Iter(g)
  <1>1. DOMAIN q = 1 .. n
    OBVIOUS
  <1>2. \A s \in SUBSET (1 .. n) : s # {} => c[Max(s)] = Cost(q[Max(s)])
    BY MaxOfIndices
  <1>3. \E g : g = Iter(g)
    <2>1. PICK f \in [SUBSET (1 .. n) -> Int] : Adds(f, c, n)
      BY SumSolved
    <2>2. f = Iter(f)
      BY <1>1, <1>2, <2>1 DEF Adds
    <2> QED BY <2>2
  <1>4. h = Iter(h)
    BY <1>3
  <1>5. Invested(acc) = h[1 .. n]
    BY <1>1 DEF Invested, FoldLeft, MapThenFoldSet
  <1> HIDE DEF h
  <1>6. Adds(h, c, n)
    BY <1>1, <1>2, <1>4 DEF Adds
  <1>7. PICK F \in [0 .. n -> Int] : Sums(F, c, n) /\ F[n] = h[1 .. n]
    BY <1>6, SumOfSolution
  <1> QED BY <1>5, <1>7

\* Equity is cash and the sum of the positions' market values.
LEMMA EquityTyped ==
    ASSUME NEW acc \in Accounts
    PROVE  Equity(acc) \in Int
  <1> DEFINE q == acc.open
             n == Len(q)
             c == [k \in 1 .. n |-> q[k].current * q[k].qty * Unit]
             Iter(h) == [s \in SUBSET DOMAIN q |->
                           IF s = {} THEN 0
                           ELSE h[s \ {Max(s)}] + q[Max(s)].current * q[Max(s)].qty * Unit]
             h == CHOOSE g : g = Iter(g)
  <1>0. acc.cash \in Int /\ q \in Seq(Position)
    BY DEF Accounts
  <1>1. DOMAIN q = 1 .. n /\ n \in Nat
    BY <1>0
  <1>2. c \in [1 .. n -> Int]
    BY <1>0, CostTyped
  <1>3. \A s \in SUBSET (1 .. n) :
           s # {} => c[Max(s)] = q[Max(s)].current * q[Max(s)].qty * Unit
    BY <1>1, MaxOfIndices
  <1>4. \E g : g = Iter(g)
    <2>1. PICK f \in [SUBSET (1 .. n) -> Int] : Adds(f, c, n)
      <3> HIDE DEF c, n
      <3> QED BY <1>1, <1>2, SumSolved
    <2> HIDE DEF c
    <2>2. f = Iter(f)
      BY <1>1, <1>3, <2>1 DEF Adds
    <2> QED BY <2>2
  <1>5. h = Iter(h)
    BY <1>4
  <1>6. Equity(acc) = acc.cash + h[1 .. n]
    BY <1>1 DEF Equity, FoldLeft, MapThenFoldSet
  <1> HIDE DEF h, c
  <1>7. Adds(h, c, n)
    BY <1>1, <1>3, <1>5 DEF Adds
  <1>8. PICK F \in [0 .. n -> Int] : Sums(F, c, n) /\ F[n] = h[1 .. n]
    <2> HIDE DEF n
    <2> QED BY <1>1, <1>2, <1>7, SumOfSolution
  <1> QED BY <1>0, <1>1, <1>6, <1>8

-----------------------------------------------------------------------------
(***************************************************************************)
(* What a fill does to the sum of the costs.                               *)
(***************************************************************************)

\* There is one row of partial sums.
LEMMA SumsAgree ==
    ASSUME NEW n \in Nat, NEW c, NEW F, NEW G, Sums(F, c, n), Sums(G, c, n)
    PROVE  \A k \in 0 .. n : F[k] = G[k]
  <1> DEFINE S == {k \in 0 .. n : F[k] = G[k]}
  <1>1. 0 \in S /\ \A k \in 1 .. n : k - 1 \in S => k \in S
    BY DEF Sums
  <1>2. 0 .. n \subseteq S
    <2> HIDE DEF S
    <2> QED BY <1>1, UpTo
  <1> QED BY <1>2

\* Without one of its elements a sequence is shorter and the later ones move up.
LEMMA Removed ==
    ASSUME NEW T, NEW q \in Seq(T), NEW i \in 1 .. Len(q)
    PROVE  /\ RemoveAt(q, i) \in Seq(T)
           /\ Len(RemoveAt(q, i)) = Len(q) - 1
           /\ \A k \in 1 .. Len(q) - 1 :
                 RemoveAt(q, i)[k] = IF k < i THEN q[k] ELSE q[k + 1]
  <1> DEFINE a == SubSeq(q, 1, i - 1)
             b == SubSeq(q, i + 1, Len(q))
  <1>1. /\ a \in Seq(T) /\ Len(a) = i - 1
        /\ \A k \in 1 .. i - 1 : a[k] = q[k]
    OBVIOUS
  <1>2. /\ b \in Seq(T) /\ Len(b) = Len(q) - i
        /\ \A k \in 1 .. Len(q) - i : b[k] = q[i + k]
    OBVIOUS
  <1> HIDE DEF a, b
  <1>3. /\ a \o b \in Seq(T) /\ Len(a \o b) = Len(q) - 1
        /\ \A k \in 1 .. Len(q) - 1 : (a \o b)[k] = IF k < i THEN a[k] ELSE b[k - (i - 1)]
    <2>0. a \in Seq(T) /\ b \in Seq(T)
      BY <1>1, <1>2
    <2>1. a \o b \in Seq(T) /\ Len(a \o b) = Len(a) + Len(b)
      BY <2>0
    <2>2. \A k \in 1 .. Len(a) + Len(b) :
             (a \o b)[k] = IF k <= Len(a) THEN a[k] ELSE b[k - Len(a)]
      BY <1>1, <1>2
    <2>3. Len(a) + Len(b) = Len(q) - 1 /\ \A k \in 1 .. Len(q) - 1 : k <= Len(a) <=> k < i
      BY <1>1, <1>2
    <2> QED BY <1>1, <2>1, <2>2, <2>3
  <1>4. ASSUME NEW k \in 1 .. Len(q) - 1
        PROVE  (a \o b)[k] = IF k < i THEN q[k] ELSE q[k + 1]
    <2>1. CASE k < i
      BY <1>1, <1>3, <2>1
    <2>2. CASE ~(k < i)
      <3>1. k - (i - 1) \in 1 .. Len(q) - i /\ i + (k - (i - 1)) = k + 1
        BY <2>2
      <3> QED BY <1>2, <1>3, <2>2, <3>1
    <2> QED BY <2>1, <2>2
  <1>5. RemoveAt(q, i) = a \o b
    BY DEF RemoveAt, a, b
  <1> QED BY <1>3, <1>4, <1>5

\* Invested is a number, 0 without positions.
LEMMA InvestedTyped ==
    ASSUME NEW acc, acc.open \in Seq(Position)
    PROVE  Invested(acc) \in Int /\ (acc.open = <<>> => Invested(acc) = 0)
  <1> DEFINE n == Len(acc.open)
             c == [k \in 1 .. n |-> Cost(acc.open[k])]
  <1>1. n \in Nat /\ c \in [1 .. n -> Int] /\ \A k \in 1 .. n : c[k] = Cost(acc.open[k])
    BY CostTyped
  <1>2. PICK F \in [0 .. n -> Int] : Sums(F, c, n) /\ Invested(acc) = F[n]
    <2> HIDE DEF c
    <2> QED BY <1>1, InvestedSums
  <1>3. acc.open = <<>> => n = 0
    OBVIOUS
  <1> QED BY <1>1, <1>2, <1>3 DEF Sums

\* Accounts whose positions cost the same have invested the same.
LEMMA InvestedSame ==
    ASSUME NEW acc, acc.open \in Seq(Position), NEW new, new.open \in Seq(Position),
           Len(new.open) = Len(acc.open),
           \A k \in 1 .. Len(acc.open) : Cost(new.open[k]) = Cost(acc.open[k])
    PROVE  Invested(new) = Invested(acc)
  <1> DEFINE n == Len(acc.open)
             c == [k \in 1 .. n |-> Cost(acc.open[k])]
  <1>1. /\ n \in Nat /\ n = Len(acc.open) /\ n = Len(new.open) /\ c \in [1 .. n -> Int]
        /\ \A k \in 1 .. n : c[k] = Cost(acc.open[k])
        /\ \A k \in 1 .. n : c[k] = Cost(new.open[k])
    <2>1. n \in Nat /\ \A k \in 1 .. n : acc.open[k] \in Position
      OBVIOUS
    <2>2. c \in [1 .. n -> Int]
      BY <2>1, CostTyped, SMTT(30)
    <2> QED BY <2>1, <2>2
  <1> HIDE DEF c, n
  <1>2. PICK F \in [0 .. n -> Int] : Sums(F, c, n) /\ Invested(acc) = F[n]
    BY <1>1, InvestedSums
  <1>3. PICK G \in [0 .. n -> Int] : Sums(G, c, n) /\ Invested(new) = G[n]
    BY <1>1, InvestedSums
  <1>4. F[n] = G[n]
    BY <1>1, <1>2, <1>3, SumsAgree
  <1> QED BY <1>2, <1>3, <1>4

\* A new position adds its cost.
LEMMA InvestedAppend ==
    ASSUME NEW acc, acc.open \in Seq(Position), NEW p \in Position,
           NEW new, new.open = Append(acc.open, p)
    PROVE  Invested(new) = Invested(acc) + Cost(p)
  <1> DEFINE n == Len(acc.open)
             m == n + 1
             c == [k \in 1 .. n |-> Cost(acc.open[k])]
             d == [k \in 1 .. m |-> Cost(new.open[k])]
  <1>1. /\ n \in Nat /\ n = Len(acc.open) /\ c \in [1 .. n -> Int]
        /\ \A k \in 1 .. n : c[k] = Cost(acc.open[k])
    BY CostTyped, SMTT(30)
  <1>2. /\ m \in Nat /\ m = n + 1 /\ m = Len(new.open) /\ new.open \in Seq(Position)
        /\ new.open[m] = p /\ \A k \in 1 .. n : new.open[k] = acc.open[k]
    OBVIOUS
  <1>3. /\ d \in [1 .. m -> Int]
        /\ \A k \in 1 .. m : d[k] = Cost(new.open[k])
    BY <1>2, CostTyped, SMTT(30)
  <1>4. \A k \in 1 .. n : k \in 1 .. m /\ d[k] = c[k]
    BY <1>1, <1>2, <1>3
  <1> HIDE DEF c, d, n, m
  <1>5. PICK F \in [0 .. n -> Int] : Sums(F, c, n) /\ Invested(acc) = F[n]
    BY <1>1, InvestedSums
  <1>6. PICK G \in [0 .. m -> Int] : Sums(G, d, m) /\ Invested(new) = G[m]
    BY <1>2, <1>3, InvestedSums
  <1>7. PICK H \in [0 .. n -> Int] : Sums(H, c, n) /\ H[n] = G[n]
    <2> DEFINE H == [k \in 0 .. n |-> G[k]]
    <2>1. \A k \in 1 .. n : k \in 1 .. m /\ G[k] = G[k - 1] + d[k]
      BY <1>1, <1>2, <1>6 DEF Sums
    <2>2. G[0] = 0
      BY <1>6 DEF Sums
    <2>3. H[0] = G[0] /\ \A k \in 1 .. n : H[k] = G[k] /\ H[k - 1] = G[k - 1]
      BY <1>1
    <2>4. H \in [0 .. n -> Int] /\ H[n] = G[n]
      BY <1>1, <1>2
    <2> HIDE DEF H
    <2>5. Sums(H, c, n)
      BY <1>4, <2>1, <2>2, <2>3 DEF Sums
    <2> QED BY <2>4, <2>5
  <1>8. G[n] = F[n]
    <2>1. H[n] = F[n]
      BY <1>1, <1>5, <1>7, SumsAgree
    <2> QED BY <1>7, <2>1
  <1>9. G[m] = G[n] + d[m]
    <2>1. m \in 1 .. m /\ m - 1 = n
      BY <1>1, <1>2
    <2> QED BY <1>6, <2>1 DEF Sums
  <1>10. d[m] = Cost(p)
    <2>1. m \in 1 .. m
      BY <1>1, <1>2
    <2> QED BY <1>2, <1>3, <2>1
  <1> QED BY <1>5, <1>6, <1>8, <1>9, <1>10

\* A position that leaves takes its cost with it.
LEMMA InvestedRemove ==
    ASSUME NEW acc, acc.open \in Seq(Position), NEW i \in 1 .. Len(acc.open),
           NEW new, new.open = RemoveAt(acc.open, i)
    PROVE  Invested(new) = Invested(acc) - Cost(acc.open[i])
  <1> DEFINE n == Len(acc.open)
             m == n - 1
             x == Cost(acc.open[i])
             c == [k \in 1 .. n |-> Cost(acc.open[k])]
             d == [k \in 1 .. m |-> Cost(new.open[k])]
  <1>1. /\ n \in Nat /\ n = Len(acc.open) /\ c \in [1 .. n -> Int]
        /\ \A k \in 1 .. n : c[k] = Cost(acc.open[k])
    BY CostTyped, SMTT(30)
  <1>2. /\ m \in Nat /\ m = Len(new.open) /\ new.open \in Seq(Position)
        /\ \A k \in 1 .. m : new.open[k] = IF k < i THEN acc.open[k] ELSE acc.open[k + 1]
    <2>1. /\ RemoveAt(acc.open, i) \in Seq(Position)
          /\ Len(RemoveAt(acc.open, i)) = Len(acc.open) - 1
          /\ \A k \in 1 .. Len(acc.open) - 1 :
                RemoveAt(acc.open, i)[k] = IF k < i THEN acc.open[k] ELSE acc.open[k + 1]
      BY Removed
    <2>2. m \in Nat
      BY <1>1
    <2> QED BY <2>1, <2>2
  <1>3. /\ d \in [1 .. m -> Int]
        /\ \A k \in 1 .. m : d[k] = Cost(new.open[k])
    BY <1>2, CostTyped, SMTT(30)
  <1>4. \A k \in 1 .. m : d[k] = IF k < i THEN c[k] ELSE c[k + 1]
    BY <1>1, <1>2, <1>3
  <1>5. i \in 1 .. n /\ x = c[i] /\ x \in Int /\ m = n - 1
    BY <1>1
  <1> HIDE DEF c, d, x
  <1>6. PICK F \in [0 .. n -> Int] : Sums(F, c, n) /\ Invested(acc) = F[n]
    <2> HIDE DEF n, m
    <2> QED BY <1>1, InvestedSums
  <1>7. PICK G \in [0 .. m -> Int] : Sums(G, d, m) /\ Invested(new) = G[m]
    <2> HIDE DEF n, m
    <2> QED BY <1>2, <1>3, InvestedSums
  <1> HIDE DEF n, m
  <1> DEFINE S == {k \in 0 .. m : G[k] = IF k < i THEN F[k] ELSE F[k + 1] - x}
  <1>8. 0 \in S
    BY <1>1, <1>2, <1>5, <1>6, <1>7 DEF Sums
  <1>9. ASSUME NEW k \in 1 .. m, k - 1 \in S PROVE k \in S
    <2>1. k \in 1 .. n /\ k + 1 \in 1 .. n /\ k - 1 \in 0 .. n /\ k \in 0 .. m
      BY <1>1, <1>2, <1>5
    <2>2. G[k] = G[k - 1] + d[k] /\ F[k] = F[k - 1] + c[k] /\ F[k + 1] = F[k] + c[k + 1]
      <3>1. k + 1 - 1 = k
        OBVIOUS
      <3> QED BY <1>6, <1>7, <2>1, <3>1 DEF Sums
    <2>3. F[k - 1] \in Int /\ F[k] \in Int /\ F[k + 1] \in Int /\ c[k] \in Int /\ c[k + 1] \in Int
      BY <1>1, <2>1
    <2>4. G[k - 1] = IF k - 1 < i THEN F[k - 1] ELSE F[k - 1 + 1] - x
      BY <1>9
    <2>5. CASE k < i
      <3>1. G[k] = F[k - 1] + c[k]
        BY <1>4, <1>5, <2>2, <2>4, <2>5
      <3> QED BY <2>1, <2>2, <2>5, <3>1
    <2>6. CASE k = i
      <3>1. G[k] = F[k - 1] + c[k + 1] /\ c[k] = x
        BY <1>4, <1>5, <2>2, <2>4, <2>6
      <3>2. F[k + 1] - x = G[k]
        BY <1>5, <2>2, <2>3, <3>1, SMTT(30)
      <3> QED BY <2>1, <2>6, <3>2
    <2>7. CASE k > i
      <3>1. k - 1 + 1 = k /\ ~(k - 1 < i) /\ ~(k < i)
        BY <1>5, <2>7
      <3>2. G[k] = F[k] - x + c[k + 1]
        BY <1>4, <2>2, <2>4, <3>1
      <3>3. F[k + 1] - x = G[k]
        BY <1>5, <2>2, <2>3, <3>2, SMTT(30)
      <3> QED BY <2>1, <3>1, <3>3
    <2> QED BY <1>5, <2>5, <2>6, <2>7
  <1>10. 0 .. m \subseteq S
    <2> HIDE DEF S
    <2> QED BY <1>2, <1>8, <1>9, UpTo
  <1>11. G[m] = F[n] - x
    <2>1. m \in 0 .. m /\ m + 1 = n
      BY <1>1, <1>2, <1>5
    <2>2. CASE m < i
      <3>1. m + 1 = i
        BY <1>5, <2>1, <2>2
      <3>2. G[m] = F[m] /\ F[n] = F[n - 1] + c[n]
        BY <1>5, <1>6, <1>10, <2>1, <2>2 DEF Sums
      <3>3. n = i /\ n - 1 = m /\ F[m] \in Int
        <4>1. m \in 0 .. n
          BY <1>1, <1>2, <1>5
        <4> QED BY <1>1, <1>2, <1>5, <2>1, <3>1, <4>1
      <3> QED BY <1>5, <3>2, <3>3
    <2>3. CASE ~(m < i)
      BY <1>10, <2>1, <2>3
    <2> QED BY <2>2, <2>3
  <1> QED BY <1>6, <1>7, <1>11 DEF x

-----------------------------------------------------------------------------
(***************************************************************************)
(* What a sale does to an account: positions leave, and the books stay     *)
(* balanced.                                                               *)
(***************************************************************************)

\* Positions that differ at most in their current price.
SameOrder(p, q) == /\ p.symbol = q.symbol /\ p.layer = q.layer /\ p.price = q.price
                   /\ p.stop = q.stop /\ p.qty = q.qty /\ p.at = q.at

\* The positions of an account are positions of another one, at most once each.
Thinned(new, acc) ==
    \E g \in [DOMAIN new.open -> DOMAIN acc.open] :
        /\ \A j, k \in DOMAIN new.open : g[j] = g[k] => j = k
        /\ \A k \in DOMAIN new.open : SameOrder(new.open[k], acc.open[g[k]])

\* No cash went out, and what came in is booked.
Ledger(acc) == acc.cash + Invested(acc) + acc.lost - acc.realized

Booked(new, acc) == new.cash >= acc.cash /\ Ledger(new) = Ledger(acc)

\* An account is what is left of itself when nothing leaves.
LEMMA ThinnedSelf ==
    ASSUME NEW acc PROVE Thinned(acc, acc)
  <1> DEFINE g == [k \in DOMAIN acc.open |-> k]
  <1>1. g \in [DOMAIN acc.open -> DOMAIN acc.open] /\ \A k \in DOMAIN acc.open : g[k] = k
    OBVIOUS
  <1> HIDE DEF g
  <1> QED BY <1>1 DEF Thinned, SameOrder

\* What is left of what is left is left.
LEMMA ThinnedTwice ==
    ASSUME NEW a, NEW b, NEW c, Thinned(a, b), Thinned(b, c) PROVE Thinned(a, c)
  <1>1. PICK f \in [DOMAIN a.open -> DOMAIN b.open] :
           /\ \A j, k \in DOMAIN a.open : f[j] = f[k] => j = k
           /\ \A k \in DOMAIN a.open : SameOrder(a.open[k], b.open[f[k]])
    BY DEF Thinned
  <1>2. PICK g \in [DOMAIN b.open -> DOMAIN c.open] :
           /\ \A j, k \in DOMAIN b.open : g[j] = g[k] => j = k
           /\ \A k \in DOMAIN b.open : SameOrder(b.open[k], c.open[g[k]])
    BY DEF Thinned
  <1> DEFINE h == [k \in DOMAIN a.open |-> g[f[k]]]
  <1>3. h \in [DOMAIN a.open -> DOMAIN c.open]
    BY <1>1, <1>2
  <1>4. \A j, k \in DOMAIN a.open : h[j] = h[k] => j = k
    BY <1>1, <1>2
  <1>5. \A k \in DOMAIN a.open : SameOrder(a.open[k], c.open[h[k]])
    BY <1>1, <1>2 DEF SameOrder
  <1> HIDE DEF h
  <1> QED BY <1>3, <1>4, <1>5 DEF Thinned

\* An account that one position leaves.
LEMMA ThinnedRemove ==
    ASSUME NEW acc, acc.open \in Seq(Position), NEW i \in 1 .. Len(acc.open),
           NEW new, new.open = RemoveAt(acc.open, i)
    PROVE  new.open \in Seq(Position) /\ Thinned(new, acc)
  <1> DEFINE n == Len(acc.open)
             g == [k \in DOMAIN new.open |-> IF k < i THEN k ELSE k + 1]
  <1>1. /\ new.open \in Seq(Position) /\ Len(new.open) = n - 1
        /\ \A k \in 1 .. n - 1 : new.open[k] = IF k < i THEN acc.open[k] ELSE acc.open[k + 1]
    <2>1. /\ RemoveAt(acc.open, i) \in Seq(Position)
          /\ Len(RemoveAt(acc.open, i)) = n - 1
          /\ \A k \in 1 .. n - 1 :
                RemoveAt(acc.open, i)[k] = IF k < i THEN acc.open[k] ELSE acc.open[k + 1]
      BY Removed
    <2> QED BY <2>1
  <1>2. n \in Nat /\ DOMAIN new.open = 1 .. n - 1 /\ DOMAIN acc.open = 1 .. n
    BY <1>1
  <1>3. \A k \in 1 .. n - 1 : g[k] = (IF k < i THEN k ELSE k + 1) /\ g[k] \in 1 .. n
    BY <1>2
  <1>4. g \in [DOMAIN new.open -> DOMAIN acc.open]
    BY <1>2, <1>3
  <1>5. \A j, k \in DOMAIN new.open : g[j] = g[k] => j = k
    BY <1>2, <1>3
  <1>6. \A k \in DOMAIN new.open : new.open[k] = acc.open[g[k]]
    BY <1>1, <1>2, <1>3
  <1> HIDE DEF g
  <1> QED BY <1>1, <1>4, <1>5, <1>6 DEF Thinned, SameOrder

\* update_prices changes the current prices only.
LEMMA PricesUpdated ==
    ASSUME NEW acc \in Accounts, NEW s \in Symbols, NEW price \in Prices
    PROVE  LET new == UpdatePrices(acc, s, price) IN
           /\ new \in Accounts /\ Thinned(new, acc) /\ Booked(new, acc)
           /\ new.lost = acc.lost
           /\ DOMAIN new.open = DOMAIN acc.open
           /\ \A k \in DOMAIN acc.open : SameOrder(new.open[k], acc.open[k])
  <1> DEFINE q == acc.open
             r == [i \in DOMAIN q |-> IF q[i].symbol = s THEN [q[i] EXCEPT !.current = price]
                                                        ELSE q[i]]
             new == UpdatePrices(acc, s, price)
  <1>1. /\ new = [acc EXCEPT !.open = r]
        /\ q \in Seq(Position) /\ acc.cash \in Int /\ acc.lost \in Int /\ acc.realized \in Int
    BY DEF UpdatePrices, Accounts
  <1>2. \A k \in DOMAIN q : r[k] \in Position /\ SameOrder(r[k], q[k])
    <2> SUFFICES ASSUME NEW k \in DOMAIN q
                 PROVE  r[k] \in Position /\ SameOrder(r[k], q[k])
      OBVIOUS
    <2>1. q[k] \in Position
      BY <1>1
    <2>2. [q[k] EXCEPT !.current = price] \in Position
      BY <2>1 DEF Position
    <2>3. SameOrder([q[k] EXCEPT !.current = price], q[k]) /\ SameOrder(q[k], q[k])
      BY <2>1 DEF Position, SameOrder
    <2> QED BY <2>1, <2>2, <2>3
  <1>3. r \in Seq(Position) /\ Len(r) = Len(q) /\ DOMAIN r = DOMAIN q
    <2>1. DOMAIN q = 1 .. Len(q) /\ Len(q) \in Nat
      BY <1>1
    <2>2. r = [k \in 1 .. Len(q) |-> r[k]]
      BY <2>1
    <2> HIDE DEF r
    <2>3. r \in [1 .. Len(q) -> Position]
      BY <1>2, <2>1, <2>2
    <2> QED BY <2>1, <2>3
  <1> HIDE DEF r
  <1>4. /\ new \in Accounts /\ new.open = r
        /\ new.cash = acc.cash /\ new.lost = acc.lost /\ new.realized = acc.realized
    BY <1>1, <1>3 DEF Accounts
  <1> HIDE DEF new
  <1>5. Thinned(new, acc)
    <2> DEFINE g == [k \in DOMAIN q |-> k]
    <2>1. /\ g \in [DOMAIN new.open -> DOMAIN acc.open]
          /\ \A k \in DOMAIN new.open : g[k] = k
      BY <1>3, <1>4
    <2> HIDE DEF g
    <2> QED BY <1>2, <1>3, <1>4, <2>1 DEF Thinned
  <1>6. Invested(new) = Invested(acc)
    <2>1. \A k \in 1 .. Len(acc.open) : Cost(new.open[k]) = Cost(acc.open[k])
      BY <1>1, <1>2, <1>4 DEF SameOrder, Cost
    <2> QED BY <1>1, <1>3, <1>4, <2>1, InvestedSame
  <1>7. Booked(new, acc)
    BY <1>1, <1>4, <1>6 DEF Booked, Ledger
  <1> QED BY <1>2, <1>3, <1>4, <1>5, <1>7 DEF new

\* The first of a set of indices.
LEMMA FirstOne ==
    ASSUME NEW I, I \subseteq Nat, I # {}
    PROVE  First(I) \in I /\ \A j \in I : First(I) <= j
  <1>1. \E i \in I : \A j \in I : i <= j
    BY LeastOne
  <1> QED BY <1>1 DEF First

\* The identity behind the books of a sale: proceeds less the pnl, and the cost of
\* what vanishes, are the cost of the position.
LEMMA SaleArithmetic ==
    ASSUME NEW a \in Int, NEW b \in Int, NEW x \in Int, NEW n \in Int
    PROVE  a * x - (a - b) * x + b * (n - x) = b * n
  <1>1. (a - b) * x = a * x - b * x /\ b * (n - x) = b * n - b * x
    OBVIOUS
  <1>2. a * x \in Int /\ b * x \in Int /\ b * n \in Int
    OBVIOUS
  <1> QED BY <1>1, <1>2

\* submit_sell: the first position of the symbol leaves, and what it cost is in
\* the proceeds, the pnl and what is lost.
LEMMA Sold ==
    ASSUME NEW acc \in Accounts, NEW s, NEW qty \in Nat, NEW price \in Nat
    PROVE  LET new == SubmitSell(acc, s, qty, price)
               i   == First(Of(acc, s))
               p   == acc.open[i]
           IN /\ new \in Accounts /\ Thinned(new, acc) /\ Booked(new, acc)
              /\ Of(acc, s) = {} => new = acc
              /\ Of(acc, s) # {} =>
                    /\ i \in Of(acc, s) /\ \A j \in Of(acc, s) : i <= j
                    /\ new.open = RemoveAt(acc.open, i)
                    /\ qty = p.qty => new.lost = acc.lost
  <1> DEFINE new == SubmitSell(acc, s, qty, price)
             i   == First(Of(acc, s))
             p   == acc.open[i]
  <1>0. acc.open \in Seq(Position) /\ acc.cash \in Int /\ acc.lost \in Int /\ acc.realized \in Int
    BY DEF Accounts
  <1>1. CASE Of(acc, s) = {}
    <2>1. new = acc
      BY <1>1 DEF SubmitSell
    <2>2. Booked(acc, acc)
      BY <1>0 DEF Booked
    <2> QED BY <1>1, <2>1, <2>2, ThinnedSelf
  <1>2. CASE Of(acc, s) # {}
    <2> DEFINE x == IF qty <= p.qty THEN qty ELSE p.qty
               a == SellFill(price)
               b == BuyFill(p.price)
    <2>1. i \in Of(acc, s) /\ i \in 1 .. Len(acc.open) /\ \A j \in Of(acc, s) : i <= j
      <3>1. Of(acc, s) \subseteq Nat /\ Of(acc, s) \subseteq 1 .. Len(acc.open)
        BY <1>0 DEF Of
      <3> QED BY <1>2, <3>1, FirstOne
    <2>2. p \in Position /\ p.qty \in Nat /\ p.price \in Nat
      <3>1. p \in Position
        BY <1>0, <2>1
      <3> QED BY <3>1, PositionTyped
    <2>3. new = [cash |-> acc.cash + a * x, open |-> RemoveAt(acc.open, i),
                 realized |-> acc.realized + (a - b) * x, lost |-> acc.lost + b * (p.qty - x)]
      BY <1>2 DEF SubmitSell, Pnl
    <2>4. x \in Nat /\ x <= p.qty /\ (qty = p.qty => x = p.qty)
      BY <2>2
    <2>5. a \in Nat /\ b \in Nat
      <3>1. Unit \in Nat /\ Unit - 1 \in Nat /\ Unit + 1 \in Nat
        BY ReplayAssumption
      <3>2. \A u, v \in Nat : u * v \in Nat
        OBVIOUS
      <3> QED BY <2>2, <3>1, <3>2 DEF SellFill, BuyFill
    <2>6. Cost(p) = b * p.qty
      BY DEF Cost
    <2> HIDE DEF i, x, a, b, new
    <2>7. new.open = RemoveAt(acc.open, i)
      BY <2>3
    <2>8. new.open \in Seq(Position) /\ Thinned(new, acc)
      BY <1>0, <2>1, <2>7, ThinnedRemove
    <2>9. a * x \in Nat /\ (a - b) * x \in Int /\ b * (p.qty - x) \in Int /\ b * p.qty \in Int
      <3>1. \A u, v \in Int : u * v \in Int
        OBVIOUS
      <3>2. \A u, v \in Nat : u * v \in Nat
        OBVIOUS
      <3>3. a - b \in Int /\ p.qty - x \in Int
        BY <2>2, <2>4, <2>5
      <3> QED BY <2>2, <2>4, <2>5, <3>1, <3>2, <3>3
    <2>10. new \in Accounts
      <3>1. /\ acc.cash + a * x \in Int /\ acc.realized + (a - b) * x \in Int
            /\ acc.lost + b * (p.qty - x) \in Int
        BY <1>0, <2>9, SMTT(30)
      <3> QED BY <2>3, <2>7, <2>8, <3>1 DEF Accounts
    <2>11. /\ new.cash = acc.cash + a * x
           /\ new.realized = acc.realized + (a - b) * x
           /\ new.lost = acc.lost + b * (p.qty - x)
      BY <2>3
    <2>12. Invested(new) = Invested(acc) - b * p.qty /\ Invested(acc) \in Int
      <3>1. Invested(new) = Invested(acc) - Cost(p)
        BY <1>0, <2>1, <2>7, InvestedRemove
      <3>2. Invested(acc) \in Int
        BY <1>0, InvestedTyped
      <3> QED BY <2>6, <3>1, <3>2
    <2>13. a * x - (a - b) * x + b * (p.qty - x) = b * p.qty
      BY <2>2, <2>4, <2>5, SaleArithmetic
    <2>14. Booked(new, acc)
      <3> DEFINE ax == a * x
                 pnl == (a - b) * x
                 gone == b * (p.qty - x)
                 cost == b * p.qty
      <3>1. ax \in Nat /\ pnl \in Int /\ gone \in Int /\ cost \in Int /\ ax - pnl + gone = cost
        BY <2>9, <2>13
      <3>2. /\ new.cash = acc.cash + ax /\ new.realized = acc.realized + pnl
            /\ new.lost = acc.lost + gone /\ Invested(new) = Invested(acc) - cost
        BY <2>11, <2>12
      <3> HIDE DEF ax, pnl, gone, cost
      <3> DEFINE cash == acc.cash
                 inv  == Invested(acc)
                 lost == acc.lost
                 made == acc.realized
      <3>3. cash \in Int /\ inv \in Int /\ lost \in Int /\ made \in Int
        BY <1>0, <2>12
      <3>4. /\ new.cash = cash + ax /\ new.realized = made + pnl
            /\ new.lost = lost + gone /\ Invested(new) = inv - cost
        BY <3>2
      <3>5. Ledger(acc) = cash + inv + lost - made
        BY DEF Ledger
      <3>6. new.cash >= acc.cash
        BY <3>1, <3>2, <3>3
      <3> HIDE DEF cash, inv, lost, made
      <3>7. (cash + ax) + (inv - cost) + (lost + gone) - (made + pnl) = cash + inv + lost - made
        BY <3>1, <3>3
      <3> QED BY <3>4, <3>5, <3>6, <3>7 DEF Booked, Ledger
    <2>15. qty = p.qty => new.lost = acc.lost
      <3>1. ASSUME qty = p.qty PROVE b * (p.qty - x) = 0
        <4>1. p.qty - x = 0
          BY <2>2, <2>4, <3>1
        <4> QED BY <2>5, <4>1
      <3> QED BY <1>0, <2>11, <3>1
    <2> QED BY <1>2, <2>1, <2>7, <2>8, <2>10, <2>14, <2>15 DEF i, new
  <1> QED BY <1>1, <1>2

\* The stop-loss pass is a sale or nothing; shares vanish only when the first
\* position of the symbol is not the one whose stop was hit.
LEMMA StopFacts ==
    ASSUME NEW acc \in Accounts, NEW s \in Symbols, NEW low \in Prices, NEW close \in Prices
    PROVE  LET new == StoppedOut(acc, s, low, close) IN
           /\ new \in Accounts /\ Thinned(new, acc) /\ Booked(new, acc)
           /\ new.lost # acc.lost => \E j, k \in Of(acc, s) : j # k
  <1> DEFINE hits == {i \in DOMAIN acc.open : StopHit(acc.open[i], s, low)}
             h    == First(hits)
             p    == acc.open[h]
             qty  == p.qty
             bid  == Least(close, p.stop)
             new  == StoppedOut(acc, s, low, close)
  <1>0. acc.open \in Seq(Position) /\ acc.cash \in Int
    BY DEF Accounts
  <1>1. CASE hits = {}
    <2>1. new = acc
      BY <1>1 DEF StoppedOut
    <2>2. Booked(acc, acc)
      BY <1>0 DEF Booked
    <2> QED BY <2>1, <2>2, ThinnedSelf
  <1>2. CASE hits # {}
    <2>1. new = SubmitSell(acc, s, qty, bid)
      BY <1>2 DEF StoppedOut
    <2>2. h \in hits
      <3>1. hits \subseteq Nat
        BY <1>0
      <3> HIDE DEF hits
      <3> QED BY <1>2, <3>1, FirstOne
    <2>3. h \in DOMAIN acc.open /\ p.symbol = s
      BY <2>2 DEF StopHit
    <2>4. h \in Of(acc, s)
      BY <2>3 DEF Of
    <2>5. qty \in Nat /\ bid \in Nat
      <3> HIDE DEF h
      <3>1. p \in Position
        BY <1>0, <2>3
      <3>2. \A x \in {0} \union Prices : x \in Nat
        BY ReplayAssumption
      <3> HIDE DEF p
      <3>3. p.qty \in Nat /\ p.stop \in Nat /\ close \in Nat
        <4>1. p.qty \in Nat /\ p.stop \in {0} \union Prices
          BY <3>1 DEF Position
        <4> QED BY <3>2, <4>1
      <3> QED BY <3>3 DEF Least
    <2> HIDE DEF h, bid, new
    <2>6. /\ new \in Accounts /\ Thinned(new, acc) /\ Booked(new, acc)
          /\ First(Of(acc, s)) \in Of(acc, s)
          /\ qty = acc.open[First(Of(acc, s))].qty => new.lost = acc.lost
      BY <2>1, <2>4, <2>5, Sold
    <2>7. First(Of(acc, s)) = h => new.lost = acc.lost
      BY <2>6
    <2> QED BY <2>4, <2>6, <2>7 DEF new
  <1> QED BY <1>1, <1>2

\* submit_buy of a key that is free: nothing, or the cost moves from cash to the
\* position.
LEMMA Bought ==
    ASSUME NEW acc \in Accounts, acc.cash >= 0, NEW p \in Position,
           At(acc, p.symbol, p.layer) = {}
    PROVE  LET new == SubmitBuy(acc, p) IN
           /\ new \in Accounts /\ Ledger(new) = Ledger(acc) /\ new.cash >= 0
           /\ new.lost = acc.lost
           /\ new = acc \/ new.open = Append(acc.open, p)
  <1> DEFINE new == SubmitBuy(acc, p)
  <1>0. acc.open \in Seq(Position) /\ acc.cash \in Int /\ acc.lost \in Int /\ acc.realized \in Int
    BY DEF Accounts
  <1>1. CASE p.qty <= 0 \/ Unaffordable(acc, p)
    <2>1. new = acc
      BY <1>1 DEF SubmitBuy
    <2> QED BY <2>1
  <1>2. CASE ~(p.qty <= 0 \/ Unaffordable(acc, p))
    <2>1. new = [acc EXCEPT !.cash = @ - Cost(p), !.open = Append(@, p)]
      BY <1>2 DEF SubmitBuy
    <2>2. Cost(p) \in Nat /\ Cost(p) <= acc.cash
      BY <1>0, <1>2, CostTyped DEF Unaffordable
    <2>3. /\ new.cash = acc.cash - Cost(p) /\ new.open = Append(acc.open, p)
          /\ new.lost = acc.lost /\ new.realized = acc.realized
      BY <2>1 DEF Accounts
    <2>4. Append(acc.open, p) \in Seq(Position)
      BY <1>0
    <2>5. new \in Accounts
      <3>1. acc = [cash |-> acc.cash, open |-> acc.open, realized |-> acc.realized,
                   lost |-> acc.lost]
        BY DEF Accounts
      <3>2. new = [cash |-> acc.cash - Cost(p), open |-> Append(acc.open, p),
                   realized |-> acc.realized, lost |-> acc.lost]
        BY <2>1, <3>1
      <3>3. acc.cash - Cost(p) \in Int
        BY <1>0, <2>2
      <3> HIDE DEF new
      <3> QED BY <1>0, <2>4, <3>2, <3>3 DEF Accounts
    <2> HIDE DEF new
    <2>6. Invested(new) = Invested(acc) + Cost(p) /\ Invested(acc) \in Int
      BY <1>0, <2>3, InvestedAppend, InvestedTyped
    <2>7. Ledger(new) = Ledger(acc)
      BY <1>0, <2>2, <2>3, <2>6 DEF Ledger
    <2> QED BY <1>0, <2>2, <2>3, <2>5, <2>7 DEF new
  <1> QED BY <1>1, <1>2

-----------------------------------------------------------------------------
(***************************************************************************)
(* The sizes, and the signals that pass.                                   *)
(***************************************************************************)

\* Division rounds down.
LEMMA DivBound == ASSUME NEW a \in Int, NEW b \in Nat \ {0}
                  PROVE  a \div b \in Int /\ (a \div b) * b <= a
  OBVIOUS

\* A quotient of naturals is one.
LEMMA DivNat == ASSUME NEW a \in Nat, NEW b \in Nat \ {0} PROVE a \div b \in Nat
  OBVIOUS

\* No more than a hundred percent of a number is at most the number, when at least
\* one is left.
LEMMA PercentBound ==
    ASSUME NEW a \in Int, NEW c \in 0 .. 100, (a * c) \div 100 >= 1
    PROVE  (a * c) \div 100 <= a
  <1>1. a * c \in Int /\ a * c >= 100
    BY SMTT(30)
  <1>2. a > 0
    BY <1>1, SMTT(30)
  <1>3. a * c <= a * 100
    BY <1>2, SMTT(30)
  <1>4. (a * c) \div 100 <= (a * 100) \div 100
    BY <1>1, <1>3, SMTT(30)
  <1> QED BY <1>4

\* Products grow with their factors.
LEMMA TimesMonotone ==
    ASSUME NEW a \in Int, NEW b \in Int, a <= b, NEW c \in Nat PROVE a * c <= b * c
  OBVIOUS

\* A factor above zero can be taken off both sides.
LEMMA TimesCancel ==
    ASSUME NEW a \in Int, NEW b \in Int, NEW c \in Nat \ {0}, a * c <= b * c PROVE a <= b
  BY SMTT(30)

\* The cap on the value of a position, in shares, whatever the equity.
LEMMA ValueTyped ==
    ASSUME NEW price \in Prices, NEW equity \in Int
    PROVE  ByValue(price, equity) \in Int /\ ByValue(price, equity) * price <= MaxValue
  <1> DEFINE v == ByValue(price, equity)
             u == 100 * Unit
             d == price * 100 * Unit
             top == MaxValue * 100 * Unit
             low == equity * MaxPct
             m == Least(low, top)
  <1>1. price \in Nat \ {0} /\ Unit \in Nat \ {0} /\ MaxValue \in Nat /\ MaxPct \in Nat
    BY ReplayAssumption
  <1>2. u \in Nat \ {0}
    BY <1>1
  <1>3. d = price * u /\ top = MaxValue * u
    BY <1>1
  <1>4. d \in Nat \ {0} /\ top \in Nat /\ low \in Int
    <2>1. \A x \in Nat \ {0} : price * x \in Nat \ {0}
      BY <1>1
    <2>2. MaxValue * u \in Nat /\ equity * MaxPct \in Int
      BY <1>1, <1>2
    <2> HIDE DEF u, d, top
    <2> QED BY <1>2, <1>3, <2>1, <2>2
  <1>5. v = m \div d
    BY DEF ByValue
  <1> HIDE DEF v, d, top, low, u
  <1>6. m \in Int /\ m <= top
    BY <1>4 DEF Least
  <1> HIDE DEF m
  <1>7. v \in Int /\ v * d <= m
    BY <1>4, <1>5, <1>6, DivBound
  <1>8. v * d = (v * price) * u /\ v * price \in Int /\ v * d \in Int
    BY <1>1, <1>2, <1>3, <1>7
  <1>9. (v * price) * u <= MaxValue * u
    BY <1>3, <1>4, <1>6, <1>7, <1>8
  <1>10. v * price <= MaxValue
    <2> DEFINE x == v * price
    <2>1. x \in Int /\ x * u <= MaxValue * u
      BY <1>8, <1>9
    <2> HIDE DEF x
    <2>2. x <= MaxValue
      BY <1>1, <1>2, <2>1, TimesCancel
    <2> QED BY <2>2 DEF x
  <1> QED BY <1>7, <1>10 DEF v

\* compute_shares: the caps on risk and value hold whatever the equity.
LEMMA Sized ==
    ASSUME NEW price \in Prices, NEW stop \in {0} \union Prices, NEW equity \in Int,
           NEW power \in Nat, NEW count \in Nat, NEW scalar \in 0 .. 100
    PROVE  LET n == ComputeShares(price, stop, equity, power, count, scalar) IN
           /\ n \in Nat
           /\ n * Distance(price, stop) <= DollarRisk
           /\ n * price <= MaxValue
  <1> DEFINE n == ComputeShares(price, stop, equity, power, count, scalar)
             dist == Distance(price, stop)
             risk == ByRisk(price, stop)
             value == ByValue(price, equity)
             least == Least(risk, value)
             scaled == (least * scalar) \div 100
             able == ByPower(price, power)
  <1>1. /\ price \in Nat \ {0} /\ stop \in Nat /\ Unit \in Nat \ {0}
        /\ DollarRisk \in Nat /\ MaxValue \in Nat /\ MaxPct \in Nat
    BY ReplayAssumption
  <1>2. dist \in Nat
    BY <1>1 DEF Distance
  <1>3. CASE n = 0
    BY <1>1, <1>2, <1>3
  <1>4. CASE n # 0
    <2>1. /\ dist # 0 /\ scaled >= 1 /\ n = Least(scaled, able)
      <3>1. ~(count >= SizerMax \/ stop = 0 \/ dist = 0)
        BY <1>4 DEF ComputeShares
      <3>2. n = IF scaled < 1 THEN 0 ELSE Least(scaled, able)
        BY <3>1 DEF ComputeShares
      <3>3. ~(scaled < 1) /\ n = Least(scaled, able)
        BY <1>4, <3>2
      <3>4. least * scalar \in Int
        <4>1. risk \in Int
          BY <1>1, <1>2, <3>1, DivBound DEF ByRisk
        <4>2. value \in Int
          BY ValueTyped
        <4>3. least \in Int
          BY <4>1, <4>2 DEF Least
        <4> HIDE DEF least
        <4> QED BY <4>3
      <3>5. scaled \in Int
        <4> HIDE DEF least
        <4> QED BY <3>4, DivBound
      <3> HIDE DEF scaled
      <3> QED BY <3>1, <3>3, <3>5
    <2>2. risk \in Nat /\ risk * dist <= DollarRisk
      <3> HIDE DEF dist
      <3> QED BY <1>1, <1>2, <2>1, DivBound, DivNat DEF ByRisk, dist
    <2>3. value \in Int /\ value * price <= MaxValue
      BY ValueTyped
    <2>4. least \in Int /\ least <= risk /\ least <= value
      BY <2>2, <2>3 DEF Least
    <2>5. scaled \in Int /\ scaled <= least
      <3> HIDE DEF least
      <3>1. least * scalar \in Int
        BY <2>4
      <3> QED BY <2>1, <2>4, <3>1, PercentBound, DivBound
    <2>6. able \in Nat
      <3>1. price * Unit \in Nat \ {0}
        BY <1>1
      <3> QED BY <3>1, DivNat DEF ByPower
    <2> HIDE DEF n, dist, risk, value, least, scaled, able
    <2>7. n \in Nat /\ n <= risk /\ n <= value
      BY <2>1, <2>2, <2>3, <2>4, <2>5, <2>6 DEF Least
    <2>8. n * dist <= risk * dist /\ n * price <= value * price
      BY <1>1, <1>2, <2>2, <2>3, <2>7, TimesMonotone
    <2>9. /\ n * dist \in Int /\ risk * dist \in Int
          /\ n * price \in Int /\ value * price \in Int
      BY <1>1, <1>2, <2>2, <2>3, <2>7
    <2> QED BY <1>1, <2>2, <2>3, <2>7, <2>8, <2>9 DEF n, dist
  <1> QED BY <1>3, <1>4

\* What one layer adds to the signals that pass.
Keep(signals, l, emitted) ==
    LET g == [layer |-> l, side |-> emitted[l]]
    IN IF g.side # "HOLD" /\ Admits(g) THEN Append(signals, g) ELSE signals

\* The signals that pass are admitted, and each is of another layer.
LEMMA AdmittedFacts ==
    ASSUME NEW emitted \in [LayerSet -> {"HOLD", "BUY", "EXIT"}]
    PROVE  /\ Admitted(emitted) \in Seq(Signal)
           /\ \A i \in DOMAIN Admitted(emitted) : Admits(Admitted(emitted)[i])
           /\ \A i, j \in DOMAIN Admitted(emitted) :
                 Admitted(emitted)[i].layer = Admitted(emitted)[j].layer => i = j
  <1> DEFINE n == Len(Layers)
             V == Seq(Signal)
             e == <<>>
             D == [x \in (1 .. n) \X V |-> Keep(x[2], Layers[x[1]], emitted)]
             Iter(h) == [s \in SUBSET DOMAIN Layers |->
                           IF s = {} THEN <<>>
                           ELSE Keep(h[s \ {Max(s)}], Layers[Max(s)], emitted)]
             h == CHOOSE g : g = Iter(g)
  <1>1. /\ n \in Nat /\ DOMAIN Layers = 1 .. n
        /\ \A i, j \in 1 .. n : Layers[i] = Layers[j] => i = j
        /\ \A i \in 1 .. n : Layers[i] \in LayerSet
    <2>1. Layers \in Seq(Range(Layers)) /\ IsInjective(Layers)
      BY ReplayAssumption
    <2> QED BY <2>1 DEF IsInjective, LayerSet
  <1>2. ASSUME NEW l \in LayerSet, NEW signals \in Seq(Signal)
        PROVE  /\ Keep(signals, l, emitted) \in Seq(Signal)
               /\ \/ Keep(signals, l, emitted) = signals
                  \/ \E g \in Signal : /\ Admits(g) /\ g.layer = l
                                       /\ Keep(signals, l, emitted) = Append(signals, g)
    <2> DEFINE g == [layer |-> l, side |-> emitted[l]]
    <2>1. CASE g.side # "HOLD" /\ Admits(g)
      <3>1. g \in Signal /\ g.layer = l
        BY <2>1 DEF Signal
      <3>2. Keep(signals, l, emitted) = Append(signals, g)
        BY <2>1 DEF Keep
      <3> HIDE DEF g
      <3> QED BY <2>1, <3>1, <3>2
    <2>2. CASE ~(g.side # "HOLD" /\ Admits(g))
      BY <2>2 DEF Keep
    <2> QED BY <2>1, <2>2
  <1>3. \E g : g = Iter(g)
    <2>1. D \in [(1 .. n) \X V -> V] /\ e \in V
      BY <1>1, <1>2
    <2>2. PICK f \in [SUBSET (1 .. n) -> V] : Recursion(f, e, D, n)
      <3> HIDE DEF D, V, e, n
      <3> QED BY <1>1, <2>1, RecursionSolved
    <2>3. ASSUME NEW s \in SUBSET (1 .. n), s # {}
          PROVE  f[s] = Keep(f[s \ {Max(s)}], Layers[Max(s)], emitted)
      <3>1. f[s] = D[<<Max(s), f[s \ {Max(s)}]>>]
        BY <2>2, <2>3 DEF Recursion
      <3>2. Max(s) \in s
        <4> HIDE DEF n
        <4> QED BY <1>1, <2>3, MaxOfIndices
      <3>3. <<Max(s), f[s \ {Max(s)}]>> \in (1 .. n) \X V
        BY <3>2
      <3> QED BY <3>1, <3>3
    <2>4. f[{}] = <<>>
      BY <2>2 DEF Recursion
    <2>5. f = Iter(f)
      BY <1>1, <2>3, <2>4
    <2> QED BY <2>5
  <1>4. h = Iter(h)
    BY <1>3
  <1>5. Admitted(emitted) = h[1 .. n]
    BY <1>1 DEF Admitted, FoldLeft, MapThenFoldSet, Keep
  <1> HIDE DEF h
  <1> DEFINE Good(q, k) == /\ q \in Seq(Signal)
                           /\ \A i \in DOMAIN q : Admits(q[i])
                           /\ \A i \in DOMAIN q : \E j \in 1 .. k : q[i].layer = Layers[j]
                           /\ \A i, j \in DOMAIN q : q[i].layer = q[j].layer => i = j
             S == {k \in 0 .. n : Good(h[1 .. k], k)}
  <1>6. 0 \in S
    <2>1. 1 .. 0 = {} /\ {} \in SUBSET DOMAIN Layers
      OBVIOUS
    <2>2. h[1 .. 0] = <<>>
      BY <1>4, <2>1
    <2>3. Good(<<>>, 0)
      OBVIOUS
    <2> HIDE DEF Good
    <2> QED BY <1>1, <2>2, <2>3
  <1>7. ASSUME NEW k \in 1 .. n, k - 1 \in S PROVE k \in S
    <2> DEFINE p == h[1 .. (k - 1)]
               r == h[1 .. k]
               l == Layers[k]
    <2>1. r = Keep(p, l, emitted)
      <3>1. /\ 1 .. k \in SUBSET (1 .. n) /\ 1 .. k # {}
            /\ Max(1 .. k) = k
            /\ (1 .. k) \ {k} = 1 .. (k - 1)
        <4> HIDE DEF n
        <4> QED BY <1>1, FirstIndices
      <3> QED BY <1>1, <1>4, <3>1
    <2>2. Good(p, k - 1)
      BY <1>7
    <2>3. l \in LayerSet /\ \A j \in 1 .. (k - 1) : Layers[j] # l /\ j \in 1 .. k
      BY <1>1
    <2> HIDE DEF p, r
    <2>4. ASSUME NEW g \in Signal, Admits(g), g.layer = l, r = Append(p, g) PROVE Good(r, k)
      <3>1. /\ r \in Seq(Signal) /\ Len(r) = Len(p) + 1 /\ Len(p) \in Nat
            /\ \A i \in 1 .. Len(p) : r[i] = p[i]
            /\ r[Len(p) + 1] = g
            /\ DOMAIN r = 1 .. Len(p) + 1 /\ DOMAIN p = 1 .. Len(p)
        BY <2>2, <2>4
      <3>2. \A i \in DOMAIN r : Admits(r[i])
        BY <2>2, <2>4, <3>1
      <3>3. \A i \in DOMAIN r : \E j \in 1 .. k : r[i].layer = Layers[j]
        <4> SUFFICES ASSUME NEW i \in DOMAIN r
                     PROVE  \E j \in 1 .. k : r[i].layer = Layers[j]
          OBVIOUS
        <4>1. CASE i \in 1 .. Len(p)
          BY <2>2, <2>3, <3>1, <4>1
        <4>2. CASE i = Len(p) + 1
          BY <2>4, <3>1, <4>2
        <4> QED BY <3>1, <4>1, <4>2
      <3>4. \A i \in 1 .. Len(p) : r[i].layer # l
        BY <2>2, <2>3, <3>1
      <3>5. \A i, j \in DOMAIN r : r[i].layer = r[j].layer => i = j
        BY <2>2, <2>4, <3>1, <3>4
      <3> QED BY <3>1, <3>2, <3>3, <3>5
    <2>5. p \in Seq(Signal)
      BY <2>2
    <2>6. Good(r, k)
      <3> HIDE DEF Good
      <3>1. Good(p, k)
        BY <2>2, <2>3 DEF Good
      <3> QED BY <1>2, <2>1, <2>3, <2>4, <2>5, <3>1
    <2> HIDE DEF Good
    <2> QED BY <2>6 DEF r
  <1>8. 0 .. n \subseteq S
    <2> HIDE DEF S, n
    <2> QED BY <1>1, <1>6, <1>7, UpTo
  <1>9. Good(h[1 .. n], n)
    BY <1>1, <1>8
  <1> QED BY <1>5, <1>9

-----------------------------------------------------------------------------
(***************************************************************************)
(* The end-of-day close.                                                   *)
(***************************************************************************)

\* One key of the close.
CloseOne(acc, p, pr) ==
    IF At(acc, p.symbol, p.layer) = {} THEN acc
    ELSE SubmitSell(acc, p.symbol, p.qty, pr[p.symbol])

\* The close sells the positions in the order of the dict, each in full: none is
\* left and no shares vanish.
LEMMA ClosedAll ==
    ASSUME NEW acc \in Accounts, NEW pr \in [Symbols -> Nat]
    PROVE  LET new == ForceCloseAll(acc, pr) IN
           /\ new \in Accounts /\ Booked(new, acc)
           /\ new.open = <<>> /\ new.lost = acc.lost
  <1> DEFINE q == acc.open
             n == Len(q)
             V == Accounts
             D == [x \in (1 .. n) \X V |-> CloseOne(x[2], q[x[1]], pr)]
             Iter(h) == [s \in SUBSET DOMAIN q |->
                           IF s = {} THEN acc ELSE CloseOne(h[s \ {Max(s)}], q[Max(s)], pr)]
             h == CHOOSE g : g = Iter(g)
  <1>1. /\ n \in Nat /\ DOMAIN q = 1 .. n /\ q \in Seq(Position)
        /\ \A k \in 1 .. n : q[k] \in Position
    BY DEF Accounts
  <1>2. ASSUME NEW a \in V, NEW p \in Position
        PROVE  CloseOne(a, p, pr) \in V
    <2>1. p.qty \in Nat /\ pr[p.symbol] \in Nat
      BY DEF Position
    <2>2. SubmitSell(a, p.symbol, p.qty, pr[p.symbol]) \in Accounts
      BY <2>1, Sold
    <2> QED BY <2>2 DEF CloseOne
  <1>3. \E g : g = Iter(g)
    <2>1. D \in [(1 .. n) \X V -> V] /\ acc \in V
      BY <1>1, <1>2
    <2>2. PICK f \in [SUBSET (1 .. n) -> V] : Recursion(f, acc, D, n)
      <3> HIDE DEF D, V, n
      <3> QED BY <1>1, <2>1, RecursionSolved
    <2>3. ASSUME NEW s \in SUBSET (1 .. n), s # {}
          PROVE  f[s] = CloseOne(f[s \ {Max(s)}], q[Max(s)], pr)
      <3>1. f[s] = D[<<Max(s), f[s \ {Max(s)}]>>]
        BY <2>2, <2>3 DEF Recursion
      <3>2. Max(s) \in s
        <4> HIDE DEF n
        <4> QED BY <1>1, <2>3, MaxOfIndices
      <3>3. <<Max(s), f[s \ {Max(s)}]>> \in (1 .. n) \X V
        BY <3>2
      <3> HIDE DEF V
      <3> QED BY <3>1, <3>3
    <2>4. f[{}] = acc
      BY <2>2 DEF Recursion
    <2> HIDE DEF V
    <2>5. f = Iter(f)
      BY <1>1, <2>3, <2>4
    <2> QED BY <2>5
  <1>4. h = Iter(h)
    BY <1>3
  <1>5. ForceCloseAll(acc, pr) = h[1 .. n]
    BY <1>1 DEF ForceCloseAll, FoldLeft, MapThenFoldSet, CloseOne
  <1> HIDE DEF h
  <1> DEFINE Good(a, k) == /\ a \in V /\ Booked(a, acc) /\ a.lost = acc.lost
                           /\ Len(a.open) = n - k
                           /\ \A j \in 1 .. n - k : a.open[j] = q[k + j]
             S == {k \in 0 .. n : Good(h[1 .. k], k)}
  <1>6. 0 \in S
    <2>1. 1 .. 0 = {} /\ {} \in SUBSET DOMAIN q
      OBVIOUS
    <2>2. h[1 .. 0] = acc
      BY <1>4, <2>1
    <2>3. Booked(acc, acc)
      BY DEF Booked, Accounts
    <2>4. Good(acc, 0)
      BY <1>1, <2>3
    <2> HIDE DEF Good
    <2> QED BY <1>1, <2>2, <2>4
  <1>7. ASSUME NEW k \in 1 .. n, k - 1 \in S PROVE k \in S
    <2> DEFINE a == h[1 .. (k - 1)]
               b == h[1 .. k]
               p == q[k]
    <2>1. b = CloseOne(a, p, pr)
      <3>1. /\ 1 .. k \in SUBSET (1 .. n) /\ 1 .. k # {}
            /\ Max(1 .. k) = k
            /\ (1 .. k) \ {k} = 1 .. (k - 1)
        <4> HIDE DEF n
        <4> QED BY <1>1, FirstIndices
      <3> QED BY <1>1, <1>4, <3>1
    <2>2. Good(a, k - 1)
      BY <1>7
    <2> HIDE DEF a, b
    <2>3. /\ a \in Accounts /\ a.open \in Seq(Position) /\ Len(a.open) = n - (k - 1)
          /\ a.open[1] = p /\ 1 \in DOMAIN a.open /\ p \in Position
      <3>1. a \in Accounts /\ Len(a.open) = n - (k - 1)
            /\ \A j \in 1 .. n - (k - 1) : a.open[j] = q[k - 1 + j]
        BY <2>2
      <3>2. a.open \in Seq(Position) /\ 1 \in 1 .. n - (k - 1) /\ k - 1 + 1 = k
        BY <1>1, <3>1 DEF Accounts
      <3> HIDE DEF n
      <3> QED BY <1>1, <3>1, <3>2
    <2>4. 1 \in At(a, p.symbol, p.layer) /\ 1 \in Of(a, p.symbol)
      BY <2>3 DEF At, Of
    <2>5. b = SubmitSell(a, p.symbol, p.qty, pr[p.symbol])
      BY <2>1, <2>4 DEF CloseOne
    <2>6. p.qty \in Nat /\ pr[p.symbol] \in Nat
      BY <2>3 DEF Position
    <2> DEFINE i == First(Of(a, p.symbol))
    <2>7. /\ b \in Accounts /\ Booked(b, a)
          /\ i \in Of(a, p.symbol) /\ \A j \in Of(a, p.symbol) : i <= j
          /\ b.open = RemoveAt(a.open, i)
          /\ p.qty = a.open[i].qty => b.lost = a.lost
      <3> HIDE DEF p
      <3> QED BY <2>3, <2>4, <2>5, <2>6, Sold
    <2>8. i = 1
      <3>1. i \in Nat /\ i >= 1
        BY <2>3, <2>7 DEF Of
      <3> HIDE DEF i
      <3> QED BY <2>4, <2>7, <3>1
    <2> HIDE DEF i
    <2>9. b.lost = acc.lost
      BY <2>2, <2>3, <2>7, <2>8
    <2>10. Booked(b, acc)
      BY <2>2, <2>3, <2>7 DEF Booked, Accounts
    <2>11. /\ Len(b.open) = n - k
           /\ \A j \in 1 .. n - k : b.open[j] = a.open[j + 1]
      <3>1. 1 \in 1 .. Len(a.open) /\ Len(a.open) - 1 = n - k
        BY <1>1, <2>3
      <3>2. /\ Len(RemoveAt(a.open, 1)) = Len(a.open) - 1
            /\ \A j \in 1 .. Len(a.open) - 1 :
                  RemoveAt(a.open, 1)[j] = IF j < 1 THEN a.open[j] ELSE a.open[j + 1]
        BY <2>3, <3>1, Removed
      <3> HIDE DEF n
      <3> QED BY <2>7, <2>8, <3>1, <3>2
    <2>12. \A j \in 1 .. n - k : b.open[j] = q[k + j]
      <3> SUFFICES ASSUME NEW j \in 1 .. n - k PROVE b.open[j] = q[k + j]
        OBVIOUS
      <3>1. j + 1 \in 1 .. n - (k - 1) /\ k - 1 + (j + 1) = k + j
        BY <1>1
      <3>2. a.open[j + 1] = q[k - 1 + (j + 1)]
        BY <2>2, <3>1
      <3> HIDE DEF n
      <3> QED BY <2>11, <3>1, <3>2
    <2>13. Good(b, k)
      BY <2>7, <2>9, <2>10, <2>11, <2>12
    <2> HIDE DEF Good
    <2> QED BY <2>13 DEF b
  <1>8. 0 .. n \subseteq S
    <2> HIDE DEF S, n
    <2> QED BY <1>1, <1>6, <1>7, UpTo
  <1>9. Good(h[1 .. n], n)
    BY <1>1, <1>8
  <1>10. h[1 .. n].open = <<>>
    <2>1. h[1 .. n] \in Accounts /\ Len(h[1 .. n].open) = 0
      BY <1>1, <1>9
    <2>2. h[1 .. n].open \in Seq(Position)
      BY <2>1 DEF Accounts
    <2> QED BY <2>1, <2>2
  <1> QED BY <1>5, <1>9, <1>10

-----------------------------------------------------------------------------
(***************************************************************************)
(* The inductive invariant: the properties of the account, what the        *)
(* dispatch leaves to be done, and the times of closes and openings.       *)
(***************************************************************************)

IInv == ReplayInv /\ ClosedDaily

\* Among the prices and limits of the model.
LEMMA Constants ==
    /\ Prices \subseteq Nat /\ MaxPositions \in Nat /\ Equity0 \in Nat /\ Unit \in Nat
    /\ BearScalar \in 0 .. 100 /\ Minutes \subseteq 0 .. 1439 /\ IsFiniteSet(Symbols)
  BY ReplayAssumption

\* Sets of symbols are finite, and smaller ones have no more elements.
LEMMA FewerSymbols ==
    ASSUME NEW A, NEW B, A \subseteq B, B \subseteq Symbols
    PROVE  /\ IsFiniteSet(A) /\ Cardinality(A) \in Nat /\ Cardinality(B) \in Nat
           /\ Cardinality(A) <= Cardinality(B)
  <1>1. IsFiniteSet(B)
    BY Constants, FS_Subset
  <1> QED BY <1>1, FS_Subset, FS_CardinalityType

\* The symbols an account holds are among those that have bars.
LEMMA HeldSymbols ==
    ASSUME NEW acc \in Accounts
    PROVE  SymbolsOf(acc.open) \subseteq Symbols
  <1>1. acc.open \in Seq(Position)
    BY DEF Accounts
  <1>2. \A i \in DOMAIN acc.open : acc.open[i] \in Position
    BY <1>1
  <1>3. \A i \in DOMAIN acc.open : acc.open[i].symbol \in Symbols
    BY <1>2 DEF Position
  <1> QED BY <1>3 DEF SymbolsOf

\* The books balance as long as no step changes what they add up to.
LEMMA LedgerStep ==
    ASSUME account \in Accounts, account' \in Accounts, Ledger(account') = Ledger(account),
           LedgerBalances
    PROVE  LedgerBalances'
  <1> DEFINE a == account.cash   a1 == account'.cash
             b == Invested(account)   b1 == Invested(account')
             c == account.lost   c1 == account'.lost
             d == account.realized   d1 == account'.realized
             e == Equity0 * Unit
  <1>1. /\ a \in Int /\ b \in Int /\ c \in Int /\ d \in Int
        /\ a1 \in Int /\ b1 \in Int /\ c1 \in Int /\ d1 \in Int
    BY InvestedTyped DEF Accounts
  <1>2. e \in Int
    BY Constants
  <1>3. a + b + c = e + d
    BY DEF LedgerBalances
  <1>4. a1 + b1 + c1 - d1 = a + b + c - d
    BY DEF Ledger
  <1>5. SUFFICES a1 + b1 + c1 = e + d1
    BY DEF LedgerBalances
  <1> HIDE DEF a, a1, b, b1, c, c1, d, d1, e
  <1> QED BY <1>1, <1>2, <1>3, <1>4

\* Whatever positions leave, what is left keeps its places, sizes and times.
LEMMA ThinnedKeeps ==
    ASSUME IInv, account' \in Accounts, Thinned(account', account), Booked(account', account)
    PROVE  /\ OnePerKey' /\ Solvent' /\ WithinLimits' /\ LedgerBalances'
           /\ lastClose' = lastClose => ClosedDaily'
           /\ SymbolsOf(account'.open) \subseteq SymbolsOf(account.open)
           /\ \A s, l : At(account, s, l) = {} => At(account', s, l) = {}
  <1>1. PICK g \in [DOMAIN account'.open -> DOMAIN account.open] :
           /\ \A j, k \in DOMAIN account'.open : g[j] = g[k] => j = k
           /\ \A k \in DOMAIN account'.open : SameOrder(account'.open[k], account.open[g[k]])
    BY DEF Thinned
  <1>2. OnePerKey'
    <2> SUFFICES ASSUME NEW i \in DOMAIN account'.open, NEW j \in DOMAIN account'.open,
                        account'.open[i].symbol = account'.open[j].symbol,
                        account'.open[i].layer = account'.open[j].layer
                 PROVE  i = j
      BY DEF OnePerKey
    <2>1. g[i] \in DOMAIN account.open /\ g[j] \in DOMAIN account.open
      BY <1>1
    <2>2. /\ account.open[g[i]].symbol = account.open[g[j]].symbol
          /\ account.open[g[i]].layer = account.open[g[j]].layer
      BY <1>1 DEF SameOrder
    <2>3. g[i] = g[j]
      BY <2>1, <2>2 DEF IInv, ReplayInv, OnePerKey
    <2> QED BY <1>1, <2>3
  <1>3. account \in Accounts /\ account.cash \in Int /\ account'.cash \in Int
    BY DEF IInv, ReplayInv, TypeOK, Accounts
  <1>4. Solvent'
    BY <1>3 DEF IInv, ReplayInv, Solvent, Booked
  <1>5. SymbolsOf(account'.open) \subseteq SymbolsOf(account.open)
    BY <1>1 DEF SymbolsOf, SameOrder
  <1>6. WithinLimits'
    <2>1. Cardinality(SymbolsOf(account'.open)) <= MaxPositions
      <3>1. SymbolsOf(account.open) \subseteq Symbols
        BY <1>3, HeldSymbols
      <3>2. Cardinality(SymbolsOf(account.open)) <= MaxPositions
        BY DEF IInv, ReplayInv, WithinLimits
      <3> DEFINE A == SymbolsOf(account'.open)
                 B == SymbolsOf(account.open)
      <3>3. A \subseteq B /\ B \subseteq Symbols /\ Cardinality(B) <= MaxPositions
        BY <1>5, <3>1, <3>2
      <3> HIDE DEF A, B
      <3>4. Cardinality(A) <= MaxPositions
        BY <3>3, FewerSymbols, Constants
      <3> QED BY <3>4 DEF A
    <2>2. ASSUME NEW i \in DOMAIN account'.open
          PROVE  LET p == account'.open[i] IN
                 /\ p.qty * Distance(p.price, p.stop) <= DollarRisk
                 /\ p.qty * p.price <= MaxValue
      <3> DEFINE p == account'.open[i]
                 q == account.open[g[i]]
      <3>1. p.qty = q.qty /\ p.price = q.price /\ p.stop = q.stop
        BY <1>1 DEF SameOrder
      <3>2. q.qty * Distance(q.price, q.stop) <= DollarRisk /\ q.qty * q.price <= MaxValue
        BY <1>1 DEF IInv, ReplayInv, WithinLimits
      <3> HIDE DEF p, q
      <3>3. p.qty * Distance(p.price, p.stop) <= DollarRisk /\ p.qty * p.price <= MaxValue
        BY <3>1, <3>2
      <3> QED BY <3>3 DEF p
    <2> QED BY <2>1, <2>2 DEF WithinLimits
  <1>7. LedgerBalances'
    BY LedgerStep DEF IInv, ReplayInv, TypeOK, Booked
  <1>8. lastClose' = lastClose => ClosedDaily'
    BY <1>1 DEF IInv, ClosedDaily, SameOrder
  <1>9. ASSUME NEW s, NEW l, At(account, s, l) = {} PROVE At(account', s, l) = {}
    <2> SUFFICES ASSUME NEW i \in At(account', s, l) PROVE FALSE
      OBVIOUS
    <2>1. g[i] \in At(account, s, l)
      BY <1>1 DEF At, Of, SameOrder
    <2> QED BY <1>9, <2>1
  <1> QED BY <1>2, <1>4, <1>5, <1>6, <1>7, <1>8, <1>9

\* A step that leaves the account alone.
LEMMA AccountSame ==
    ASSUME IInv, account' = account
    PROVE  /\ OnePerKey' /\ Solvent' /\ WithinLimits' /\ LedgerBalances'
           /\ lastClose' = lastClose => ClosedDaily'
  <1>1. account' \in Accounts
    BY DEF IInv, ReplayInv, TypeOK
  <1>2. Thinned(account', account)
    BY ThinnedSelf
  <1>3. Booked(account', account)
    BY <1>1 DEF Booked, Accounts
  <1> QED BY <1>1, <1>2, <1>3, ThinnedKeeps

\* Without signals nothing is left to be bought.
LEMMA NothingLeft ==
    ASSUME bar'.signals = <<>>
    PROVE  FreshBuys' /\ OneSignalEach' /\ BuysHaveRoom'
  BY DEF FreshBuys, OneSignalEach, BuysHaveRoom

\* Between two bars nothing is left of the last one.
LEMMA IdleIsIdle ==
    ASSUME IInv, bar.pc = "idle" PROVE bar = IdleBar /\ bar.signals = <<>>
  <1>1. bar \in Bars \union {IdleBar}
    BY DEF IInv, ReplayInv, TypeOK
  <1> QED BY <1>1 DEF Bars, IdleBar

\* Earlier is a strict order of the times.
LEMMA EarlierOrder ==
    /\ \A r, s, t \in Time : Earlier(r, s) /\ Earlier(s, t) => Earlier(r, t)
    /\ \A t \in Time : ~Earlier(t, t)
  <1>1. \A t \in Time : t.day \in Nat /\ t.minute \in Nat
    BY DEF Time
  <1> HIDE DEF Time
  <1>2. \A t \in Time : ~Earlier(t, t)
    BY <1>1 DEF Earlier
  <1>3. ASSUME NEW r \in Time, NEW s \in Time, NEW t \in Time, Earlier(r, s), Earlier(s, t)
        PROVE  Earlier(r, t)
    <2>1. /\ r.day \in Nat /\ s.day \in Nat /\ t.day \in Nat
          /\ r.minute \in Nat /\ s.minute \in Nat /\ t.minute \in Nat
      BY <1>1
    <2> QED BY <1>3, <2>1 DEF Earlier
  <1> QED BY <1>2, <1>3

\* The replay starts with an empty account.
LEMMA InitInv == Init => IInv
  <1> SUFFICES ASSUME Init PROVE IInv
    OBVIOUS
  <1>1. /\ account = [cash |-> Equity0 * Unit, open |-> <<>>, realized |-> 0, lost |-> 0]
        /\ account.open = <<>> /\ bar = IdleBar /\ bar.signals = <<>>
    BY DEF Init, Account, IdleBar
  <1>2. Equity0 * Unit \in Nat
    BY Constants
  <1>3. account \in Accounts
    <2>1. <<>> \in Seq(Position) /\ 0 \in Int /\ Equity0 * Unit \in Int
      BY <1>2
    <2> HIDE DEF Position
    <2> QED BY <1>1, <2>1 DEF Accounts
  <1>4. TypeOK
    <2>1. prices \in [Symbols -> {0} \union Prices]
      BY DEF Init
    <2>2. now \in Time /\ lastClose \in Time
      BY DEF Init, Time
    <2> QED BY <1>1, <1>3, <2>1, <2>2 DEF Init, TypeOK, Regimes
  <1>5. OnePerKey /\ FreshBuys /\ OneSignalEach /\ BuysHaveRoom /\ ClosedDaily
    BY <1>1 DEF OnePerKey, FreshBuys, OneSignalEach, BuysHaveRoom, ClosedDaily
  <1>6. Solvent
    BY <1>1, <1>2 DEF Solvent
  <1>7. WithinLimits
    <2>1. SymbolsOf(account.open) = {}
      BY <1>1 DEF SymbolsOf
    <2>2. Cardinality(SymbolsOf(account.open)) = 0
      BY <2>1, FS_EmptySet
    <2> QED BY <1>1, <2>2, Constants DEF WithinLimits
  <1>8. LedgerBalances
    <2>1. Invested(account) = 0
      BY <1>1, <1>3, InvestedTyped DEF Accounts
    <2>2. account.cash = Equity0 * Unit /\ account.lost = 0 /\ account.realized = 0
      BY <1>1
    <2> QED BY <1>2, <2>1, <2>2 DEF LedgerBalances
  <1>9. CloseIsPast
    BY <1>1 DEF Init, CloseIsPast, Earlier, IdleBar
  <1> QED BY <1>4, <1>5, <1>6, <1>7, <1>8, <1>9 DEF IInv, ReplayInv

\* A later minute: no close can have been at it.
LEMMA NextMinuteStep == IInv /\ NextMinute => IInv'
  <1> SUFFICES ASSUME IInv, NextMinute PROVE IInv'
    OBVIOUS
  <1>1. TypeOK /\ CloseIsPast
    BY DEF IInv, ReplayInv
  <1>2. /\ now \in Time /\ lastClose \in Time /\ lastClose' = lastClose
        /\ bar' = bar /\ bar.pc = "idle" /\ account' = account /\ served' = {}
    BY <1>1 DEF TypeOK, NextMinute
  <1>3. now' \in Time /\ now'.day > 0 /\ Earlier(now, now')
    <2>1. PICK d \in {now.day, now.day + 1}, m \in Minutes :
             now' = [day |-> d, minute |-> m] /\ Earlier(now, now')
      BY DEF NextMinute
    <2>2. now.day \in Nat /\ now.day > 0
      BY <1>1, <1>2 DEF Time, CloseIsPast
    <2>3. d \in Nat /\ d > 0 /\ m \in 0 .. 1439
      BY <2>2, Constants
    <2> QED BY <2>1, <2>3 DEF Time
  <1>4. TypeOK'
    BY <1>1, <1>2, <1>3 DEF TypeOK, NextMinute
  <1>5. CloseIsPast'
    <2>1. Earlier(lastClose', now')
      BY <1>1, <1>2, <1>3, EarlierOrder DEF CloseIsPast
    <2> QED BY <1>1, <1>2, <1>3, <2>1 DEF CloseIsPast
  <1>6. FreshBuys' /\ OneSignalEach' /\ BuysHaveRoom'
    BY <1>2, IdleIsIdle, NothingLeft
  <1> QED BY <1>2, <1>4, <1>5, <1>6, AccountSame DEF IInv, ReplayInv

\* The close leaves no position and loses no shares.
LEMMA EndOfDayStep ==
    ASSUME IInv, NEW s \in Symbols, NEW close \in Prices, EndOfDayBar(s, close)
    PROVE  IInv' /\ account'.lost = account.lost
  <1>1. TypeOK /\ CloseIsPast /\ account \in Accounts
    BY DEF IInv, ReplayInv, TypeOK
  <1>2. /\ lastClose' = now /\ now' = now /\ bar' = bar /\ bar.pc = "idle"
        /\ EndOfDay(now.minute)
        /\ prices' = [prices EXCEPT ![s] = close] /\ account' = ForceCloseAll(account, prices')
    BY DEF EndOfDayBar
  <1>3. prices' \in [Symbols -> {0} \union Prices] /\ prices' \in [Symbols -> Nat]
    <2>1. prices \in [Symbols -> {0} \union Prices]
      BY <1>1 DEF TypeOK
    <2>2. prices' \in [Symbols -> {0} \union Prices]
      BY <1>2, <2>1
    <2>3. {0} \union Prices \subseteq Nat
      BY Constants
    <2> QED BY <2>2, <2>3
  <1>4. /\ account' \in Accounts /\ Booked(account', account)
        /\ account'.open = <<>> /\ account'.lost = account.lost
    BY <1>1, <1>2, <1>3, ClosedAll
  <1>5. Thinned(account', account)
    <2> DEFINE g == [k \in DOMAIN account'.open |-> k]
    <2>1. g \in [DOMAIN account'.open -> DOMAIN account.open]
      BY <1>4
    <2>2. DOMAIN account'.open = {}
      BY <1>4
    <2> HIDE DEF g
    <2> QED BY <2>1, <2>2 DEF Thinned
  <1>6. OnePerKey' /\ Solvent' /\ WithinLimits' /\ LedgerBalances'
    BY <1>4, <1>5, ThinnedKeeps
  <1>7. ClosedDaily'
    BY <1>4 DEF ClosedDaily
  <1>8. TypeOK'
    BY <1>1, <1>2, <1>3, <1>4 DEF TypeOK, EndOfDayBar
  <1>9. CloseIsPast'
    BY <1>1, <1>2 DEF CloseIsPast
  <1>10. FreshBuys' /\ OneSignalEach' /\ BuysHaveRoom'
    BY <1>2, IdleIsIdle, NothingLeft
  <1> QED BY <1>4, <1>6, <1>7, <1>8, <1>9, <1>10 DEF IInv, ReplayInv

\* Two positions of a symbol are more than one.
LEMMA TwoOfOne ==
    ASSUME NEW acc \in Accounts, NEW s, \E j, k \in Of(acc, s) : j # k
    PROVE  Cardinality(Of(acc, s)) > 1
  <1>1. IsFiniteSet(Of(acc, s))
    <2>1. acc.open \in Seq(Position)
      BY DEF Accounts
    <2>2. Of(acc, s) \subseteq 1 .. Len(acc.open) /\ Len(acc.open) \in Nat
      BY <2>1 DEF Of
    <2>3. IsFiniteSet(1 .. Len(acc.open))
      BY <2>2, FS_Interval
    <2> QED BY <2>2, <2>3, FS_Subset
  <1>2. PICK j \in Of(acc, s), k \in Of(acc, s) : j # k
    OBVIOUS
  <1>3. {j, k} \subseteq Of(acc, s) /\ Cardinality({j, k}) = 2
    <2>1. IsFiniteSet({j}) /\ Cardinality({j}) = 1
      BY FS_Singleton
    <2>2. {j, k} = {j} \union {k} /\ k \notin {j}
      BY <1>2
    <2>3. Cardinality({j, k}) = 1 + 1
      BY <2>1, <2>2, FS_AddElement
    <2> QED BY <2>3
  <1>4. Cardinality({j, k}) <= Cardinality(Of(acc, s)) /\ Cardinality(Of(acc, s)) \in Nat
    BY <1>1, <1>3, FS_Subset, FS_CardinalityType
  <1> QED BY <1>3, <1>4

\* What a step says about shares that vanish.
LossShared ==
    account'.lost # account.lost =>
        ~EndOfDay(now.minute) /\ \E s \in Symbols : Cardinality(Of(account, s)) > 1

\* A bar is stored, and at most one position is stopped out.
LEMMA BarArrivesStep ==
    ASSUME IInv, NEW s \in Symbols, NEW close \in Prices, NEW low \in Prices,
           BarArrives(s, low, close)
    PROVE  IInv' /\ LossShared
  <1>1. TypeOK /\ CloseIsPast /\ account \in Accounts
    BY DEF IInv, ReplayInv, TypeOK
  <1> DEFINE mid == UpdatePrices(account, s, close)
  <1>2. /\ lastClose' = lastClose /\ now' = now /\ ~EndOfDay(now.minute)
        /\ prices' = [prices EXCEPT ![s] = close]
        /\ account' = StoppedOut(mid, s, low, close)
        /\ bar' = [IdleBar EXCEPT !.pc = "dispatch", !.symbol = s, !.close = close]
        /\ served' = served \union {s} /\ cooling' = cooling
    BY DEF BarArrives
  <1>3. /\ mid \in Accounts /\ Thinned(mid, account) /\ Booked(mid, account)
        /\ mid.lost = account.lost
        /\ DOMAIN mid.open = DOMAIN account.open
        /\ \A k \in DOMAIN account.open : SameOrder(mid.open[k], account.open[k])
    BY <1>1, PricesUpdated
  <1> HIDE DEF mid
  <1>4. /\ account' \in Accounts /\ Thinned(account', mid) /\ Booked(account', mid)
        /\ account'.lost # mid.lost => \E j, k \in Of(mid, s) : j # k
    BY <1>2, <1>3, StopFacts
  <1>5. Thinned(account', account)
    BY <1>3, <1>4, ThinnedTwice
  <1>6. Booked(account', account)
    <2>1. account.cash \in Int /\ account'.cash \in Int /\ mid.cash \in Int
      BY <1>1, <1>3, <1>4 DEF Accounts
    <2> QED BY <1>3, <1>4, <2>1 DEF Booked
  <1>7. OnePerKey' /\ Solvent' /\ WithinLimits' /\ LedgerBalances' /\ ClosedDaily'
    BY <1>2, <1>4, <1>5, <1>6, ThinnedKeeps
  <1>8. bar' \in Bars /\ bar'.signals = <<>>
    <2>1. bar' = [pc |-> "dispatch", symbol |-> s, close |-> close, count |-> 0,
                  signals |-> <<>>]
      BY <1>2 DEF IdleBar
    <2>2. <<>> \in Seq(Signal) /\ 0 \in Nat
      OBVIOUS
    <2> QED BY <2>1, <2>2 DEF Bars
  <1>9. TypeOK'
    <2>1. prices' \in [Symbols -> {0} \union Prices]
      BY <1>1, <1>2 DEF TypeOK
    <2>2. opening' \subseteq Symbols /\ range' \subseteq Symbols
      BY <1>1 DEF BarArrives, Stored, TypeOK
    <2>3. regime' \in Regimes /\ regimeDay' \in Nat
      <3>1. RegimeUpdated /\ regime \in Regimes /\ regimeDay \in Nat /\ now.day \in Nat
        BY <1>1 DEF BarArrives, TypeOK, Time
      <3>2. \A v, above : Regime(v, above) \in Regimes
        BY DEF Regime, Regimes
      <3> QED BY <3>1, <3>2 DEF RegimeUpdated
    <2>4. served' \subseteq Symbols /\ cooling' \subseteq Symbols /\ now' \in Time /\ lastClose' \in Time
      BY <1>1, <1>2 DEF TypeOK
    <2> QED BY <1>4, <1>8, <2>1, <2>2, <2>3, <2>4 DEF TypeOK
  <1>10. CloseIsPast'
    BY <1>1, <1>2 DEF CloseIsPast
  <1>11. FreshBuys' /\ OneSignalEach' /\ BuysHaveRoom'
    BY <1>8, NothingLeft
  <1>12. LossShared
    <2> SUFFICES ASSUME account'.lost # account.lost
                 PROVE  \E t \in Symbols : Cardinality(Of(account, t)) > 1
      BY <1>2 DEF LossShared
    <2>1. PICK j \in Of(mid, s), k \in Of(mid, s) : j # k
      BY <1>3, <1>4
    <2>2. j \in Of(account, s) /\ k \in Of(account, s)
      BY <1>3, <2>1 DEF Of, SameOrder
    <2> QED BY <1>1, <2>1, <2>2, TwoOfOne
  <1> QED BY <1>7, <1>9, <1>10, <1>11, <1>12 DEF IInv, ReplayInv

\* What remains when the first signal has been acted on.
LEMMA RestOfSignals ==
    ASSUME IInv, bar.pc = "signals", bar.signals # <<>>, NextSignal
    PROVE  /\ bar \in Bars /\ bar' \in Bars /\ bar'.symbol = bar.symbol
           /\ Head(bar.signals) = bar.signals[1] /\ 1 \in DOMAIN bar.signals
           /\ \A i \in DOMAIN bar'.signals : /\ i + 1 \in DOMAIN bar.signals
                                             /\ i + 1 # 1
                                             /\ bar'.signals[i] = bar.signals[i + 1]
           /\ bar'.pc # "idle" /\ OneSignalEach'
  <1>1. bar \in Bars /\ OneSignalEach
    BY DEF IInv, ReplayInv, TypeOK, IdleBar
  <1> DEFINE q == bar.signals
             r == Tail(q)
  <1>2. q \in Seq(Signal) /\ q # <<>>
    BY <1>1 DEF Bars
  <1>3. bar' = [bar EXCEPT !.signals = r]
    BY DEF NextSignal
  <1>4. /\ r \in Seq(Signal) /\ Len(r) = Len(q) - 1 /\ Len(q) \in Nat \ {0}
        /\ \A i \in 1 .. Len(r) : r[i] = q[i + 1]
        /\ Head(q) = q[1]
    BY <1>2
  <1>5. bar'.signals = r /\ bar'.symbol = bar.symbol /\ bar'.pc = bar.pc /\ bar' \in Bars
    BY <1>1, <1>3, <1>4 DEF Bars
  <1>6. /\ 1 \in DOMAIN q
        /\ \A i \in DOMAIN r : i + 1 \in DOMAIN q /\ i + 1 # 1 /\ r[i] = q[i + 1] /\ i \in Nat
    BY <1>2, <1>4
  <1> HIDE DEF r
  <1>7. OneSignalEach'
    BY <1>1, <1>5, <1>6 DEF OneSignalEach
  <1> QED BY <1>1, <1>4, <1>5, <1>6, <1>7

\* Every BUY that passes finds a place for the symbol and no position of its layer.
LEMMA DispatchStep == IInv /\ Dispatch => IInv'
  <1> SUFFICES ASSUME IInv, Dispatch PROVE IInv'
    OBVIOUS
  <1>1. TypeOK /\ CloseIsPast /\ account \in Accounts
    BY DEF IInv, ReplayInv, TypeOK
  <1>2. /\ bar.pc = "dispatch" /\ account' = account /\ now' = now /\ lastClose' = lastClose
        /\ UNCHANGED <<served, prices, regime, regimeDay, opening, range>>
    BY DEF Dispatch
  <1>3. PICK emitted \in [LayerSet -> {"HOLD", "BUY", "EXIT"}], stopOut \in BOOLEAN :
           /\ cooling' = IF stopOut THEN cooling \union {bar.symbol} ELSE cooling
           /\ bar' = [bar EXCEPT !.pc = "signals", !.signals = Admitted(emitted),
                                 !.count = Len(account.open)]
    BY ZenonT(30) DEF Dispatch
  <1> DEFINE q == Admitted(emitted)
  <1>4. /\ q \in Seq(Signal) /\ \A i \in DOMAIN q : Admits(q[i])
        /\ \A i, j \in DOMAIN q : q[i].layer = q[j].layer => i = j
    BY AdmittedFacts
  <1>5. bar \in Bars
    BY <1>1, <1>2 DEF TypeOK, IdleBar
  <1> HIDE DEF q
  <1>6. /\ bar'.signals = q /\ bar'.symbol = bar.symbol /\ bar'.pc = "signals" /\ bar' \in Bars
    <2>1. Len(account.open) \in Nat
      BY <1>1 DEF Accounts
    <2>2. bar' = [bar EXCEPT !.pc = "signals", !.signals = q, !.count = Len(account.open)]
      BY <1>3 DEF q
    <2> QED BY <1>4, <1>5, <2>1, <2>2 DEF Bars
  <1>7. TypeOK'
    <2>1. bar.symbol \in Symbols /\ cooling' \subseteq Symbols
      BY <1>1, <1>3, <1>5 DEF Bars, TypeOK
    <2> QED BY <1>1, <1>2, <1>6, <2>1 DEF TypeOK
  <1>8. FreshBuys'
    <2>1. \A i \in DOMAIN q : q[i].side = "BUY" => At(account, bar.symbol, q[i].layer) = {}
      BY <1>4 DEF Admits
    <2> QED BY <1>2, <1>6, <2>1 DEF FreshBuys
  <1>9. OneSignalEach'
    BY <1>4, <1>6 DEF OneSignalEach
  <1>10. BuysHaveRoom'
    <2> SUFFICES ASSUME NEW i \in DOMAIN q, q[i].side = "BUY"
                 PROVE  Cardinality(SymbolsOf(account.open) \union {bar.symbol}) <= MaxPositions
      BY <1>2, <1>6 DEF BuysHaveRoom
    <2> DEFINE A == SymbolsOf(account.open)
               s == bar.symbol
    <2>1. ~AtMax
      BY <1>4 DEF Admits
    <2>2. ~(Cardinality(A) >= MaxPositions)
      BY <2>1 DEF AtMax
    <2>3. A \subseteq Symbols /\ s \in Symbols
      BY <1>1, <1>5, HeldSymbols DEF Bars
    <2> HIDE DEF A, s
    <2>4. IsFiniteSet(A) /\ Cardinality(A) \in Nat
      BY <2>3, FewerSymbols
    <2>5. Cardinality(A \union {s}) <= Cardinality(A) + 1 /\ Cardinality(A \union {s}) \in Nat
      <3>1. Cardinality(A \union {s}) =
               IF s \in A THEN Cardinality(A) ELSE Cardinality(A) + 1
        BY <2>4, FS_AddElement
      <3> QED BY <2>4, <3>1
    <2>6. Cardinality(A \union {s}) <= MaxPositions
      BY <2>2, <2>4, <2>5, Constants
    <2> QED BY <2>6 DEF A, s
  <1>11. CloseIsPast'
    BY <1>1, <1>2, <1>6 DEF CloseIsPast
  <1> QED BY <1>2, <1>7, <1>8, <1>9, <1>10, <1>11, AccountSame DEF IInv, ReplayInv

\* A layer exits: the first position of the symbol is sold.
LEMMA ExitStep == IInv /\ Exit => IInv' /\ LossShared
  <1> SUFFICES ASSUME IInv, Exit PROVE IInv' /\ LossShared
    OBVIOUS
  <1> DEFINE s    == bar.symbol
             l    == Head(bar.signals).layer
             mine == At(account, s, l)
             h    == First(mine)
             qty  == account.open[h].qty
             bid  == bar.close
  <1>1. TypeOK /\ CloseIsPast /\ FreshBuys /\ BuysHaveRoom
        /\ account \in Accounts /\ account.open \in Seq(Position)
    BY DEF IInv, ReplayInv, TypeOK, Accounts
  <1>2. /\ bar.pc = "signals" /\ bar.signals # <<>> /\ NextSignal
        /\ account' = IF mine = {} THEN account ELSE SubmitSell(account, s, qty, bid)
        /\ lastClose' = lastClose /\ now' = now
        /\ UNCHANGED <<served, prices, regime, regimeDay, opening, range, cooling>>
    BY DEF Exit
  <1>3. /\ bar \in Bars /\ bar' \in Bars /\ bar'.symbol = s
        /\ \A i \in DOMAIN bar'.signals : /\ i + 1 \in DOMAIN bar.signals
                                          /\ bar'.signals[i] = bar.signals[i + 1]
        /\ bar'.pc # "idle" /\ OneSignalEach'
    BY <1>2, RestOfSignals
  <1>4. mine # {} => h \in mine
    <2>1. mine \subseteq Nat
      BY <1>1 DEF At, Of
    <2> HIDE DEF mine
    <2> QED BY <2>1, FirstOne
  <1>5. /\ account' \in Accounts /\ Thinned(account', account) /\ Booked(account', account)
        /\ account'.lost # account.lost => \E j, k \in Of(account, s) : j # k
    <2>1. CASE mine = {}
      <3>1. account' = account
        BY <1>2, <2>1
      <3>2. Booked(account, account)
        BY <1>1 DEF Booked, Accounts
      <3> QED BY <1>1, <3>1, <3>2, ThinnedSelf
    <2>2. CASE mine # {}
      <3>1. h \in Of(account, s) /\ h \in DOMAIN account.open
        BY <1>4, <2>2 DEF At, Of
      <3>2. qty \in Nat /\ bid \in Nat
        <4>1. account.open[h] \in Position /\ bid \in Prices
          <5> HIDE DEF h
          <5> QED BY <1>1, <1>3, <3>1 DEF Bars
        <4>2. account.open[h].qty \in Nat
          <5> HIDE DEF h
          <5> QED BY <4>1, PositionTyped
        <4>3. bid \in Nat
          BY <4>1, Constants, ZenonT(30)
        <4> QED BY <4>2, <4>3
      <3>3. account' = SubmitSell(account, s, qty, bid)
        BY <1>2, <2>2
      <3> HIDE DEF h, bid
      <3>4. /\ account' \in Accounts /\ Thinned(account', account) /\ Booked(account', account)
            /\ First(Of(account, s)) \in Of(account, s)
            /\ qty = account.open[First(Of(account, s))].qty => account'.lost = account.lost
        BY <1>1, <3>1, <3>2, <3>3, Sold
      <3>5. First(Of(account, s)) = h => account'.lost = account.lost
        BY <3>4
      <3> QED BY <3>1, <3>4, <3>5
    <2> QED BY <2>1, <2>2
  <1> HIDE DEF s, l, mine, h, qty, bid
  <1>6. /\ OnePerKey' /\ Solvent' /\ WithinLimits' /\ LedgerBalances' /\ ClosedDaily'
        /\ SymbolsOf(account'.open) \subseteq SymbolsOf(account.open)
        /\ \A t, k : At(account, t, k) = {} => At(account', t, k) = {}
    BY <1>2, <1>5, ThinnedKeeps
  <1>7. TypeOK'
    BY <1>1, <1>2, <1>3, <1>5 DEF TypeOK
  <1>8. FreshBuys'
    BY <1>1, <1>3, <1>6 DEF FreshBuys, s
  <1>9. BuysHaveRoom'
    <2> SUFFICES ASSUME NEW i \in DOMAIN bar'.signals, bar'.signals[i].side = "BUY"
                 PROVE  Cardinality(SymbolsOf(account'.open) \union {bar'.symbol}) <= MaxPositions
      BY DEF BuysHaveRoom
    <2> DEFINE A == SymbolsOf(account'.open) \union {s}
               B == SymbolsOf(account.open) \union {s}
    <2>1. Cardinality(B) <= MaxPositions
      BY <1>1, <1>3 DEF BuysHaveRoom, s
    <2>2. A \subseteq B /\ B \subseteq Symbols
      BY <1>1, <1>3, <1>6, HeldSymbols DEF Bars, s
    <2>3. A = SymbolsOf(account'.open) \union {bar'.symbol}
      BY <1>3
    <2> HIDE DEF A, B
    <2>4. Cardinality(A) <= MaxPositions
      BY <2>1, <2>2, FewerSymbols, Constants
    <2> QED BY <2>3, <2>4
  <1>10. CloseIsPast'
    BY <1>1, <1>2, <1>3 DEF CloseIsPast
  <1>11. LossShared
    <2>1. ~EndOfDay(now.minute) /\ s \in Symbols
      BY <1>1, <1>2, <1>3 DEF CloseIsPast, Bars, s
    <2>2. account'.lost # account.lost => Cardinality(Of(account, s)) > 1
      BY <1>1, <1>5, TwoOfOne
    <2> QED BY <2>1, <2>2 DEF LossShared
  <1> QED BY <1>3, <1>6, <1>7, <1>8, <1>9, <1>10, <1>11 DEF IInv, ReplayInv

\* The last signal has been acted on.
LEMMA BarDoneStep == IInv /\ BarDone => IInv'
  <1> SUFFICES ASSUME IInv, BarDone PROVE IInv'
    OBVIOUS
  <1>1. TypeOK /\ CloseIsPast
    BY DEF IInv, ReplayInv
  <1>2. account' = account /\ lastClose' = lastClose /\ now' = now /\ bar' = IdleBar
    BY DEF BarDone
  <1>3. TypeOK'
    BY <1>1, <1>2 DEF TypeOK, BarDone
  <1>4. CloseIsPast'
    BY <1>1, <1>2 DEF CloseIsPast, IdleBar
  <1>5. FreshBuys' /\ OneSignalEach' /\ BuysHaveRoom'
    <2>1. bar'.signals = <<>>
      BY <1>2 DEF IdleBar
    <2> QED BY <2>1, NothingLeft
  <1> QED BY <1>2, <1>3, <1>4, <1>5, AccountSame DEF IInv, ReplayInv

\* Steps that touch neither the account, nor the bar, nor the clock.
LEMMA CooldownStep ==
    ASSUME IInv, cooling' \subseteq Symbols,
           UNCHANGED <<now, served, prices, account, regime, regimeDay, opening, range,
                       bar, lastClose>>
    PROVE  IInv'
  <1>1. TypeOK /\ CloseIsPast /\ FreshBuys /\ OneSignalEach /\ BuysHaveRoom
    BY DEF IInv, ReplayInv
  <1>2. account' = account /\ lastClose' = lastClose /\ now' = now /\ bar' = bar
    OBVIOUS
  <1>3. TypeOK'
    BY <1>1 DEF TypeOK
  <1>4. CloseIsPast' /\ FreshBuys' /\ OneSignalEach' /\ BuysHaveRoom'
    BY <1>1, <1>2 DEF CloseIsPast, FreshBuys, OneSignalEach, BuysHaveRoom
  <1> QED BY <1>2, <1>3, <1>4, AccountSame DEF IInv, ReplayInv

\* A BUY is filled or not; the later ones of the bar keep their place, since they are
\* for the same symbol and for other layers.
LEMMA BuyStep ==
    ASSUME IInv, NEW stop \in {0} \union Prices, Buy(stop)
    PROVE  IInv' /\ account'.lost = account.lost
  <1> DEFINE s   == bar.symbol
             g   == Head(bar.signals)
             qty == ComputeShares(bar.close, stop, Equity(account), account.cash,
                                  bar.count, Scalar(regime))
             p   == [symbol |-> s, layer |-> g.layer, price |-> bar.close, stop |-> stop,
                     qty |-> qty, current |-> bar.close, at |-> now]
  <1>1. /\ TypeOK /\ CloseIsPast /\ FreshBuys /\ BuysHaveRoom /\ OneSignalEach /\ OnePerKey
        /\ Solvent /\ WithinLimits /\ LedgerBalances /\ ClosedDaily
        /\ account \in Accounts /\ account.open \in Seq(Position) /\ account.cash \in Int
    BY DEF IInv, ReplayInv, TypeOK, Accounts
  <1>2. /\ bar.pc = "signals" /\ bar.signals # <<>> /\ g.side = "BUY" /\ NextSignal
        /\ account' = SubmitBuy(account, p)
        /\ lastClose' = lastClose /\ now' = now
        /\ UNCHANGED <<served, prices, regime, regimeDay, opening, range, cooling>>
    BY DEF Buy
  <1>3. /\ bar \in Bars /\ bar' \in Bars /\ bar'.symbol = s
        /\ g = bar.signals[1] /\ 1 \in DOMAIN bar.signals
        /\ \A i \in DOMAIN bar'.signals : /\ i + 1 \in DOMAIN bar.signals /\ i + 1 # 1
                                          /\ bar'.signals[i] = bar.signals[i + 1]
        /\ bar'.pc # "idle" /\ OneSignalEach'
    BY <1>2, RestOfSignals
  <1>4. /\ s \in Symbols /\ bar.close \in Prices /\ bar.count \in Nat
        /\ g \in Signal /\ g.layer \in LayerSet /\ now \in Time
    <2>1. bar.signals \in Seq(Signal)
      BY <1>3 DEF Bars
    <2>2. g \in Signal
      BY <1>3, <2>1
    <2> QED BY <1>1, <1>3, <2>2 DEF Bars, Signal, TypeOK
  <1>5. /\ qty \in Nat
        /\ qty * Distance(bar.close, stop) <= DollarRisk
        /\ qty * bar.close <= MaxValue
    <2>1. Equity(account) \in Int
      BY <1>1, EquityTyped
    <2>2. account.cash \in Nat
      BY <1>1 DEF Solvent
    <2>3. Scalar(regime) \in 0 .. 100
      <3>1. regime \in Regimes
        BY <1>1 DEF TypeOK
      <3> QED BY <3>1, Constants DEF Scalar, Regimes
    <2> QED BY <1>4, <2>1, <2>2, <2>3, Sized
  <1> HIDE DEF qty
  <1>6. p \in Position
    BY <1>4, <1>5 DEF Position
  <1>7. /\ p.symbol = s /\ p.layer = g.layer /\ p.price = bar.close /\ p.stop = stop
        /\ p.qty = qty /\ p.at = now
    OBVIOUS
  <1> HIDE DEF p, s, g
  <1>8. At(account, p.symbol, p.layer) = {}
    BY <1>1, <1>2, <1>3, <1>7 DEF FreshBuys, s
  <1>9. /\ account' \in Accounts /\ Ledger(account') = Ledger(account) /\ account'.cash >= 0
        /\ account'.lost = account.lost
        /\ account' = account \/ account'.open = Append(account.open, p)
    BY <1>1, <1>2, <1>6, <1>8, Bought DEF Solvent
  <1> DEFINE n == Len(account.open)
  <1>10. /\ n \in Nat /\ DOMAIN account.open = 1 .. n
         /\ \/ account' = account
            \/ /\ DOMAIN account'.open = 1 .. n + 1
               /\ account'.open[n + 1] = p
               /\ \A i \in 1 .. n : account'.open[i] = account.open[i]
    BY <1>1, <1>6, <1>9
  <1> HIDE DEF n
  <1>11. \A i \in DOMAIN account'.open :
            \/ account'.open[i] = p
            \/ i \in DOMAIN account.open /\ account'.open[i] = account.open[i]
    BY <1>10
  <1>12. \A i, j \in DOMAIN account'.open :
            account'.open[i] = p /\ account'.open[j] = p => i = j \/ account' = account
    <2>1. \A i \in 1 .. n : account.open[i] # p
      BY <1>8, <1>10 DEF At, Of
    <2> QED BY <1>10, <2>1
  <1>13. SymbolsOf(account'.open) \union {s} \subseteq SymbolsOf(account.open) \union {s}
    BY <1>7, <1>11 DEF SymbolsOf
  <1>14. TypeOK'
    BY <1>1, <1>2, <1>3, <1>9 DEF TypeOK
  <1>15. OnePerKey'
    <2>1. CASE account' = account
      BY <1>1, <2>1 DEF OnePerKey
    <2>2. CASE account' # account
      <3> SUFFICES ASSUME NEW i \in DOMAIN account'.open, NEW j \in DOMAIN account'.open,
                          account'.open[i].symbol = account'.open[j].symbol,
                          account'.open[i].layer = account'.open[j].layer
                   PROVE  i = j
        BY DEF OnePerKey
      <3>1. \A k \in DOMAIN account.open :
               ~(account.open[k].symbol = p.symbol /\ account.open[k].layer = p.layer)
        BY <1>8 DEF At, Of
      <3> QED BY <1>1, <1>11, <1>12, <2>2, <3>1 DEF OnePerKey
    <2> QED BY <2>1, <2>2
  <1>16. FreshBuys'
    <2> SUFFICES ASSUME NEW i \in DOMAIN bar'.signals, bar'.signals[i].side = "BUY",
                        NEW k \in At(account', s, bar'.signals[i].layer)
                 PROVE  FALSE
      BY <1>3 DEF FreshBuys
    <2> DEFINE l == bar'.signals[i].layer
    <2>1. /\ i + 1 \in DOMAIN bar.signals /\ i + 1 # 1
          /\ bar.signals[i + 1].side = "BUY" /\ l = bar.signals[i + 1].layer
      BY <1>3
    <2>2. l # g.layer
      BY <1>1, <1>3, <2>1 DEF OneSignalEach
    <2>3. At(account, s, l) = {}
      BY <1>1, <2>1 DEF FreshBuys, s
    <2> HIDE DEF l
    <2>4. k \in DOMAIN account'.open /\ account'.open[k].symbol = s /\ account'.open[k].layer = l
      BY DEF At, Of, l
    <2>5. CASE account'.open[k] = p
      BY <1>7, <2>2, <2>4, <2>5
    <2>6. CASE k \in DOMAIN account.open /\ account'.open[k] = account.open[k]
      BY <2>3, <2>4, <2>6 DEF At, Of
    <2> QED BY <1>11, <2>4, <2>5, <2>6
  <1> DEFINE B == SymbolsOf(account.open) \union {s}
  <1>17. Cardinality(B) <= MaxPositions /\ B \subseteq Symbols
    <2>1. SymbolsOf(account.open) \subseteq Symbols
      BY <1>1, HeldSymbols
    <2>2. Cardinality(B) <= MaxPositions
      BY <1>1, <1>2, <1>3 DEF BuysHaveRoom, s
    <2> QED BY <1>4, <2>1, <2>2
  <1>18. BuysHaveRoom'
    <2> DEFINE A == SymbolsOf(account'.open) \union {s}
    <2>1. A \subseteq B
      BY <1>13
    <2>2. Cardinality(A) <= MaxPositions
      <3> HIDE DEF A, B
      <3> QED BY <1>17, <2>1, FewerSymbols, Constants
    <2> QED BY <1>3, <2>2 DEF BuysHaveRoom
  <1>19. WithinLimits'
    <2> DEFINE A == SymbolsOf(account'.open)
    <2>1. A \subseteq B
      BY <1>13
    <2>2. Cardinality(A) <= MaxPositions
      <3> HIDE DEF A, B
      <3> QED BY <1>17, <2>1, FewerSymbols, Constants
    <2>3. p.qty * Distance(p.price, p.stop) <= DollarRisk /\ p.qty * p.price <= MaxValue
      BY <1>5, <1>7
    <2>4. \A i \in DOMAIN account.open :
             /\ account.open[i].qty * Distance(account.open[i].price, account.open[i].stop)
                   <= DollarRisk
             /\ account.open[i].qty * account.open[i].price <= MaxValue
      BY <1>1 DEF WithinLimits
    <2>5. ASSUME NEW i \in DOMAIN account'.open
          PROVE  LET q == account'.open[i] IN
                 /\ q.qty * Distance(q.price, q.stop) <= DollarRisk
                 /\ q.qty * q.price <= MaxValue
      <3>1. CASE account'.open[i] = p
        BY <2>3, <3>1
      <3>2. CASE i \in DOMAIN account.open /\ account'.open[i] = account.open[i]
        BY <2>4, <3>2
      <3> QED BY <1>11, <3>1, <3>2
    <2> QED BY <2>2, <2>5 DEF WithinLimits
  <1>20. Solvent' /\ LedgerBalances'
    BY <1>1, <1>9, LedgerStep DEF Solvent
  <1>21. ClosedDaily'
    <2>1. Earlier(lastClose, now)
      <3>1. ~EndOfDay(now.minute) /\ now.day > 0
        BY <1>1, <1>2 DEF CloseIsPast
      <3>2. lastClose # now
        BY <1>1, <3>1 DEF CloseIsPast
      <3> QED BY <1>1, <3>2 DEF CloseIsPast
    <2> SUFFICES ASSUME NEW i \in DOMAIN account'.open
                 PROVE  Earlier(lastClose, account'.open[i].at)
      BY <1>2 DEF ClosedDaily
    <2>2. CASE account'.open[i] = p
      BY <1>7, <2>1, <2>2
    <2>3. CASE i \in DOMAIN account.open /\ account'.open[i] = account.open[i]
      BY <1>1, <2>3 DEF ClosedDaily
    <2> QED BY <1>11, <2>2, <2>3
  <1>22. CloseIsPast'
    BY <1>1, <1>2, <1>3 DEF CloseIsPast
  <1> QED BY <1>3, <1>9, <1>14, <1>15, <1>16, <1>18, <1>19, <1>20, <1>21, <1>22
         DEF IInv, ReplayInv

-----------------------------------------------------------------------------
\* Every step keeps the invariant and loses shares only where a symbol is shared.
LEMMA StepInv == IInv /\ [Next]_vars => IInv' /\ LossShared
  <1> SUFFICES ASSUME IInv, [Next]_vars PROVE IInv' /\ LossShared
    OBVIOUS
  <1>0. TypeOK
    BY DEF IInv, ReplayInv
  <1>1. ASSUME account' = account PROVE LossShared
    BY <1>1 DEF LossShared
  <1>2. CASE NextMinute
    BY <1>1, <1>2, NextMinuteStep DEF NextMinute
  <1>3. ASSUME NEW s \in Symbols, NEW close \in Prices, EndOfDayBar(s, close)
        PROVE  IInv' /\ LossShared
    BY <1>3, EndOfDayStep DEF LossShared
  <1>4. ASSUME NEW s \in Symbols, NEW close \in Prices, NEW low \in Prices,
               BarArrives(s, low, close)
        PROVE  IInv' /\ LossShared
    BY <1>4, BarArrivesStep
  <1>5. CASE Dispatch
    BY <1>1, <1>5, DispatchStep, ZenonT(30) DEF Dispatch
  <1>6. ASSUME NEW stop \in {0} \union Prices, Buy(stop) PROVE IInv' /\ LossShared
    BY <1>6, BuyStep DEF LossShared
  <1>7. CASE Exit
    BY <1>7, ExitStep
  <1>8. CASE BarDone
    BY <1>1, <1>8, BarDoneStep DEF BarDone
  <1>9. ASSUME NEW s \in Symbols, CooldownEnds(s) PROVE IInv' /\ LossShared
    <2>1. cooling' \subseteq Symbols
      BY <1>0, <1>9 DEF CooldownEnds, TypeOK
    <2> QED BY <1>1, <1>9, <2>1, CooldownStep DEF CooldownEnds
  <1>10. CASE UNCHANGED vars
    <2>1. cooling' \subseteq Symbols
      BY <1>0, <1>10 DEF vars, TypeOK
    <2> QED BY <1>1, <1>10, <2>1, CooldownStep DEF vars
  <1> QED BY <1>2, <1>3, <1>4, <1>5, <1>6, <1>7, <1>8, <1>9, <1>10 DEF Next

\* The inductive invariant holds.
LEMMA InvHolds == Spec => []IInv
  <1>1. IInv /\ [Next]_vars => IInv'
    BY StepInv
  <1> QED BY InitInv, <1>1, PTL DEF Spec

\* The replay keeps one position for a layer and a symbol, never spends money it has
\* not got, holds no more symbols than it may and none beyond its caps, and its books
\* balance, whatever the layers signal and however prices move.
THEOREM ReplayCorrect == Spec => []ReplayInv
  <1>1. IInv => ReplayInv
    BY DEF IInv
  <1> QED BY InvHolds, <1>1, PTL

\* After a close, every position that is held was opened later.
THEOREM ClosedCorrect == Spec => []ClosedDaily
  <1>1. IInv => ClosedDaily
    BY DEF IInv
  <1> QED BY InvHolds, <1>1, PTL

\* Shares leave the account unsold only in a step outside the close, when two layers
\* hold one symbol.
THEOREM SharingCorrect == Spec => LossNeedsSharing
  <1>1. IInv /\ [Next]_vars =>
           [account'.lost # account.lost =>
              /\ ~EndOfDay(now.minute)
              /\ \E s \in Symbols : Cardinality(Of(account, s)) > 1]_vars
    BY StepInv DEF LossShared
  <1> QED BY InvHolds, <1>1, PTL DEF Spec, LossNeedsSharing

=============================================================================
