----------------------------- MODULE Induction -----------------------------
(***************************************************************************)
(* Induction over numbers and finite sets, and what a fold computes, with  *)
(* sets and functions in place of predicates and operators.                *)
(***************************************************************************)
EXTENDS Integers, FiniteSetsExt, FiniteSetTheorems, TLAPS

\* A set of numbers that is not empty has a least one.
LEMMA Least ==
  ASSUME NEW T, T \subseteq Nat, T # {}
  PROVE  \E m \in T : \A k \in T : m <= k
<1> DEFINE R == {p \in Nat \X Nat : p[1] < p[2]}
<1>1. R = OpToRel(<, Nat)
  BY DEF OpToRel
<1>2. IsWellFoundedOn(R, Nat)
  BY <1>1, NatLessThanWellFounded
<1> HIDE DEF R
<1>3. PICK m \in T : \A k \in T : <<k, m>> \notin R
  BY <1>2, WFMin
<1>4. \A k \in T : ~(k < m)
  BY <1>3 DEF R
<1>5. m \in Nat /\ \A k \in T : k \in Nat
  OBVIOUS
<1> QED
  BY <1>4, <1>5

\* A set of finite sets that holds the empty set, and every set from which it
\* holds what is left without any one element, holds every finite set.
LEMMA SetInduction ==
  ASSUME NEW S, IsFiniteSet(S), NEW P, {} \in P,
         \A s \in SUBSET S : s # {} /\ (\A x \in s : s \ {x} \in P) => s \in P
  PROVE  \A s \in SUBSET S : s \in P
<1> SUFFICES ASSUME NEW t \in SUBSET S, t \notin P PROVE FALSE
  OBVIOUS
<1> DEFINE Bad == {s \in SUBSET S : s \notin P}
           Sizes == {Cardinality(s) : s \in Bad}
<1>1. \A s \in SUBSET S : IsFiniteSet(s) /\ Cardinality(s) \in Nat
  BY FS_Subset, FS_CardinalityType
<1>2. Sizes \subseteq Nat /\ Sizes # {}
  BY <1>1
<1> HIDE DEF Sizes
<1>3. PICK m \in Sizes : \A k \in Sizes : m <= k
  BY <1>2, Least
<1>4. PICK s \in Bad : m = Cardinality(s)
  BY <1>3 DEF Sizes
<1>5. PICK x \in s : s \ {x} \notin P
  BY <1>4
<1>6. Cardinality(s \ {x}) = m - 1 /\ s \ {x} \in SUBSET S
  BY <1>1, <1>4, FS_RemoveElement
<1>7. s \ {x} \in Bad
  BY <1>5, <1>6
<1>8. Cardinality(s \ {x}) \in Sizes
  BY <1>7 DEF Sizes
<1> QED
  BY <1>2, <1>3, <1>6, <1>8

\* A set that holds 0, and the successor of each number it holds, holds every
\* number.
LEMMA NumberInduction ==
  ASSUME NEW P, 0 \in P, \A n \in Nat : n \in P => n + 1 \in P
  PROVE  \A n \in Nat : n \in P
<1> SUFFICES ASSUME NEW n \in Nat, n \notin P PROVE FALSE
  OBVIOUS
<1> DEFINE Bad == {k \in Nat : k \notin P}
<1>1. PICK m \in Bad : \A k \in Bad : m <= k
  <2>1. Bad \subseteq Nat /\ Bad # {}
    OBVIOUS
  <2> HIDE DEF Bad
  <2> QED BY <2>1, Least
<1>2. m # 0 /\ m - 1 \in Nat
  OBVIOUS
<1>3. m - 1 \notin Bad
  BY <1>1, <1>2
<1>4. (m - 1) + 1 \in P
  BY <1>2, <1>3
<1> QED
  BY <1>4

\* A fold over a finite set S: c chooses the element of what is left, and g is
\* what is done with it.
Folds(S, V, base, c, g) == /\ IsFiniteSet(S) /\ base \in V
                           /\ \A s \in SUBSET S : s # {} => c[s] \in s
                           /\ \A s \in SUBSET S, v \in V : g[s][v] \in V

\* What is made of every part of S on the way.
FoldOf(it, S, V, base, c, g) == /\ it \in [SUBSET S -> V]
                                /\ \A s \in SUBSET S : it[s] = IF s = {} THEN base ELSE g[s][it[s \ {c[s]}]]

\* There is a function that such a fold recurs on.
LEMMA FoldExists ==
  ASSUME NEW S, NEW V, NEW base, NEW c, NEW g, Folds(S, V, base, c, g)
  PROVE  \E it : FoldOf(it, S, V, base, c, g)
<1> USE DEF Folds, FoldOf
<1> DEFINE Upto(n) == {s \in SUBSET S : Cardinality(s) <= n}
           Good(it, n) == /\ it \in [Upto(n) -> V]
                          /\ \A s \in Upto(n) : it[s] = IF s = {} THEN base ELSE g[s][it[s \ {c[s]}]]
           P == {n \in Nat : \E it : Good(it, n)}
<1>1. \A s \in SUBSET S : IsFiniteSet(s) /\ Cardinality(s) \in Nat /\ (Cardinality(s) = 0 <=> s = {})
  BY FS_Subset, FS_CardinalityType, FS_EmptySet
<1>2. \A n \in Nat : \A s \in Upto(n + 1) : s # {} => s \ {c[s]} \in Upto(n)
  <2> TAKE n \in Nat
  <2> TAKE s \in Upto(n + 1)
  <2> HAVE s # {}
  <2>1. Cardinality(s \ {c[s]}) = Cardinality(s) - 1
    BY <1>1, FS_RemoveElement
  <2>2. s \ {c[s]} \in SUBSET S /\ Cardinality(s) \in Nat /\ Cardinality(s) <= n + 1
    BY <1>1
  <2>3. Cardinality(s) - 1 <= n
    BY <2>2
  <2> QED BY <2>1, <2>2, <2>3
<1>3. 0 \in P
  <2> DEFINE it == [s \in Upto(0) |-> base]
  <2>1. \A s \in Upto(0) : s = {}
    BY <1>1
  <2>2. Good(it, 0)
    BY <2>1
  <2> QED BY <2>2
<1>4. ASSUME NEW n \in Nat, n \in P PROVE n + 1 \in P
  <2>1. PICK it : Good(it, n)
    BY <1>4
  <2> DEFINE next == [s \in Upto(n + 1) |-> IF s = {} THEN base ELSE g[s][it[s \ {c[s]}]]]
  <2>2. \A s \in Upto(n) : s \in Upto(n + 1) /\ next[s] = it[s]
    <3> TAKE s \in Upto(n)
    <3>1. s \in Upto(n + 1)
      BY <1>1
    <3> QED BY <2>1, <3>1
  <2>3. next \in [Upto(n + 1) -> V]
    <3>1. \A s \in Upto(n + 1) : s # {} => it[s \ {c[s]}] \in V
      BY <1>2, <2>1
    <3>2. \A s \in Upto(n + 1) : s # {} => g[s][it[s \ {c[s]}]] \in V
      BY <3>1
    <3> QED BY <3>2
  <2>4. \A s \in Upto(n + 1) : s # {} => next[s \ {c[s]}] = it[s \ {c[s]}]
    BY <1>2, <2>2
  <2>5. \A s \in Upto(n + 1) : next[s] = IF s = {} THEN base ELSE g[s][next[s \ {c[s]}]]
    BY <2>4
  <2> HIDE DEF next
  <2>6. Good(next, n + 1)
    BY <2>3, <2>5
  <2>7. \E jt : Good(jt, n + 1)
    BY <2>6
  <2> HIDE DEF Good, Upto
  <2>8. n + 1 \in Nat
    OBVIOUS
  <2> QED BY <2>7, <2>8
<1> HIDE DEF P
<1>5. Cardinality(S) \in P
  BY <1>1, <1>3, <1>4, NumberInduction
<1>6. PICK it : Good(it, Cardinality(S))
  BY <1>5 DEF P
<1>7. Upto(Cardinality(S)) = SUBSET S
  <2>1. \A s \in SUBSET S : Cardinality(s) <= Cardinality(S)
    BY FS_Subset
  <2> QED BY <2>1
<1> QED
  BY <1>6, <1>7

-----------------------------------------------------------------------------
(* The ends of a set of numbers *)

\* The least number of a set, ...
LEMMA MinFacts ==
  ASSUME NEW s, s \subseteq Nat, s # {}
  PROVE  Min(s) \in s /\ \A k \in s : Min(s) <= k
BY Least DEF Min

\* ... and the greatest.
LEMMA MaxFacts ==
  ASSUME NEW n \in Nat, NEW s, s \subseteq 0 .. n, s # {}
  PROVE  Max(s) \in s /\ \A k \in s : k <= Max(s)
<1> DEFINE T == {m \in Nat : \E k \in s : m = n - k}
<1>1. \A k \in s : k \in Nat /\ k <= n /\ n - k \in T
  OBVIOUS
<1>2. T \subseteq Nat /\ T # {}
  BY <1>1
<1> HIDE DEF T
<1>3. PICK m \in T : \A k \in T : m <= k
  BY <1>2, Least
<1>4. PICK x \in s : m = n - x
  BY <1>3 DEF T
<1>5. \A k \in s : n - x <= n - k
  BY <1>1, <1>3, <1>4
<1>6. \A k \in s : k <= x
  BY <1>1, <1>5
<1> QED
  BY <1>6 DEF Max

-----------------------------------------------------------------------------
(* Iteration *)

\* g can be applied N times from base.
Repeats(N, V, base, g) == N \in Nat /\ base \in V /\ \A v \in V : g[v] \in V

\* What is made of base on the way.
IterationOf(it, N, V, base, g) == /\ it \in [0 .. N -> V]
                                  /\ \A n \in 0 .. N : it[n] = IF n = 0 THEN base ELSE g[it[n - 1]]

\* There is a function that applies g again and again.
LEMMA IterationExists ==
  ASSUME NEW N, NEW V, NEW base, NEW g, Repeats(N, V, base, g)
  PROVE  \E it : IterationOf(it, N, V, base, g)
<1> USE DEF Repeats, IterationOf
<1> DEFINE Good(it, n) == /\ it \in [0 .. n -> V]
                          /\ \A k \in 0 .. n : it[k] = IF k = 0 THEN base ELSE g[it[k - 1]]
           P == {n \in Nat : \E it : Good(it, n)}
<1>1. 0 \in P
  <2> DEFINE it == [n \in 0 .. 0 |-> base]
  <2>1. Good(it, 0)
    OBVIOUS
  <2> QED BY <2>1
<1>2. ASSUME NEW n \in Nat, n \in P PROVE n + 1 \in P
  <2>1. PICK it : Good(it, n)
    BY <1>2
  <2> DEFINE more == [k \in 0 .. n + 1 |-> IF k \in 0 .. n THEN it[k] ELSE g[it[n]]]
  <2>2. more \in [0 .. n + 1 -> V]
    BY <2>1
  <2>3. ASSUME NEW k \in 0 .. n + 1 PROVE more[k] = IF k = 0 THEN base ELSE g[more[k - 1]]
    <3>1. CASE k \in 0 .. n
      <4>1. k # 0 => k - 1 \in 0 .. n /\ k - 1 \in 0 .. n + 1
        BY <3>1
      <4> QED BY <2>1, <3>1, <4>1
    <3>2. CASE k = n + 1
      <4>1. k \notin 0 .. n /\ k # 0 /\ k - 1 = n /\ n \in 0 .. n + 1 /\ n \in 0 .. n
        BY <3>2
      <4> QED BY <4>1
    <3> QED BY <3>1, <3>2
  <2> HIDE DEF more
  <2>4. Good(more, n + 1)
    BY <2>2, <2>3
  <2>5. \E jt : Good(jt, n + 1)
    BY <2>4
  <2> HIDE DEF Good
  <2>6. n + 1 \in Nat
    OBVIOUS
  <2> QED BY <2>5, <2>6
<1> HIDE DEF P
<1>3. N \in P
  BY <1>1, <1>2, NumberInduction
<1> QED
  BY <1>3 DEF P

\* g gives back every subset of the finite set S that it has grown from base, in
\* no more steps than N, and more of a larger one.
Grows(S, N, base, g) == /\ IsFiniteSet(S) /\ N \in Nat /\ Cardinality(S) <= N
                        /\ base \in SUBSET S /\ base \subseteq g[base]
                        /\ \A X, Y \in SUBSET S : X \subseteq Y => g[X] \subseteq g[Y] /\ g[Y] \subseteq S

\* r is the least set that holds base and what g makes of it, and g makes no
\* more of it.
Rests(S, base, g, r) == /\ r \in SUBSET S /\ base \subseteq r /\ g[r] = r
                        /\ \A T \in SUBSET S : base \subseteq T /\ g[T] \subseteq T => r \subseteq T

\* A growing iteration over the subsets of a finite set has come to rest after
\* as many steps as the set has elements, at the least set that holds where it
\* began and what g makes of it.
LEMMA IterationSettles ==
  ASSUME NEW S, NEW N, NEW g, NEW base, Grows(S, N, base, g),
         NEW it, IterationOf(it, N, SUBSET S, base, g)
  PROVE  Rests(S, base, g, it[N])
<1>a. IsFiniteSet(S) /\ N \in Nat /\ Cardinality(S) <= N
  BY DEF Grows
<1>b. \A X, Y \in SUBSET S : X \subseteq Y => g[X] \subseteq g[Y] /\ g[Y] \subseteq S
  BY DEF Grows
<1>c. it \in [0 .. N -> SUBSET S]
  BY DEF IterationOf
<1>d. it[0] = base /\ it[0] \subseteq g[it[0]]
  BY <1>a DEF Grows, IterationOf
<1>e. \A n \in 0 .. N : n # 0 => it[n] = g[it[n - 1]]
  BY DEF IterationOf
<1> USE <1>a, <1>b, <1>c, <1>d, <1>e
<1> DEFINE Growing == {n \in Nat : n \in 0 .. N => /\ it[n] \subseteq g[it[n]]
                                                   /\ g[it[n]] = it[n] \/ Cardinality(it[n]) >= n}
<1>0. \A n \in 0 .. N : it[n] \in SUBSET S /\ IsFiniteSet(it[n]) /\ Cardinality(it[n]) \in Nat
                        /\ Cardinality(it[n]) <= Cardinality(S)
  <2> TAKE n \in 0 .. N
  <2>1. it[n] \in SUBSET S
    OBVIOUS
  <2> QED BY <2>1, FS_Subset, FS_CardinalityType
<1>1. 0 \in Growing
  BY <1>0
<1>2. ASSUME NEW n \in Nat, n \in Growing PROVE n + 1 \in Growing
  <2> SUFFICES ASSUME n + 1 \in 0 .. N
               PROVE  /\ it[n + 1] \subseteq g[it[n + 1]]
                      /\ g[it[n + 1]] = it[n + 1] \/ Cardinality(it[n + 1]) >= n + 1
    OBVIOUS
  <2>1. n \in 0 .. N /\ n + 1 # 0 /\ (n + 1) - 1 = n
    OBVIOUS
  <2>2. it[n + 1] = g[it[n]] /\ it[n] \subseteq it[n + 1]
    BY <1>2, <2>1
  <2>3. it[n + 1] \subseteq g[it[n + 1]]
    BY <1>0, <2>1, <2>2
  <2>4. CASE g[it[n]] = it[n]
    BY <2>2, <2>3, <2>4
  <2>5. CASE g[it[n]] # it[n] /\ Cardinality(it[n]) >= n
    <3>1. Cardinality(it[n]) < Cardinality(it[n + 1])
      <4>1. Cardinality(it[n]) <= Cardinality(it[n + 1]) /\
            (Cardinality(it[n]) = Cardinality(it[n + 1]) => it[n] = it[n + 1])
        BY <1>0, <2>2, FS_Subset
      <4> QED BY <1>0, <2>1, <2>2, <2>5, <4>1
    <3> QED BY <1>0, <2>1, <2>3, <2>5, <3>1
  <2> QED
    BY <1>2, <2>1, <2>4, <2>5
<1>3. \A n \in Nat : n \in Growing
  <2> HIDE DEF Growing
  <2> QED BY <1>1, <1>2, NumberInduction
<1>4. g[it[N]] = it[N]
  <2>1. N \in 0 .. N /\ N \in Growing
    BY <1>3
  <2>2. CASE Cardinality(it[N]) >= N
    <3>1. Cardinality(it[N]) = Cardinality(S)
      BY <1>0, <2>1, <2>2, FS_CardinalityType
    <3>2. it[N] = S
      BY <1>0, <2>1, <3>1, FS_Subset
    <3>3. g[S] \subseteq S
      BY S \in SUBSET S
    <3> QED BY <2>1, <3>2, <3>3
  <2> QED BY <2>1, <2>2
<1>5. \A n \in 0 .. N : it[n] \subseteq it[N]
  <2> DEFINE P == {k \in Nat : k \in 0 .. N => it[N - k] \subseteq it[N]}
  <2>1. 0 \in P
    OBVIOUS
  <2>2. ASSUME NEW k \in Nat, k \in P PROVE k + 1 \in P
    <3> SUFFICES ASSUME k + 1 \in 0 .. N PROVE it[N - (k + 1)] \subseteq it[N]
      OBVIOUS
    <3> DEFINE m == N - (k + 1)
    <3>1. m \in 0 .. N /\ m \in Nat /\ m + 1 \in 0 .. N /\ m + 1 # 0 /\ (m + 1) - 1 = m /\ m + 1 = N - k /\ k \in 0 .. N
      OBVIOUS
    <3>2. it[m] \subseteq it[m + 1]
      BY <1>3, <3>1
    <3> QED BY <2>2, <3>1, <3>2
  <2> HIDE DEF P
  <2>3. \A k \in Nat : k \in P
    BY <2>1, <2>2, NumberInduction
  <2> TAKE n \in 0 .. N
  <2>4. N - n \in Nat /\ N - n \in 0 .. N /\ N - (N - n) = n
    OBVIOUS
  <2> QED BY <2>3, <2>4 DEF P
<1>6. ASSUME NEW T \in SUBSET S, it[0] \subseteq T, g[T] \subseteq T PROVE it[N] \subseteq T
  <2> DEFINE P == {n \in Nat : n \in 0 .. N => it[n] \subseteq T}
  <2>1. 0 \in P
    BY <1>6
  <2>2. ASSUME NEW n \in Nat, n \in P PROVE n + 1 \in P
    <3> SUFFICES ASSUME n + 1 \in 0 .. N PROVE it[n + 1] \subseteq T
      OBVIOUS
    <3>1. n \in 0 .. N /\ n + 1 # 0 /\ (n + 1) - 1 = n
      OBVIOUS
    <3>2. it[n] \subseteq T /\ it[n + 1] = g[it[n]]
      BY <2>2, <3>1
    <3>3. g[it[n]] \subseteq g[T]
      BY <1>0, <3>1, <3>2
    <3> QED BY <1>6, <3>2, <3>3
  <2> HIDE DEF P
  <2>3. N \in P
    BY <2>1, <2>2, NumberInduction
  <2> QED BY <2>3 DEF P
<1>7. N \in 0 .. N /\ 0 \in 0 .. N
  OBVIOUS
<1> QED
  BY <1>4, <1>5, <1>6, <1>7 DEF Rests

-----------------------------------------------------------------------------
(* Chains *)

\* In n steps, step k by g[k]; after k steps what there is is in T[k].
Chained(T, N, base, g) == /\ N \in Nat /\ base \in T[0]
                          /\ \A n \in 1 .. N : \A v \in T[n - 1] : g[n][v] \in T[n]

ChainOf(it, N, base, g) == it = [n \in 0 .. N |-> IF n = 0 THEN base ELSE g[n][it[n - 1]]]

\* What holds at first and is kept by every step holds after every number of them.
LEMMA ChainKeeps ==
  ASSUME NEW T, NEW N \in Nat, NEW it, it[0] \in T[0], \A n \in 1 .. N : it[n - 1] \in T[n - 1] => it[n] \in T[n]
  PROVE  \A n \in 0 .. N : it[n] \in T[n]
<1> DEFINE P == {n \in Nat : n <= N => it[n] \in T[n]}
<1>1. 0 \in P
  OBVIOUS
<1>2. ASSUME NEW n \in Nat, n \in P PROVE n + 1 \in P
  <2> SUFFICES ASSUME n + 1 <= N PROVE it[n + 1] \in T[n + 1]
    OBVIOUS
  <2>1. n <= N /\ n + 1 \in 1 .. N /\ (n + 1) - 1 = n
    OBVIOUS
  <2>2. it[n] \in T[n]
    BY <1>2, <2>1
  <2>3. it[(n + 1) - 1] \in T[(n + 1) - 1]
    BY <2>1, <2>2
  <2> QED BY <2>1, <2>3
<1> HIDE DEF P
<1>3. \A n \in Nat : n \in P
  BY <1>1, <1>2, NumberInduction
<1> QED BY <1>3 DEF P

\* There is a chain, and it stays where it should.
LEMMA ChainExists ==
  ASSUME NEW T, NEW N, NEW base, NEW g, Chained(T, N, base, g)
  PROVE  \E it : ChainOf(it, N, base, g) /\ \A n \in 0 .. N : it[n] \in T[n]
<1> DEFINE P == {n \in Nat : \E it : ChainOf(it, n, base, g)}
<1>1. 0 \in P
  <2> DEFINE it == [n \in 0 .. 0 |-> base]
  <2>1. ChainOf(it, 0, base, g)
    BY DEF ChainOf
  <2> QED BY <2>1
<1>2. ASSUME NEW n \in Nat, n \in P PROVE n + 1 \in P
  <2>1. PICK it : ChainOf(it, n, base, g)
    BY <1>2
  <2> DEFINE more == [k \in 0 .. n + 1 |-> IF k \in 0 .. n THEN it[k] ELSE g[n + 1][it[n]]]
  <2>2. ASSUME NEW k \in 0 .. n + 1 PROVE more[k] = IF k = 0 THEN base ELSE g[k][more[k - 1]]
    <3>1. CASE k \in 0 .. n
      <4>1. k # 0 => k - 1 \in 0 .. n /\ k - 1 \in 0 .. n + 1
        BY <3>1
      <4>2. it[k] = IF k = 0 THEN base ELSE g[k][it[k - 1]]
        BY <2>1, <3>1 DEF ChainOf
      <4> QED BY <3>1, <4>1, <4>2
    <3>2. CASE k = n + 1
      <4>1. k \notin 0 .. n /\ k # 0 /\ k - 1 = n /\ n \in 0 .. n + 1 /\ n \in 0 .. n
        BY <3>2
      <4> QED BY <3>2, <4>1
    <3> QED BY <3>1, <3>2
  <2>3. ChainOf(more, n + 1, base, g)
    <3>1. more = [k \in 0 .. n + 1 |-> more[k]]
      OBVIOUS
    <3> HIDE DEF more
    <3>2. [k \in 0 .. n + 1 |-> more[k]] = [k \in 0 .. n + 1 |-> IF k = 0 THEN base ELSE g[k][more[k - 1]]]
      BY <2>2
    <3> QED BY <3>1, <3>2 DEF ChainOf
  <2>4. \E jt : ChainOf(jt, n + 1, base, g)
    BY <2>3
  <2>5. n + 1 \in Nat
    OBVIOUS
  <2> QED BY <2>4, <2>5
<1> HIDE DEF P
<1>3. N \in Nat /\ N \in P
  BY <1>1, <1>2, NumberInduction DEF Chained
<1>4. PICK it : ChainOf(it, N, base, g)
  BY <1>3 DEF P
<1>5. it[0] = base /\ \A n \in 1 .. N : it[n] = g[n][it[n - 1]]
  BY <1>3, <1>4 DEF ChainOf
<1>6. it[0] \in T[0] /\ \A n \in 1 .. N : it[n - 1] \in T[n - 1] => it[n] \in T[n]
  BY <1>5 DEF Chained
<1>7. \A n \in 0 .. N : it[n] \in T[n]
  BY <1>3, <1>6, ChainKeeps
<1> QED BY <1>4, <1>7
=============================================================================
