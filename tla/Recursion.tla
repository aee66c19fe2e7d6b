------------------------------- MODULE Recursion -------------------------------
(***************************************************************************)
(* Induction on naturals for sets, and the functions that recursion on a   *)
(* natural defines.                                                        *)
(*                                                                         *)
(* It is done through least elements: a set of naturals that is not empty  *)
(* has one, so that a least counterexample can be refuted by its           *)
(* predecessor.                                                            *)
(***************************************************************************)
EXTENDS Integers, WellFoundedInduction, TLAPS

(* Every nonempty set of naturals has a least element. *)
LEMMA LeastElement ==
  ASSUME NEW T, T \subseteq Nat, T # {}
  PROVE  \E m \in T : \A k \in T : m <= k
  <1>. DEFINE R == OpToRel(<, Nat)
  <1>1. IsWellFoundedOn(R, Nat)
    BY NatLessThanWellFounded
  <1>2. \A i, j \in Nat : i < j => << i, j >> \in R
    BY DEF OpToRel
  <1>. HIDE DEF R
  <1>3. PICK m \in T : \A k \in T : << k, m >> \notin R
    BY <1>1, WFMin
  <1>4. \A k \in T : k \in Nat /\ m \in Nat /\ ~(k < m)
    BY <1>2, <1>3
  <1>5. \A k \in T : m <= k
    BY <1>4
  <1>. QED BY <1>5

(* A set of naturals that has 0, and with a number its successor, has all. *)
LEMMA Induction ==
  ASSUME NEW T, 0 \in T, \A n \in Nat : n \in T => n + 1 \in T
  PROVE  Nat \subseteq T
  <1>. SUFFICES ASSUME Nat \ T # {} PROVE FALSE
    OBVIOUS
  <1>1. PICK m \in Nat \ T : \A k \in Nat \ T : m <= k
    BY LeastElement
  <1>2. m # 0 /\ m - 1 \in Nat /\ m - 1 \notin T
    BY <1>1
  <1>. QED BY <1>1, <1>2

(* The same up to a bound. *)
LEMMA BoundedInduction ==
  ASSUME NEW N \in Nat, NEW T, 0 \in T, \A n \in 0 .. N - 1 : n \in T => n + 1 \in T
  PROVE  0 .. N \subseteq T
  <1>. DEFINE U == {n \in Nat : n <= N => n \in T}
  <1>1. 0 \in U
    OBVIOUS
  <1>2. \A n \in Nat : n \in U => n + 1 \in U
    OBVIOUS
  <1>3. Nat \subseteq U
    <2>. HIDE DEF U
    <2>. QED BY <1>1, <1>2, Induction
  <1>. QED BY <1>3

-----------------------------------------------------------------------------
(* f starts with x and follows the steps F up to n. *)
FollowsUpTo(f, x, F, n) == f[0] = x /\ \A k \in 1 .. n : f[k] = F[k][f[k - 1]]

(* A step on S for each number of N. *)
Steps(F, N, S) == F \in [N -> [S -> S]]

(* There is a function with a given start and given steps. *)
LEMMA RecursionExists ==
  ASSUME NEW S, NEW x \in S, NEW F, Steps(F, Nat, S)
  PROVE  \E h \in [Nat -> S] :
            /\ h[0] = x
            /\ \A n \in Nat \ {0} : h[n] = F[n][h[n - 1]]
  <1>. USE DEF Steps
  <1>. DEFINE T == {n \in Nat : \E f \in [Nat -> S] : FollowsUpTo(f, x, F, n)}
  <1>1. 0 \in T
    <2>1. FollowsUpTo([n \in Nat |-> x], x, F, 0)
      BY DEF FollowsUpTo
    <2>2. [n \in Nat |-> x] \in [Nat -> S]
      OBVIOUS
    <2>. QED BY <2>1, <2>2
  <1>2. ASSUME NEW n \in Nat, n \in T PROVE n + 1 \in T
    <2>1. PICK f \in [Nat -> S] : FollowsUpTo(f, x, F, n)
      BY <1>2
    <2>. DEFINE g == [k \in Nat |-> IF k <= n THEN f[k] ELSE F[n + 1][f[n]]]
    <2>2. F[n + 1] \in [S -> S] /\ f[n] \in S
      OBVIOUS
    <2>3. F[n + 1][f[n]] \in S
      BY <2>2
    <2>4. g \in [Nat -> S]
      BY <2>3
    <2>5. FollowsUpTo(g, x, F, n + 1)
      <3>1. g[0] = x
        BY <2>1 DEF FollowsUpTo
      <3>2. ASSUME NEW k \in 1 .. n PROVE g[k] = F[k][g[k - 1]]
        BY <2>1 DEF FollowsUpTo
      <3>3. g[n + 1] = F[n + 1][g[n]]
        OBVIOUS
      <3>4. \A k \in 1 .. n + 1 : k \in 1 .. n \/ (k = n + 1 /\ k - 1 = n)
        OBVIOUS
      <3>. HIDE DEF g
      <3>. QED BY <3>1, <3>2, <3>3, <3>4 DEF FollowsUpTo
    <2>. QED BY <2>4, <2>5
  <1>3. \A n \in Nat : \E f \in [Nat -> S] : FollowsUpTo(f, x, F, n)
    <2>. HIDE DEF T
    <2>1. Nat \subseteq T
      BY <1>1, <1>2, Induction
    <2>. QED BY <2>1 DEF T
  <1>4. ASSUME NEW m \in Nat, NEW n \in Nat, m <= n,
               NEW f \in [Nat -> S], FollowsUpTo(f, x, F, m),
               NEW g \in [Nat -> S], FollowsUpTo(g, x, F, n)
        PROVE  f[m] = g[m]
    <2>. DEFINE U == {k \in Nat : k <= m => f[k] = g[k]}
    <2>1. 0 \in U
      BY <1>4 DEF FollowsUpTo
    <2>2. ASSUME NEW k \in Nat, k \in U PROVE k + 1 \in U
      <3>. SUFFICES ASSUME k + 1 <= m PROVE f[k + 1] = g[k + 1]
        OBVIOUS
      <3>1. f[k] = g[k]
        BY <2>2
      <3>2. k + 1 \in 1 .. m /\ k + 1 \in 1 .. n /\ (k + 1) - 1 = k
        BY <1>4
      <3>3. f[k + 1] = F[k + 1][f[k]] /\ g[k + 1] = F[k + 1][g[k]]
        BY <1>4, <3>2 DEF FollowsUpTo
      <3>. QED BY <3>1, <3>3
    <2>3. Nat \subseteq U
      <3>. HIDE DEF U
      <3>. QED BY <2>1, <2>2, Induction
    <2>. QED BY <2>3
  <1>. DEFINE sol(n) == CHOOSE f \in [Nat -> S] : FollowsUpTo(f, x, F, n)
              h == [n \in Nat |-> sol(n)[n]]
  <1>5. \A n \in Nat : sol(n) \in [Nat -> S] /\ FollowsUpTo(sol(n), x, F, n)
    BY <1>3
  <1>. HIDE DEF sol
  <1>6. h \in [Nat -> S]
    BY <1>5
  <1>7. ASSUME NEW n \in Nat
        PROVE  h[n] = IF n = 0 THEN x ELSE F[n][h[n - 1]]
    <2>1. CASE n = 0
      BY <1>5, <2>1 DEF FollowsUpTo
    <2>2. CASE n # 0
      <3>1. n - 1 \in Nat /\ n - 1 <= n /\ n \in 1 .. n
        BY <2>2
      <3>2. sol(n)[n - 1] = sol(n - 1)[n - 1]
        BY <1>4, <1>5, <3>1
      <3>3. sol(n)[n] = F[n][sol(n)[n - 1]]
        BY <1>5, <3>1 DEF FollowsUpTo
      <3>. QED BY <2>2, <3>1, <3>2, <3>3
    <2>. QED BY <2>1, <2>2
  <1>8. h[0] = x /\ \A n \in Nat \ {0} : h[n] = F[n][h[n - 1]]
    <2>. HIDE DEF h
    <2>. QED BY <1>7
  <1>. HIDE DEF h
  <1>. QED BY <1>6, <1>8

(* A function on a set can be iterated from any of its points. *)
LEMMA IterationExists ==
  ASSUME NEW S, NEW x \in S, NEW F \in [S -> S]
  PROVE  \E h \in [Nat -> S] :
            /\ h[0] = x
            /\ \A n \in Nat \ {0} : h[n] = F[h[n - 1]]
  <1>. DEFINE G == [n \in Nat |-> F]
  <1>1. Steps(G, Nat, S) /\ \A n \in Nat : G[n] = F
    BY DEF Steps
  <1>. HIDE DEF G
  <1>2. PICK h \in [Nat -> S] :
               h[0] = x /\ \A n \in Nat \ {0} : h[n] = G[n][h[n - 1]]
    BY <1>1, RecursionExists
  <1>3. \A n \in Nat \ {0} : h[n] = F[h[n - 1]]
    BY <1>1, <1>2
  <1>. QED BY <1>2, <1>3

(* The same as RecursionExists for finitely many steps. *)
LEMMA BoundedRecursionExists ==
  ASSUME NEW S, NEW x \in S, NEW N \in Nat, NEW F, Steps(F, 1 .. N, S)
  PROVE  \E h \in [0 .. N -> S] :
            h[0] = x /\ \A n \in 1 .. N : h[n] = F[n][h[n - 1]]
  <1>. DEFINE same == [s \in S |-> s]
              G == [n \in Nat |-> IF n \in 1 .. N THEN F[n] ELSE same]
  <1>1. same \in [S -> S]
    OBVIOUS
  <1>2. Steps(G, Nat, S) /\ \A n \in 1 .. N : G[n] = F[n]
    <2>. HIDE DEF same
    <2>. QED BY <1>1 DEF Steps
  <1>. HIDE DEF G
  <1>3. PICK h \in [Nat -> S] :
               h[0] = x /\ \A n \in Nat \ {0} : h[n] = G[n][h[n - 1]]
    BY <1>2, RecursionExists
  <1>. DEFINE g == [n \in 0 .. N |-> h[n]]
  <1>4. g \in [0 .. N -> S] /\ g[0] = x
    BY <1>3
  <1>5. ASSUME NEW n \in 1 .. N
        PROVE  g[n] = F[n][g[n - 1]]
    <2>1. h[n] = F[n][h[n - 1]]
      BY <1>2, <1>3
    <2>2. g[n - 1] = h[n - 1] /\ g[n] = h[n]
      OBVIOUS
    <2>. QED BY <2>1, <2>2
  <1>. HIDE DEF g
  <1>. QED BY <1>4, <1>5
===============================================================================
