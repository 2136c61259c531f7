----------------------------- MODULE FoldLemmas -----------------------------
(***************************************************************************)
(* Induction and recursion for the proofs about sums, folds and symbol     *)
(* tables.  The induction theorems of the library quantify over operators; *)
(* the facts below say the same of sets and functions, which the provers   *)
(* can instantiate, and rest on the least element that theorem WFMin gives *)
(* for every set of numbers.                                               *)
(***************************************************************************)
EXTENDS Integers, FiniteSets, FiniteSetTheorems, TLAPS

LEMMA LeastElement ==
  ASSUME NEW S \in SUBSET Nat, S # {}
  PROVE  \E n \in S : \A m \in S : n <= m
<1> DEFINE Less == OpToRel(<, Nat)
<1>1. IsWellFoundedOn(Less, Nat)
  BY NatLessThanWellFounded
<1>2. PICK n \in S : \A m \in S : <<m, n>> \notin Less
  <2> HIDE DEF Less
  <2> QED  BY <1>1, WFMin
<1>3. \A m \in S : ~(m < n)
  BY <1>2 DEF OpToRel
<1> QED  BY <1>3

LEMMA Induction ==
  ASSUME NEW G, 0 \in G, \A n \in Nat : n \in G => n + 1 \in G
  PROVE  Nat \subseteq G
<1> DEFINE B == Nat \ G
<1> SUFFICES ASSUME B # {} PROVE FALSE
  OBVIOUS
<1>1. PICK n \in B : \A m \in B : n <= m
  BY LeastElement
<1>2. n - 1 \in Nat /\ n - 1 \in G
  BY <1>1
<1> QED  BY <1>2

\* g has its first value and makes each value of the one before it with h.
Recurs(g, m, base, h) == \A n \in 0 .. m :
    g[n] = IF n = 0 THEN base ELSE h[<<n, g[n - 1]>>]

\* A function on 0 .. m is determined by its first value and by what it makes
\* of each value.
LEMMA NatRecursion ==
  ASSUME NEW m \in Nat, NEW V, NEW base \in V, NEW h \in [Nat \X V -> V]
  PROVE  \E g \in [0 .. m -> V] : Recurs(g, m, base, h)
<1> DEFINE Solves(g, k) == g = [n \in 0 .. k |->
              IF n = 0 THEN base ELSE h[<<n, g[n - 1]>>]]
           G == {k \in Nat : \E g \in [0 .. k -> V] : Solves(g, k)}
<1>1. 0 \in G
  <2> DEFINE g == [n \in 0 .. 0 |-> base]
  <2>1. g \in [0 .. 0 -> V] /\ Solves(g, 0)
    OBVIOUS
  <2> QED  BY <2>1
<1>2. ASSUME NEW k \in Nat, k \in G PROVE k + 1 \in G
  <2>1. PICK f \in [0 .. k -> V] : Solves(f, k)
    BY <1>2
  <2> DEFINE g == [n \in 0 .. k + 1 |-> IF n = 0 THEN base ELSE h[<<n, f[n - 1]>>]]
  <2>2. g \in [0 .. k + 1 -> V]
    <3> SUFFICES ASSUME NEW n \in 0 .. k + 1, n # 0 PROVE h[<<n, f[n - 1]>>] \in V
      OBVIOUS
    <3>1. n \in Nat /\ n - 1 \in 0 .. k
      OBVIOUS
    <3> QED  BY <3>1
  <2>3. \A n \in 0 .. k : g[n] = f[n]
    BY <2>1
  <2>4. ASSUME NEW n \in 0 .. k + 1, n # 0 PROVE g[n] = h[<<n, g[n - 1]>>]
    <3>1. n - 1 \in 0 .. k
      BY <2>4
    <3> QED  BY <2>3, <2>4, <3>1
  <2>5. Solves(g, k + 1)
    BY <2>4
  <2> QED
    <3> HIDE DEF Solves, g
    <3> QED  BY <2>2, <2>5
<1> HIDE DEF Solves
<1>3. Nat \subseteq G
  <2> HIDE DEF G
  <2> QED  BY <1>1, <1>2, Induction
<1> QED  BY <1>3 DEF Solves, Recurs

\* Induction over the subsets of a finite set, by their number of elements.
LEMMA SubsetInduction ==
  ASSUME NEW S, IsFiniteSet(S), NEW G, {} \in G,
         \A T \in SUBSET S, x \in S : T \in G /\ x \notin T => T \cup {x} \in G
  PROVE  SUBSET S \subseteq G
<1> DEFINE H == {n \in Nat : \A T \in SUBSET S : Cardinality(T) = n => T \in G}
<1>0. \A T \in SUBSET S : IsFiniteSet(T) /\ Cardinality(T) \in Nat
  BY FS_Subset, FS_CardinalityType
<1>1. 0 \in H
  BY <1>0, FS_EmptySet
<1>2. ASSUME NEW n \in Nat, n \in H PROVE n + 1 \in H
  <2> SUFFICES ASSUME NEW T \in SUBSET S, Cardinality(T) = n + 1 PROVE T \in G
    OBVIOUS
  <2>0. IsFiniteSet(T) /\ Cardinality(T) = n + 1
    BY <1>0
  <2>1. T # {}
    <3>1. Cardinality({}) = 0
      BY FS_EmptySet
    <3> QED  BY <2>0, <3>1
  <2>2. PICK x \in T : TRUE
    BY <2>1
  <2>3. Cardinality(T \ {x}) = n
    <3>1. Cardinality(T \ {x}) = Cardinality(T) - 1
      BY <2>0, <2>2, FS_RemoveElement
    <3> QED  BY <2>0, <3>1
  <2>4. T \ {x} \in G
    BY <1>2, <2>3
  <2>5. T = (T \ {x}) \cup {x}
    BY <2>2
  <2> QED  BY <2>2, <2>4, <2>5
<1>3. Nat \subseteq H
  <2> HIDE DEF H
  <2> QED  BY <1>1, <1>2, Induction
<1> QED  BY <1>0, <1>3

\* c says which element of each subset of S to take first.
Chooses(c, S) == \A T \in SUBSET S : T # {} => c[T] \in T

\* g folds every subset of S with h, in the order of c.
Folds(g, S, base, c, h) == \A T \in SUBSET S :
    g[T] = IF T = {} THEN base ELSE h[<<c[T], g[T \ {c[T]}]>>]

\* A fold over the subsets of a finite set, whatever element is chosen first.
LEMMA FoldExists ==
  ASSUME NEW S, IsFiniteSet(S), NEW V, NEW base \in V, NEW c, Chooses(c, S),
         NEW h \in [S \X V -> V]
  PROVE  \E g \in [SUBSET S -> V] : Folds(g, S, base, c, h)
<1> USE DEF Chooses
<1> DEFINE D(n) == {T \in SUBSET S : Cardinality(T) <= n}
           Solves(g, n) == g = [T \in D(n) |->
              IF T = {} THEN base ELSE h[<<c[T], g[T \ {c[T]}]>>]]
           G == {n \in Nat : \E g \in [D(n) -> V] : Solves(g, n)}
<1>0. \A T \in SUBSET S : IsFiniteSet(T) /\ Cardinality(T) \in Nat
  BY FS_Subset, FS_CardinalityType
<1>1. 0 \in G
  <2>1. D(0) = {{}}
    BY <1>0, FS_EmptySet
  <2> DEFINE g == [T \in D(0) |-> base]
  <2>2. g \in [D(0) -> V] /\ Solves(g, 0)
    BY <2>1
  <2> QED
    <3> HIDE DEF Solves, g, D
    <3> QED  BY <2>2
<1>2. ASSUME NEW n \in Nat, n \in G PROVE n + 1 \in G
  <2>1. PICK f \in [D(n) -> V] : Solves(f, n)
    BY <1>2
  <2> DEFINE g == [T \in D(n + 1) |->
                     IF T = {} THEN base ELSE h[<<c[T], f[T \ {c[T]}]>>]]
  <2>2. \A T \in D(n + 1) : T # {} => c[T] \in S /\ T \ {c[T]} \in D(n)
    BY <1>0, FS_RemoveElement
  <2>3. g \in [D(n + 1) -> V]
    BY <2>2
  <2>4. ASSUME NEW T \in D(n) PROVE T \in D(n + 1) /\ g[T] = f[T]
    <3>1. T \in D(n + 1)
      BY <1>0
    <3>2. f[T] = IF T = {} THEN base ELSE h[<<c[T], f[T \ {c[T]}]>>]
      BY <2>1
    <3> QED  BY <3>1, <3>2
  <2>5. Solves(g, n + 1)
    BY <2>2, <2>4
  <2> QED
    <3> HIDE DEF Solves, g, D
    <3> QED  BY <2>3, <2>5
<1>3. Nat \subseteq G
  <2> HIDE DEF G
  <2> QED  BY <1>1, <1>2, Induction
<1>4. Cardinality(S) \in Nat /\ D(Cardinality(S)) = SUBSET S
  BY <1>0, FS_Subset
<1>5. \E g \in [D(Cardinality(S)) -> V] : Solves(g, Cardinality(S))
  BY <1>3, <1>4
<1>6. PICK g \in [SUBSET S -> V] : Solves(g, Cardinality(S))
  <2> HIDE DEF Solves, D
  <2> QED  BY <1>4, <1>5
<1>7. Folds(g, S, base, c, h)
  <2> HIDE DEF D
  <2> QED  BY <1>4, <1>6 DEF Folds
<1> QED  BY <1>7
-----------------------------------------------------------------------------
(* Sums.  The library adds the elements up in the order a CHOOSE takes them. *)

\* g has the sum of f over every subset of S: any element can be taken first.
IsTotal(g, f, S) == /\ g \in [SUBSET S -> Int]
                    /\ g[{}] = 0
                    /\ \A T \in SUBSET S : \A x \in T : g[T] = f[x] + g[T \ {x}]

IntValued(f, S) == \A x \in S : f[x] \in Int

\* The sum of f over S.
Total(f, S) == (CHOOSE g : IsTotal(g, f, S))[S]

\* g is a sum that takes the elements of each subset as CHOOSE does.
Chosen(T) == CHOOSE x \in T : TRUE
Accumulates(g, f, S) == g = [T \in SUBSET S |->
    IF T = {} THEN 0 ELSE f[Chosen(T)] + g[T \ {Chosen(T)}]]

LEMMA SumExists ==
  ASSUME NEW S, IsFiniteSet(S), NEW f, IntValued(f, S)
  PROVE  \E g \in [SUBSET S -> Int] : Accumulates(g, f, S)
<1> USE DEF IntValued
<1> DEFINE c == [T \in SUBSET S |-> Chosen(T)]
           h == [p \in S \X Int |-> f[p[1]] + p[2]]
<1>1. \A T \in SUBSET S : T # {} => c[T] = Chosen(T) /\ c[T] \in T
  BY DEF Chosen
<1>2. h \in [S \X Int -> Int]
  OBVIOUS
<1>3. \A x \in S, n \in Int : h[<<x, n>>] = f[x] + n
  OBVIOUS
<1> HIDE DEF c, h
<1>4. PICK g \in [SUBSET S -> Int] : Folds(g, S, 0, c, h)
  <2> DEFINE V == Int
  <2>1. Chooses(c, S) /\ 0 \in V /\ h \in [S \X V -> V]
    BY <1>1, <1>2 DEF Chooses
  <2> HIDE DEF V
  <2>2. \E g \in [SUBSET S -> V] : Folds(g, S, 0, c, h)
    BY <2>1, FoldExists
  <2> QED  BY <2>2 DEF V
<1>5. ASSUME NEW T \in SUBSET S, T # {}
      PROVE  h[<<c[T], g[T \ {c[T]}]>>] = f[Chosen(T)] + g[T \ {Chosen(T)}]
  <2>1. c[T] \in S /\ g[T \ {c[T]}] \in Int /\ c[T] = Chosen(T)
    BY <1>1, <1>5
  <2> QED  BY <1>3, <2>1
<1>6. g = [T \in SUBSET S |->
             IF T = {} THEN 0 ELSE f[Chosen(T)] + g[T \ {Chosen(T)}]]
  BY <1>4, <1>5 DEF Folds
<1> QED  BY <1>6 DEF Accumulates

LEMMA SumIsTotal ==
  ASSUME NEW S, IsFiniteSet(S), NEW f, IntValued(f, S),
         NEW g, Accumulates(g, f, S)
  PROVE  IsTotal(g, f, S)
<1> USE DEF IntValued
<1> DEFINE Good(T) == /\ g[T] \in Int
                      /\ \A x \in T : g[T] = f[x] + g[T \ {x}]
           G == {T \in SUBSET S : Good(T)}
           H == {n \in Nat : \A T \in SUBSET S : Cardinality(T) <= n => T \in G}
<1>0. \A T \in SUBSET S : IsFiniteSet(T) /\ Cardinality(T) \in Nat
  BY FS_Subset, FS_CardinalityType
<1>a. {} \in G
  BY DEF Accumulates
<1>1. 0 \in H
  <2>1. \A T \in SUBSET S : Cardinality(T) <= 0 => T = {}
    BY <1>0, FS_EmptySet
  <2> QED  BY <1>a, <2>1
<1>2. ASSUME NEW n \in Nat, n \in H,
             NEW T \in SUBSET S, Cardinality(T) <= n + 1, T # {}
      PROVE  T \in G
  <2>1. ASSUME NEW U \in SUBSET T, U # T PROVE Good(U)
    <3>1. Cardinality(U) < Cardinality(T)
      BY <1>0, <2>1, FS_Subset
    <3>2. U \in SUBSET S /\ Cardinality(U) <= n
      BY <1>0, <1>2, <3>1
    <3>3. U \in G
      <4> HIDE DEF G
      <4> QED  BY <1>2, <3>2
    <3> QED  BY <3>3
  <2> DEFINE c == Chosen(T)
  <2>2. c \in T /\ c \in S /\ g[T] = f[c] + g[T \ {c}]
    BY <1>2 DEF Accumulates, Chosen
  <2> HIDE DEF c
  <2>3. g[T] \in Int
    BY <2>1, <2>2
  <2>4. ASSUME NEW x \in T, x # c PROVE g[T] = f[x] + g[T \ {x}]
    <3>1. g[T \ {c}] = f[x] + g[(T \ {c}) \ {x}]
      BY <2>1, <2>2, <2>4
    <3>2. g[T \ {x}] = f[c] + g[(T \ {x}) \ {c}]
      BY <2>1, <2>2, <2>4
    <3>3. g[T \ {x}] = f[c] + g[(T \ {c}) \ {x}]
      <4>1. (T \ {x}) \ {c} = (T \ {c}) \ {x}
        OBVIOUS
      <4> QED  BY <3>2, <4>1
    <3>4. g[(T \ {c}) \ {x}] \in Int
      BY <2>1, <2>2
    <3>5. f[x] \in Int /\ f[c] \in Int
      BY <2>2
    <3> HIDE DEF Good
    <3> QED  BY <2>2, <3>1, <3>3, <3>4, <3>5
  <2> QED  BY <2>2, <2>3, <2>4
<1>3. Nat \subseteq H
  <2>1. ASSUME NEW n \in Nat, n \in H PROVE n + 1 \in H
    <3> HIDE DEF G
    <3>1. {} \in G /\ n + 1 \in Nat
      BY <1>a
    <3> QED  BY <1>2, <2>1, <3>1
  <2> HIDE DEF H
  <2> QED  BY <1>1, <2>1, Induction
<1>4. ASSUME NEW T \in SUBSET S PROVE Good(T)
  <2>1. T \in G
    <3> HIDE DEF G
    <3> QED  BY <1>0, <1>3
  <2> QED  BY <2>1
<1> QED  BY <1>4 DEF Accumulates, IsTotal

LEMMA TotalUnique ==
  ASSUME NEW S, IsFiniteSet(S), NEW A, NEW B, S \subseteq A, S \subseteq B,
         NEW f, NEW e, \A x \in S : f[x] = e[x],
         NEW g, IsTotal(g, f, A), NEW h, IsTotal(h, e, B)
  PROVE  g[S] = h[S]
<1> DEFINE G == {T \in SUBSET S : g[T] = h[T]}
<1>1. {} \in G
  BY DEF IsTotal
<1>2. ASSUME NEW T \in SUBSET S, NEW x \in S, T \in G, x \notin T
      PROVE  T \cup {x} \in G
  <2>1. (T \cup {x}) \ {x} = T /\ T \cup {x} \in SUBSET A /\ T \cup {x} \in SUBSET B
    BY <1>2
  <2>2. g[T \cup {x}] = f[x] + g[T]
    BY <2>1 DEF IsTotal
  <2>3. h[T \cup {x}] = e[x] + h[T]
    BY <2>1 DEF IsTotal
  <2> QED  BY <1>2, <2>2, <2>3
<1> HIDE DEF G
<1>3. SUBSET S \subseteq G
  BY <1>1, <1>2, SubsetInduction
<1> QED  BY <1>3 DEF G

\* g has the sums over all subsets of S.
HasTotals(g, f, S) == IsTotal(g, f, S) /\ \A T \in SUBSET S : g[T] = Total(f, T)

LEMMA IntValuedOn ==
  ASSUME NEW S, NEW f, IntValued(f, S), NEW T \in SUBSET S
  PROVE  IntValued(f, T)
  BY DEF IntValued

LEMMA TotalsExist ==
  ASSUME NEW S, IsFiniteSet(S), NEW f, IntValued(f, S)
  PROVE  \E g : HasTotals(g, f, S)
<1>1. PICK g : Accumulates(g, f, S)
  BY SumExists
<1>2. IsTotal(g, f, S)
  BY <1>1, SumIsTotal
<1>3. ASSUME NEW T \in SUBSET S PROVE g[T] = Total(f, T)
  <2>1. IsFiniteSet(T) /\ IntValued(f, T)
    BY FS_Subset, IntValuedOn
  <2>2. PICK h : IsTotal(h, f, T)
    BY <2>1, SumExists, SumIsTotal
  <2> DEFINE k == CHOOSE k : IsTotal(k, f, T)
  <2>3. IsTotal(k, f, T)
    BY <2>2
  <2>4. Total(f, T) = k[T]
    BY DEF Total
  <2> HIDE DEF k
  <2> QED  BY <1>2, <2>1, <2>3, <2>4, TotalUnique
<1> QED  BY <1>2, <1>3 DEF HasTotals

\* The function a definition with CHOOSE leaves to be found.
LEMMA TotalAccumulates ==
  ASSUME NEW S, IsFiniteSet(S), NEW f, IntValued(f, S), NEW g, Accumulates(g, f, S)
  PROVE  g[S] = Total(f, S)
<1>1. PICK h : HasTotals(h, f, S)
  BY TotalsExist
<1>2. IsTotal(g, f, S)
  BY SumIsTotal
<1> QED  BY <1>1, <1>2, TotalUnique DEF HasTotals

LEMMA TotalType ==
  ASSUME NEW S, IsFiniteSet(S), NEW f, IntValued(f, S)
  PROVE  Total(f, S) \in Int
<1>1. PICK g : HasTotals(g, f, S)
  BY TotalsExist
<1> QED  BY <1>1 DEF HasTotals, IsTotal

LEMMA TotalEmpty == \A f : Total(f, {}) = 0
<1> TAKE f
<1>1. IsFiniteSet({}) /\ IntValued(f, {})
  BY FS_EmptySet DEF IntValued
<1>2. PICK g : HasTotals(g, f, {})
  BY <1>1, TotalsExist
<1> QED  BY <1>2 DEF HasTotals, IsTotal

LEMMA TotalTake ==
  ASSUME NEW S, IsFiniteSet(S), NEW f, IntValued(f, S), NEW x \in S
  PROVE  Total(f, S) = f[x] + Total(f, S \ {x})
<1>1. PICK g : HasTotals(g, f, S)
  BY TotalsExist
<1> QED  BY <1>1 DEF HasTotals, IsTotal

LEMMA TotalAdd ==
  ASSUME NEW S, IsFiniteSet(S), NEW x, x \notin S,
         NEW f, IntValued(f, S \cup {x})
  PROVE  Total(f, S \cup {x}) = f[x] + Total(f, S)
<1>1. IsFiniteSet(S \cup {x}) /\ (S \cup {x}) \ {x} = S
  BY FS_AddElement
<1> QED  BY <1>1, TotalTake

\* Only the values on the set matter.
LEMMA TotalSame ==
  ASSUME NEW S, IsFiniteSet(S), NEW f, IntValued(f, S),
         NEW e, \A x \in S : f[x] = e[x]
  PROVE  Total(f, S) = Total(e, S)
<1>1. IntValued(e, S)
  BY DEF IntValued
<1>2. PICK g : HasTotals(g, f, S)
  BY TotalsExist
<1>3. PICK h : HasTotals(h, e, S)
  BY <1>1, TotalsExist
<1>4. g[S] = h[S]
  BY <1>2, <1>3, TotalUnique DEF HasTotals
<1> QED  BY <1>2, <1>3, <1>4 DEF HasTotals

\* What holds of 0 and survives the addition of each element holds of the sum.
LEMMA TotalInduction ==
  ASSUME NEW S, IsFiniteSet(S), NEW f, IntValued(f, S), NEW G,
         <<{}, 0>> \in G,
         \A T \in SUBSET S : \A x \in S \ T : \A n \in Int :
            <<T, n>> \in G => <<T \cup {x}, f[x] + n>> \in G
  PROVE  <<S, Total(f, S)>> \in G
<1>1. PICK g : HasTotals(g, f, S)
  BY TotalsExist
<1> DEFINE H == {T \in SUBSET S : <<T, g[T]>> \in G}
<1>2. {} \in H
  BY <1>1 DEF HasTotals, IsTotal
<1>3. ASSUME NEW T \in SUBSET S, NEW x \in S, T \in H, x \notin T
      PROVE  T \cup {x} \in H
  <2>1. (T \cup {x}) \ {x} = T /\ T \cup {x} \in SUBSET S /\ x \in T \cup {x}
    BY <1>3
  <2>2. g[T \cup {x}] = f[x] + g[T] /\ g[T] \in Int
    <3> DEFINE U == T \cup {x}
    <3>1. U \in SUBSET S /\ x \in U /\ U \ {x} = T
      BY <2>1
    <3> HIDE DEF U
    <3>2. g[U] = f[x] + g[U \ {x}] /\ g[T] \in Int
      BY <1>1, <3>1 DEF HasTotals, IsTotal
    <3> QED  BY <3>1, <3>2 DEF U
  <2> QED  BY <1>3, <2>1, <2>2
<1>4. SUBSET S \subseteq H
  <2> HIDE DEF H
  <2> QED  BY <1>2, <1>3, SubsetInduction
<1> QED  BY <1>1, <1>4 DEF HasTotals

LEMMA TotalNat ==
  ASSUME NEW S, IsFiniteSet(S), NEW f, \A x \in S : f[x] \in Nat
  PROVE  Total(f, S) \in Nat
<1> DEFINE G == (SUBSET S) \X Nat
<1>1. IntValued(f, S)
  BY DEF IntValued
<1>2. <<{}, 0>> \in G
  OBVIOUS
<1>3. \A T \in SUBSET S : \A x \in S \ T : \A n \in Int :
         <<T, n>> \in G => <<T \cup {x}, f[x] + n>> \in G
  OBVIOUS
<1>4. <<S, Total(f, S)>> \in G
  <2> HIDE DEF G
  <2> QED  BY <1>1, <1>2, <1>3, TotalInduction
<1> QED  BY <1>4

LEMMA TotalUnion ==
  ASSUME NEW S, IsFiniteSet(S), NEW R \in SUBSET S, NEW f, IntValued(f, S)
  PROVE  Total(f, S) = Total(f, R) + Total(f, S \ R)
<1>1. PICK g : HasTotals(g, f, S)
  BY TotalsExist
<1> DEFINE Q == S \ R
           G == {p \in (SUBSET R) \X Int : g[p[1] \cup Q] = p[2] + g[Q]}
<1>2. <<{}, 0>> \in G
  <2>1. {} \cup Q = Q /\ g[Q] \in Int
    BY <1>1 DEF HasTotals, IsTotal
  <2>2. 0 \in Int /\ g[{} \cup Q] = 0 + g[Q]
    <3> HIDE DEF Q
    <3> QED  BY <2>1
  <2> QED  BY <2>2
<1>3. ASSUME NEW T \in SUBSET R, NEW x \in R \ T, NEW n \in Int, <<T, n>> \in G
      PROVE  <<T \cup {x}, f[x] + n>> \in G
  <2> DEFINE U == (T \cup {x}) \cup Q
  <2>1. U \in SUBSET S /\ x \in U /\ U \ {x} = T \cup Q
    OBVIOUS
  <2> HIDE DEF U
  <2>2. g[U] = f[x] + g[T \cup Q]
    BY <1>1, <2>1 DEF HasTotals, IsTotal
  <2>3. f[x] \in Int /\ g[Q] \in Int
    BY <1>1 DEF HasTotals, IsTotal, IntValued
  <2>4. g[T \cup Q] = n + g[Q]
    BY <1>3
  <2>5. g[U] = (f[x] + n) + g[Q] /\ f[x] + n \in Int
    BY <2>2, <2>3, <2>4
  <2>6. g[(T \cup {x}) \cup Q] = (f[x] + n) + g[Q]
    BY <2>5 DEF U
  <2> QED  BY <2>5, <2>6
<1>4. IsFiniteSet(R) /\ IntValued(f, R)
  BY FS_Subset, IntValuedOn
<1>5. <<R, Total(f, R)>> \in G
  <2> HIDE DEF G
  <2> QED  BY <1>2, <1>3, <1>4, TotalInduction
<1>6. R \cup Q = S
  OBVIOUS
<1> QED  BY <1>1, <1>5, <1>6 DEF HasTotals
=============================================================================
