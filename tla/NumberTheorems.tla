--------------------------- MODULE NumberTheorems ---------------------------
(***************************************************************************)
(* Facts about numbers that several proofs need: least and greatest        *)
(* elements, recursion, sums over finite sets, fractions.                  *)
(*                                                                         *)
(* There is no induction on the number of elements here: a property of the *)
(* subsets of a finite set that fails for some subset fails for a least    *)
(* one (LeastSubset), and that it cannot.                                  *)
(***************************************************************************)
EXTENDS Fees, FiniteSets, FiniteSetTheorems, WellFoundedInduction, TLAPS

-----------------------------------------------------------------------------
(* Least and greatest elements.                                            *)

(***************************************************************************)
(* A least subset among some subsets of a finite set.                      *)
(***************************************************************************)
LEMMA LeastSubset ==
    ASSUME NEW S, IsFiniteSet(S), NEW B \in SUBSET (SUBSET S), B # {}
    PROVE  \E T \in B : \A U \in B : U \subseteq T => U = T
<1>1. IsWellFoundedOn(StrictSubsetOrdering(S), SUBSET S)
  BY FS_StrictSubsetOrderingWellFounded, FS_FiniteSubsetsOfFinite
<1>2. PICK T \in B : \A U \in B : ~(<<U, T>> \in StrictSubsetOrdering(S))
  BY <1>1, WFMin
<1>3. ASSUME NEW U \in B, U \subseteq T, U # T PROVE FALSE
  <2>1. <<U, T>> \in (SUBSET S) \X (SUBSET S)
    OBVIOUS
  <2>2. <<U, T>> \in StrictSubsetOrdering(S)
    BY <1>3, <2>1 DEF StrictSubsetOrdering
  <2>. QED  BY <1>2, <2>2
<1>. QED  BY <1>3

(***************************************************************************)
(* Induction along a finite set, element by element.                       *)
(***************************************************************************)
LEMMA ElementByElement ==
    ASSUME NEW S, IsFiniteSet(S), NEW A, {} \in A,
           \A T \in SUBSET S : \A x \in S \ T : T \in A => T \cup {x} \in A
    PROVE  S \in A
<1> DEFINE B == {T \in SUBSET S : T \notin A}
<1>1. ASSUME B # {} PROVE FALSE
  <2>1. PICK T \in B : \A U \in B : U \subseteq T => U = T
    <3>1. B \in SUBSET (SUBSET S) /\ B # {}
      BY <1>1
    <3>. HIDE DEF B
    <3>. QED  BY <3>1, LeastSubset
  <2>2. T # {}
    OBVIOUS
  <2>3. PICK x \in T : TRUE
    BY <2>2
  <2>4. T \ {x} \in A
    BY <2>1, <2>3
  <2>5. T \ {x} \in SUBSET S /\ x \in S \ (T \ {x}) /\ (T \ {x}) \cup {x} = T
    BY <2>3
  <2>6. T \in A
    BY <2>4, <2>5
  <2>. QED  BY <2>6
<1>. QED  BY <1>1

(***************************************************************************)
(* A set of natural numbers has a least element.                           *)
(***************************************************************************)
LEMMA MinOfNaturals ==
    ASSUME NEW S \in SUBSET Nat, S # {}
    PROVE  Min(S) \in S /\ \A n \in S : Min(S) <= n
<1>1. PICK m \in S : TRUE
  OBVIOUS
<1> DEFINE below(n) == {i \in 0..m : i <= n}
           B == {below(n) : n \in {i \in S : i <= m}}
<1>2. below(m) \in B
  BY <1>1
<1>3. B \in SUBSET (SUBSET (0..m))
  OBVIOUS
<1>4. IsFiniteSet(0..m)
  BY <1>1, FS_Interval
<1>. HIDE DEF B
<1>5. PICK k \in S : /\ k <= m /\ below(k) \in B
                     /\ \A U \in B : U \subseteq below(k) => U = below(k)
  <2>1. PICK T \in B : \A U \in B : U \subseteq T => U = T
    <3>1. B # {}
      BY <1>2
    <3> DEFINE I == 0..m
    <3>2. B \in SUBSET (SUBSET I) /\ IsFiniteSet(I)
      BY <1>3, <1>4
    <3>. HIDE DEF I
    <3>. QED  BY <3>1, <3>2, LeastSubset
  <2>2. PICK k \in S : k <= m /\ T = below(k)
    BY DEF B
  <2>. QED  BY <2>1, <2>2
<1>6. ASSUME NEW n \in S, n < k PROVE FALSE
  <2>1. below(n) \in B
    BY <1>5, <1>6, <1>1 DEF B
  <2>2. below(n) \subseteq below(k)
    BY <1>5, <1>6, <1>1
  <2>3. k \in below(k) /\ k \notin below(n)
    BY <1>5, <1>6, <1>1
  <2>4. below(n) = below(k)
    <3>. HIDE DEF below
    <3>. QED  BY <1>5, <2>1, <2>2
  <2>. QED  BY <2>3, <2>4
<1>7. \A n \in S : k <= n
  BY <1>6
<1>. QED  BY <1>7 DEF Min

(***************************************************************************)
(* A finite set of numbers has a greatest element.                         *)
(***************************************************************************)
LEMMA MaxOfFinite ==
    ASSUME NEW S, IsFiniteSet(S), S # {}, \A n \in S : n \in Int
    PROVE  Max(S) \in S /\ \A n \in S : n <= Max(S)
<1> DEFINE Bounded(T) == \E m \in T : \A n \in T : n <= m
           B == {T \in SUBSET S : T # {} /\ ~Bounded(T)}
<1>1. ASSUME B # {} PROVE FALSE
  <2>1. PICK T \in B : \A U \in B : U \subseteq T => U = T
    <3>1. B \in SUBSET (SUBSET S) /\ B # {} /\ IsFiniteSet(S)
      BY <1>1
    <3>. HIDE DEF B
    <3>. QED  BY <3>1, LeastSubset
  <2>2. PICK x \in T : TRUE
    OBVIOUS
  <2> DEFINE U == T \ {x}
  <2>3. U \in SUBSET S /\ U # T /\ U \subseteq T /\ T = U \cup {x} /\ x \in Int
    BY <2>2
  <2>. HIDE DEF U
  <2>4. U # {}
    BY <2>1, <2>3
  <2>5. PICK m \in U : \A n \in U : n <= m
    BY <2>1, <2>3, <2>4
  <2>6. Bounded(T)
    <3>1. m \in Int /\ \A n \in U : n \in Int
      BY <2>3, <2>5
    <3>2. CASE x <= m
      BY <2>3, <2>5, <3>2
    <3>3. CASE m <= x
      <4>1. \A n \in T : n <= x
        BY <2>3, <2>5, <3>1, <3>3
      <4>. QED  BY <2>2, <4>1
    <3>. QED  BY <2>3, <3>1, <3>2, <3>3
  <2>. QED  BY <2>1, <2>6
<1>2. PICK m \in S : \A n \in S : n <= m
  <2>1. S \notin B
    BY <1>1
  <2>. QED  BY <2>1
<1>3. \E x \in S : \A y \in S : x >= y
  BY <1>2
<1>. QED  BY <1>3 DEF Max

-----------------------------------------------------------------------------
(* Recursion over the numbers up to N.                                     *)

(***************************************************************************)
(* Induction: a set of numbers up to N that has 0, and with every number   *)
(* the next one, has them all.                                             *)
(***************************************************************************)
LEMMA UpTo ==
    ASSUME NEW N \in Nat, NEW A, 0 \in A,
           \A n \in 1..N : n - 1 \in A => n \in A
    PROVE  \A n \in 0..N : n \in A
<1> DEFINE B == {n \in 0..N : n \notin A}
<1>1. ASSUME B # {} PROVE FALSE
  <2>1. PICK n \in B : \A m \in B : n <= m
    <3>1. B \in SUBSET Nat
      OBVIOUS
    <3>. HIDE DEF B
    <3>. QED  BY <1>1, <3>1, MinOfNaturals
  <2>2. n \in 1..N /\ n - 1 \in 0..N
    OBVIOUS
  <2>3. n - 1 \notin B
    BY <2>1, <2>2
  <2>. QED  BY <2>2, <2>3
<1>. QED  BY <1>1

Recursion(g, N, z, F) == g = [n \in 0..N |-> IF n = 0 THEN z ELSE F[<<n, g[n - 1]>>]]

(***************************************************************************)
(* A recursive definition whose values stay in V has a solution.           *)
(***************************************************************************)
LEMMA RecursionExists ==
    ASSUME NEW N \in Nat, NEW V, NEW z \in V, NEW F \in [(1..N) \X V -> V]
    PROVE  \E g \in [0..N -> V] : Recursion(g, N, z, F)
<1> DEFINE Solved(n) == \E g \in [0..n -> V] : Recursion(g, n, z, F)
           A == {n \in 0..N : Solved(n)}
<1>1. 0 \in A
  <2> DEFINE g == [i \in 0..0 |-> z]
  <2>1. g \in [0..0 -> V] /\ Recursion(g, 0, z, F)
    BY DEF Recursion
  <2>. QED  BY <2>1
<1>2. ASSUME NEW n \in 1..N, n - 1 \in A PROVE n \in A
  <2>1. PICK h \in [0..(n - 1) -> V] : Recursion(h, n - 1, z, F)
    BY <1>2
  <2> DEFINE g == [i \in 0..n |-> IF i = n THEN F[<<n, h[n - 1]>>] ELSE h[i]]
  <2>2. \A i \in 0..(n - 1) : g[i] = h[i] /\ i \in 0..n /\ i # n
    OBVIOUS
  <2>3. h[n - 1] \in V /\ F[<<n, h[n - 1]>>] \in V
    OBVIOUS
  <2>4. g \in [0..n -> V]
    BY <2>3
  <2>5. ASSUME NEW i \in 0..n
        PROVE  g[i] = IF i = 0 THEN z ELSE F[<<i, g[i - 1]>>]
    <3>1. CASE i = n
      <4>1. n - 1 \in 0..(n - 1) /\ n \in 0..n
        OBVIOUS
      <4>2. g[n] = F[<<n, h[n - 1]>>] /\ g[n - 1] = h[n - 1]
        BY <2>2, <4>1
      <4>. QED  BY <3>1, <4>2
    <3>2. CASE i # n
      <4>1. i \in 0..(n - 1) /\ (i # 0 => i - 1 \in 0..(n - 1))
        BY <3>2
      <4>2. h[i] = IF i = 0 THEN z ELSE F[<<i, h[i - 1]>>]
        BY <2>1, <4>1 DEF Recursion
      <4>. QED  BY <2>2, <4>1, <4>2
    <3>. QED  BY <3>1, <3>2
  <2>6. Recursion(g, n, z, F)
    <3>1. g = [i \in 0..n |-> g[i]]
      OBVIOUS
    <3>. HIDE DEF g
    <3>. QED  BY <2>5, <3>1 DEF Recursion
  <2>. HIDE DEF g
  <2>. QED  BY <2>4, <2>6
<1>. HIDE DEF A
<1>3. \A n \in 0..N : n \in A
  BY <1>1, <1>2, UpTo
<1>. QED  BY <1>3 DEF A

-----------------------------------------------------------------------------
(* Sums.                                                                   *)

Pick(s) == CHOOSE x \in s : TRUE

\* The function g gives the sums of f over the subsets of S, element by element.
SumsFrom(g, f, S) ==
    g = [s \in SUBSET S |-> IF s = {} THEN 0 ELSE f[Pick(s)] + g[s \ {Pick(s)}]]

SumsOf(f, S) == CHOOSE g : SumsFrom(g, f, S)

\* The sum of f over S.
SumOver(f, S) == SumsOf(f, S)[S]

LEMMA PickInSet == ASSUME NEW s, s # {} PROVE Pick(s) \in s
BY DEF Pick

(***************************************************************************)
(* What SumsFrom says of one subset.                                       *)
(***************************************************************************)
LEMMA SumsStep ==
    ASSUME NEW f, NEW S, NEW g, SumsFrom(g, f, S), NEW T \in SUBSET S
    PROVE  /\ T = {} => g[T] = 0
           /\ T # {} => /\ Pick(T) \in T
                        /\ g[T] = f[Pick(T)] + g[T \ {Pick(T)}]
<1>1. g[T] = IF T = {} THEN 0 ELSE f[Pick(T)] + g[T \ {Pick(T)}]
  BY DEF SumsFrom
<1>. QED  BY <1>1, PickInSet

(***************************************************************************)
(* The sum over a subset depends on the amounts in it only, not on the set *)
(* it is taken from.                                                       *)
(***************************************************************************)
LEMMA SumsAgree ==
    ASSUME NEW S, IsFiniteSet(S), NEW R, NEW f, NEW e, NEW g, NEW h,
           SumsFrom(g, f, S), SumsFrom(h, e, R),
           NEW T \in SUBSET S, T \subseteq R, \A x \in T : f[x] = e[x]
    PROVE  g[T] = h[T]
<1> DEFINE B == {U \in SUBSET T : g[U] # h[U]}
<1>0. IsFiniteSet(T)
  BY FS_Subset
<1>1. ASSUME B # {} PROVE FALSE
  <2>1. PICK U \in B : \A V \in B : V \subseteq U => V = U
    <3>1. B \in SUBSET (SUBSET T)
      OBVIOUS
    <3>. HIDE DEF B
    <3>. QED  BY <1>0, <1>1, <3>1, LeastSubset
  <2>2. U # {}
    BY SumsStep
  <2> DEFINE p == Pick(U)
  <2>3. p \in U
    BY <2>2, PickInSet
  <2>4. g[U] = f[p] + g[U \ {p}] /\ h[U] = e[p] + h[U \ {p}]
    BY <2>2, SumsStep
  <2>. HIDE DEF p
  <2>5. U \ {p} \notin B
    BY <2>1, <2>3
  <2>6. g[U \ {p}] = h[U \ {p}] /\ f[p] = e[p]
    BY <2>3, <2>5
  <2>. QED  BY <2>4, <2>6
<1>. QED  BY <1>1

(***************************************************************************)
(* The recursive definition of the sums has a solution.                    *)
(***************************************************************************)
LEMMA SumsExist ==
    ASSUME NEW S, IsFiniteSet(S), NEW f
    PROVE  SumsFrom(SumsOf(f, S), f, S)
<1> DEFINE B == {U \in SUBSET S : ~(\E g : SumsFrom(g, f, U))}
<1>1. ASSUME B # {} PROVE FALSE
  <2>1. PICK U \in B : \A V \in B : V \subseteq U => V = U
    <3>1. B \in SUBSET (SUBSET S)
      OBVIOUS
    <3>. HIDE DEF B
    <3>. QED  BY <1>1, <3>1, LeastSubset
  <2>2. ASSUME NEW V \in SUBSET U, V # U
        PROVE  SumsFrom(SumsOf(f, V), f, V) /\ IsFiniteSet(V)
    <3>1. \E g : SumsFrom(g, f, V)
      BY <2>1, <2>2
    <3>2. IsFiniteSet(V)
      BY FS_Subset
    <3>. QED  BY <3>1, <3>2 DEF SumsOf
  <2> DEFINE G == [s \in SUBSET U |->
                     IF s = {} THEN 0
                     ELSE f[Pick(s)] + SumsOf(f, s \ {Pick(s)})[s \ {Pick(s)}]]
  <2>3. ASSUME NEW s \in SUBSET U, s # {}
        PROVE  SumsOf(f, s \ {Pick(s)})[s \ {Pick(s)}] = G[s \ {Pick(s)}]
    <3> DEFINE V == s \ {Pick(s)}
               q == Pick(V)
               W == V \ {q}
    <3>1. V \in SUBSET U /\ V # U
      BY <2>3, PickInSet
    <3>2. SumsFrom(SumsOf(f, V), f, V) /\ IsFiniteSet(V)
      BY <2>2, <3>1
    <3>3. G[V] = IF V = {} THEN 0 ELSE f[q] + SumsOf(f, W)[W]
      BY <3>1
    <3>. HIDE DEF V, G
    <3>4. CASE V = {}
      BY <3>2, <3>3, <3>4, SumsStep DEF V
    <3>5. CASE V # {}
      <4>1. q \in V /\ SumsOf(f, V)[V] = f[q] + SumsOf(f, V)[W]
        BY <3>2, <3>5, SumsStep
      <4>2. W \in SUBSET U /\ W # U /\ W \in SUBSET V
        BY <3>1, <4>1
      <4>3. SumsFrom(SumsOf(f, W), f, W)
        BY <2>2, <4>2
      <4>. HIDE DEF W
      <4>4. SumsOf(f, V)[W] = SumsOf(f, W)[W]
        BY <3>2, <4>2, <4>3, SumsAgree
      <4>. QED  BY <3>3, <3>5, <4>1, <4>4 DEF V
    <3>. QED  BY <3>4, <3>5
  <2>4. G = [s \in SUBSET U |-> IF s = {} THEN 0 ELSE f[Pick(s)] + G[s \ {Pick(s)}]]
    BY <2>3
  <2>5. SumsFrom(G, f, U)
    BY <2>4 DEF SumsFrom
  <2>. QED  BY <2>1, <2>5
<1>2. \E g : SumsFrom(g, f, S)
  BY <1>1
<1>. QED  BY <1>2 DEF SumsOf

-----------------------------------------------------------------------------
(***************************************************************************)
(* Whatever satisfies the recursive definition computes the sum.           *)
(***************************************************************************)
LEMMA SumUnique ==
    ASSUME NEW S, IsFiniteSet(S), NEW f, NEW g, SumsFrom(g, f, S),
           NEW T \in SUBSET S
    PROVE  g[T] = SumOver(f, T)
<1>1. IsFiniteSet(T)
  BY FS_Subset
<1>2. SumsFrom(SumsOf(f, T), f, T)
  BY <1>1, SumsExist
<1>. QED  BY <1>2, SumsAgree DEF SumOver

LEMMA SumEmpty == ASSUME NEW f PROVE SumOver(f, {}) = 0
<1>1. SumsFrom(SumsOf(f, {}), f, {})
  BY SumsExist, FS_EmptySet
<1>. QED  BY <1>1, SumsStep DEF SumOver

(***************************************************************************)
(* Only the amounts of the elements matter.                                *)
(***************************************************************************)
LEMMA SumAgree ==
    ASSUME NEW S, IsFiniteSet(S), NEW f, NEW e, \A x \in S : f[x] = e[x]
    PROVE  SumOver(f, S) = SumOver(e, S)
<1>1. SumsFrom(SumsOf(f, S), f, S) /\ SumsFrom(SumsOf(e, S), e, S)
  BY SumsExist
<1>. QED  BY <1>1, SumsAgree DEF SumOver

\* One step of the definition.
LEMMA SumPick ==
    ASSUME NEW S, IsFiniteSet(S), NEW f, S # {}
    PROVE  Pick(S) \in S /\ SumOver(f, S) = f[Pick(S)] + SumOver(f, S \ {Pick(S)})
<1> DEFINE p == Pick(S)
<1>1. SumsFrom(SumsOf(f, S), f, S)
  BY SumsExist
<1>2. p \in S /\ SumsOf(f, S)[S] = f[p] + SumsOf(f, S)[S \ {p}]
  BY <1>1, SumsStep
<1>3. SumsOf(f, S)[S \ {p}] = SumOver(f, S \ {p})
  <2>. HIDE DEF p
  <2>. QED  BY <1>1, SumUnique
<1>. QED  BY <1>2, <1>3 DEF SumOver

(***************************************************************************)
(* The sum of integers is an integer, of naturals a natural number.        *)
(***************************************************************************)
LEMMA SumType ==
    ASSUME NEW S, IsFiniteSet(S), NEW f, NEW D \in {Int, Nat}, \A x \in S : f[x] \in D
    PROVE  SumOver(f, S) \in D
<1> DEFINE B == {T \in SUBSET S : SumOver(f, T) \notin D}
<1>1. ASSUME B # {} PROVE FALSE
  <2>1. PICK T \in B : \A U \in B : U \subseteq T => U = T
    <3>1. B \in SUBSET (SUBSET S)
      OBVIOUS
    <3>. HIDE DEF B
    <3>. QED  BY <1>1, <3>1, LeastSubset
  <2>2. IsFiniteSet(T)
    BY FS_Subset
  <2>3. T # {}
    BY SumEmpty
  <2> DEFINE p == Pick(T)
  <2>4. p \in T /\ SumOver(f, T) = f[p] + SumOver(f, T \ {p})
    BY <2>2, <2>3, SumPick
  <2>. HIDE DEF p
  <2>5. T \ {p} \notin B
    BY <2>1, <2>4
  <2>6. SumOver(f, T \ {p}) \in D /\ f[p] \in D
    BY <2>4, <2>5
  <2>7. SumOver(f, T) \in D
    BY <2>4, <2>6
  <2>. QED  BY <2>7
<1>. QED  BY <1>1

(***************************************************************************)
(* Any element may be taken first: the order of the fold does not matter.  *)
(***************************************************************************)
LEMMA SumElement ==
    ASSUME NEW S, IsFiniteSet(S), NEW f, \A x \in S : f[x] \in Int, NEW a \in S
    PROVE  SumOver(f, S) = f[a] + SumOver(f, S \ {a})
<1> DEFINE Fails(T) == \E x \in T : SumOver(f, T) # f[x] + SumOver(f, T \ {x})
           B == {T \in SUBSET S : Fails(T)}
<1>1. ASSUME B # {} PROVE FALSE
  <2>1. PICK T \in B : \A U \in B : U \subseteq T => U = T
    <3>1. B \in SUBSET (SUBSET S)
      OBVIOUS
    <3>. HIDE DEF B
    <3>. QED  BY <1>1, <3>1, LeastSubset
  <2>2. PICK x \in T : SumOver(f, T) # f[x] + SumOver(f, T \ {x})
    BY <2>1
  <2> DEFINE p == Pick(T)
             R == T \ {p, x}
  <2>3. ASSUME NEW U \in SUBSET S
        PROVE  IsFiniteSet(U) /\ SumOver(f, U) \in Int
    <3>1. IsFiniteSet(U)
      BY FS_Subset
    <3>2. \A y \in U : f[y] \in Int
      OBVIOUS
    <3>. QED  BY <3>1, <3>2, SumType
  <2>4. p \in T /\ SumOver(f, T) = f[p] + SumOver(f, T \ {p})
    <3>1. T # {} /\ IsFiniteSet(T)
      BY <2>3
    <3>. QED  BY <3>1, SumPick
  <2>. HIDE DEF p
  <2>5. x # p
    BY <2>2, <2>4
  <2>6. ASSUME NEW U \in SUBSET T, U # T, NEW y \in U
        PROVE  SumOver(f, U) = f[y] + SumOver(f, U \ {y})
    BY <2>1, <2>6
  <2>7. SumOver(f, T \ {p}) = f[x] + SumOver(f, R)
    <3>1. x \in T \ {p} /\ (T \ {p}) \ {x} = R /\ T \ {p} # T
      BY <2>4, <2>5
    <3>. QED  BY <2>6, <3>1
  <2>8. SumOver(f, T \ {x}) = f[p] + SumOver(f, R)
    <3>1. p \in T \ {x} /\ (T \ {x}) \ {p} = R /\ T \ {x} # T
      BY <2>4, <2>5
    <3>. QED  BY <2>6, <3>1
  <2>9. f[p] \in Int /\ f[x] \in Int /\ R \in SUBSET S
    BY <2>4
  <2>10. SumOver(f, R) \in Int
    BY <2>3, <2>9
  <2>. HIDE DEF R
  <2>. QED  BY <2>2, <2>4, <2>7, <2>8, <2>9, <2>10
<1>. QED  BY <1>1

(***************************************************************************)
(* One more element, and one element whose amount has changed.             *)
(***************************************************************************)
LEMMA SumAdd ==
    ASSUME NEW S, IsFiniteSet(S), NEW f, NEW a, a \notin S,
           \A x \in S \cup {a} : f[x] \in Int
    PROVE  SumOver(f, S \cup {a}) = SumOver(f, S) + f[a]
<1> DEFINE T == S \cup {a}
<1>1. IsFiniteSet(T) /\ a \in T /\ T \ {a} = S
  BY FS_AddElement
<1>2. \A x \in T : f[x] \in Int
  OBVIOUS
<1>3. SumOver(f, S) \in Int /\ f[a] \in Int
  BY SumType
<1>. HIDE DEF T
<1>4. SumOver(f, T) = f[a] + SumOver(f, S)
  BY <1>1, <1>2, SumElement
<1>. QED  BY <1>3, <1>4 DEF T

LEMMA SumChange ==
    ASSUME NEW S, IsFiniteSet(S), NEW f, NEW e, NEW a \in S,
           \A x \in S : f[x] \in Int /\ e[x] \in Int,
           \A x \in S : x # a => e[x] = f[x]
    PROVE  SumOver(e, S) = SumOver(f, S) + e[a] - f[a]
<1>1. IsFiniteSet(S \ {a})
  BY FS_Subset
<1>2. SumOver(f, S) = f[a] + SumOver(f, S \ {a})
  BY SumElement
<1>3. SumOver(e, S) = e[a] + SumOver(e, S \ {a})
  BY SumElement
<1>4. SumOver(e, S \ {a}) = SumOver(f, S \ {a})
  BY <1>1, SumAgree
<1>5. SumOver(f, S \ {a}) \in Int
  BY <1>1, SumType
<1>. QED  BY <1>2, <1>3, <1>4, <1>5

(***************************************************************************)
(* Two sets without a common element.                                      *)
(***************************************************************************)
LEMMA SumUnion ==
    ASSUME NEW S, IsFiniteSet(S), NEW R, IsFiniteSet(R), S \cap R = {},
           NEW f, \A x \in S \cup R : f[x] \in Int
    PROVE  SumOver(f, S \cup R) = SumOver(f, S) + SumOver(f, R)
<1> DEFINE B == {T \in SUBSET R : SumOver(f, S \cup T) # SumOver(f, S) + SumOver(f, T)}
<1>1. ASSUME B # {} PROVE FALSE
  <2>1. PICK T \in B : \A U \in B : U \subseteq T => U = T
    <3>1. B \in SUBSET (SUBSET R)
      OBVIOUS
    <3>. HIDE DEF B
    <3>. QED  BY <1>1, <3>1, LeastSubset
  <2>2. SumOver(f, S) \in Int
    BY SumType
  <2>3. T # {}
    BY <2>2, SumEmpty
  <2>4. PICK p \in T : TRUE
    BY <2>3
  <2> DEFINE U == T \ {p}
  <2>5. IsFiniteSet(T) /\ IsFiniteSet(U) /\ IsFiniteSet(S \cup U)
    <3>1. IsFiniteSet(T) /\ IsFiniteSet(U)
      BY FS_Subset
    <3>. QED  BY <3>1, FS_Union
  <2>6. /\ U \in SUBSET R /\ U \subseteq T /\ U # T /\ p \notin S \cup U
        /\ U \cup {p} = T /\ (S \cup U) \cup {p} = S \cup T
    BY <2>4
  <2>7. \A x \in (S \cup U) \cup {p} : f[x] \in Int
    BY <2>6
  <2>. HIDE DEF U
  <2>8. SumOver(f, S \cup U) = SumOver(f, S) + SumOver(f, U)
    BY <2>1, <2>6
  <2>9. SumOver(f, T) = SumOver(f, U) + f[p]
    <3>1. p \notin U /\ \A x \in U \cup {p} : f[x] \in Int
      BY <2>6, <2>7
    <3>2. IsFiniteSet(U)
      BY <2>5
    <3>3. SumOver(f, U \cup {p}) = SumOver(f, U) + f[p]
      BY ONLY <3>1, <3>2, SumAdd
    <3>. QED  BY <3>3, <2>6
  <2>10. SumOver(f, S \cup T) = SumOver(f, S \cup U) + f[p]
    <3> DEFINE V == S \cup U
    <3>1. IsFiniteSet(V) /\ p \notin V /\ V \cup {p} = S \cup T
          /\ \A x \in V \cup {p} : f[x] \in Int
      BY <2>5, <2>6, <2>7
    <3>. HIDE DEF V
    <3>2. SumOver(f, V \cup {p}) = SumOver(f, V) + f[p]
      BY <3>1, SumAdd
    <3>. QED  BY <3>1, <3>2 DEF V
  <2>11. SumOver(f, U) \in Int /\ f[p] \in Int
    BY <2>5, <2>7, SumType
  <2>12. SumOver(f, S \cup T) = SumOver(f, S) + SumOver(f, T)
    BY <2>2, <2>8, <2>9, <2>10, <2>11
  <2>. QED  BY <2>12
<1>. QED  BY <1>1

(***************************************************************************)
(* The same amount more for every element of a part.                       *)
(***************************************************************************)
LEMMA SumShift ==
    ASSUME NEW S, IsFiniteSet(S), NEW R \in SUBSET S, NEW c \in Int,
           NEW f, NEW e, \A x \in S : f[x] \in Int,
           \A x \in S : e[x] = IF x \in R THEN f[x] + c ELSE f[x]
    PROVE  SumOver(e, S) = SumOver(f, S) + c * Cardinality(R)
<1> DEFINE B == {T \in SUBSET R : SumOver(e, T) # SumOver(f, T) + c * Cardinality(T)}
<1>0. \A x \in S : e[x] \in Int
  OBVIOUS
<1>1. ASSUME B # {} PROVE FALSE
  <2>0. IsFiniteSet(R)
    BY FS_Subset
  <2>1. PICK T \in B : \A U \in B : U \subseteq T => U = T
    <3>1. B \in SUBSET (SUBSET R)
      OBVIOUS
    <3>. HIDE DEF B
    <3>. QED  BY <1>1, <2>0, <3>1, LeastSubset
  <2>2. T # {}
    <3>1. c * 0 = 0
      OBVIOUS
    <3>. QED  BY <3>1, SumEmpty, FS_EmptySet
  <2>3. PICK p \in T : TRUE
    BY <2>2
  <2> DEFINE U == T \ {p}
  <2>4. IsFiniteSet(T) /\ IsFiniteSet(U)
    BY FS_Subset
  <2>5. /\ Cardinality(U) \in Nat /\ Cardinality(T) = Cardinality(U) + 1
    BY <2>3, <2>4, FS_RemoveElement, FS_CardinalityType
  <2>6. U \in SUBSET R /\ U \subseteq T /\ U # T /\ p \in R
    BY <2>3
  <2>7. f[p] \in Int /\ e[p] = f[p] + c
    BY <2>6
  <2>8. /\ \A x \in T : f[x] \in Int /\ e[x] \in Int
        /\ \A x \in U : f[x] \in Int /\ e[x] \in Int
    BY <1>0, <2>6
  <2>9. SumOver(e, T) = e[p] + SumOver(e, U) /\ SumOver(f, T) = f[p] + SumOver(f, U)
    BY <2>4, <2>8, SumElement
  <2>. HIDE DEF U
  <2>10. SumOver(e, U) = SumOver(f, U) + c * Cardinality(U)
    BY <2>1, <2>6
  <2>11. SumOver(f, U) \in Int
    BY <2>4, <2>8, SumType
  <2>12. c * (Cardinality(U) + 1) = c * Cardinality(U) + c /\ c * Cardinality(U) \in Int
    BY <2>5
  <2>13. SumOver(e, T) = SumOver(f, T) + c * Cardinality(T)
    BY <2>5, <2>7, <2>9, <2>10, <2>11, <2>12
  <2>. QED  BY <2>13
<1>2. SumOver(e, R) = SumOver(f, R) + c * Cardinality(R)
  BY <1>1
<1>3. IsFiniteSet(R) /\ IsFiniteSet(S \ R)
  BY FS_Subset
<1>4. SumOver(e, S \ R) = SumOver(f, S \ R)
  BY <1>3, SumAgree
<1>5. /\ SumOver(e, S) = SumOver(e, R) + SumOver(e, S \ R)
      /\ SumOver(f, S) = SumOver(f, R) + SumOver(f, S \ R)
  <2>1. R \cup (S \ R) = S /\ R \cap (S \ R) = {}
    OBVIOUS
  <2>. QED  BY <1>0, <1>3, <2>1, SumUnion
<1>6. SumOver(f, R) \in Int /\ SumOver(f, S \ R) \in Int
  BY <1>3, SumType
<1>7. c * Cardinality(R) \in Int
  BY <1>3, FS_CardinalityType
<1>. QED  BY <1>2, <1>4, <1>5, <1>6, <1>7

-----------------------------------------------------------------------------
(* Fractions.                                                              *)

Positive == Nat \ {0}
SignedFractions == [num : Int, den : Positive]

LEMMA MultipleMod ==
    ASSUME NEW k \in Int, NEW d \in Positive
    PROVE  (k * d) % d = 0 /\ (k * d) \div d = k
BY DEF Positive

LEMMA DivMod ==
    ASSUME NEW a \in Int, NEW d \in Positive
    PROVE  /\ a = d * (a \div d) + (a % d)
           /\ a \div d \in Int /\ a % d \in Int /\ 0 <= a % d /\ a % d < d
<1>1. d \in Nat \ {0}
  BY DEF Positive
<1>2. a \div d \in Int /\ a % d \in Int /\ 0 <= a % d /\ a % d < d
  BY <1>1
<1>3. a = d * (a \div d) + (a % d)
  BY <1>1
<1>. QED  BY <1>2, <1>3

(***************************************************************************)
(* The least common multiple is a positive multiple of both numbers.       *)
(***************************************************************************)
LEMMA LcmMultiple ==
    ASSUME NEW x \in Positive, NEW y \in Positive
    PROVE  /\ Lcm(x, y) \in Positive
           /\ Lcm(x, y) = x * (Lcm(x, y) \div x) /\ Lcm(x, y) \div x \in Positive
           /\ Lcm(x, y) = y * (Lcm(x, y) \div y) /\ Lcm(x, y) \div y \in Positive
<1> DEFINE M == {m \in 1..(x * y) : m % x = 0 /\ m % y = 0}
           l == Lcm(x, y)
<1>1. x \in Nat /\ x >= 1 /\ y \in Nat /\ y >= 1
  BY DEF Positive
<1>2. x * y \in Nat /\ x * y >= 1
  BY <1>1
<1>3. (x * y) % y = 0 /\ (y * x) % x = 0 /\ x * y = y * x
  BY <1>1, MultipleMod
<1>4. x * y \in M
  BY <1>2, <1>3
<1>5. M \in SUBSET Nat /\ M # {}
  BY <1>2, <1>4
<1>6. l \in M
  <2>. HIDE DEF M
  <2>1. Min(M) \in M
    BY <1>5, MinOfNaturals
  <2>. QED  BY <2>1 DEF Lcm, M
<1>7. l \in Nat /\ l >= 1 /\ l % x = 0 /\ l % y = 0
  BY <1>2, <1>6
<1>. HIDE DEF l, M
<1>8. ASSUME NEW z \in Positive, l % z = 0
      PROVE  l = z * (l \div z) /\ l \div z \in Positive
  <2>1. l = z * (l \div z) /\ l \div z \in Int /\ z >= 1 /\ z \in Nat
    BY <1>7, <1>8, DivMod DEF Positive
  <2>2. CASE l \div z <= 0
    <3>1. z * (l \div z) <= 0
      BY <2>1, <2>2
    <3>. QED  BY <1>7, <2>1, <3>1
  <2>. QED  BY <2>1, <2>2 DEF Positive
<1>9. l \in Positive
  BY <1>7 DEF Positive
<1>. QED  BY <1>7, <1>8, <1>9 DEF l

(***************************************************************************)
(* What Add and Sub do: they bring the fractions to a common denominator.  *)
(***************************************************************************)
LEMMA PlusValue ==
    ASSUME NEW x \in SignedFractions, NEW y \in SignedFractions
    PROVE  \E s \in Positive, t \in Positive :
             /\ Plus(x, y) \in SignedFractions
             /\ Plus(x, y).den = x.den * s /\ Plus(x, y).den = y.den * t
             /\ Plus(x, y).num = x.num * s + y.num * t
<1> DEFINE l == Lcm(x.den, y.den)
           s == l \div x.den
           t == l \div y.den
<1>1. x.den \in Positive /\ y.den \in Positive /\ x.num \in Int /\ y.num \in Int
  BY DEF SignedFractions
<1>2. /\ l \in Positive /\ l = x.den * s /\ l = y.den * t
      /\ s \in Positive /\ t \in Positive
  BY <1>1, LcmMultiple
<1>3. Plus(x, y) = [num |-> x.num * s + y.num * t, den |-> l]
  BY DEF Plus, Fraction
<1>. HIDE DEF l, s, t
<1>4. x.num * s + y.num * t \in Int
  BY <1>1, <1>2 DEF Positive
<1>5. Plus(x, y) \in SignedFractions
  BY <1>2, <1>3, <1>4 DEF SignedFractions
<1>. QED  BY <1>2, <1>3, <1>5

LEMMA MinusValue ==
    ASSUME NEW x \in SignedFractions, NEW y \in SignedFractions
    PROVE  \E s \in Positive, t \in Positive :
             /\ Minus(x, y) \in SignedFractions
             /\ Minus(x, y).den = x.den * s /\ Minus(x, y).den = y.den * t
             /\ Minus(x, y).num = x.num * s - y.num * t
<1> DEFINE z == [y EXCEPT !.num = -@]
<1>1. z \in SignedFractions /\ z.num = -y.num /\ z.den = y.den /\ y.num \in Int
      /\ x.num \in Int
  BY DEF SignedFractions
<1>2. Minus(x, y) = Plus(x, z)
  BY DEF Minus
<1>. HIDE DEF z
<1>3. PICK s \in Positive, t \in Positive :
        /\ Plus(x, z) \in SignedFractions
        /\ Plus(x, z).den = x.den * s /\ Plus(x, z).den = z.den * t
        /\ Plus(x, z).num = x.num * s + z.num * t
  BY <1>1, PlusValue
<1>4. x.num * s + (-y.num) * t = x.num * s - y.num * t
  BY <1>1 DEF Positive
<1>. QED  BY <1>1, <1>2, <1>3, <1>4
=============================================================================
