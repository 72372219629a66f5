--------------------------- MODULE ReferralProofs ---------------------------
(***************************************************************************)
(* That the referrers make up a forest and the lists of referrals agree    *)
(* with it, whatever joins, moves, is compressed, banished or comes back,  *)
(* and whatever fails half way: for all accounts, depths and statuses.     *)
(* Then what checks and climbs do to records and sums, and what the sums   *)
(* lack when the tree changes.                                             *)
(***************************************************************************)
EXTENDS Referral, NumberTheorems

Parents == Accounts \cup {None}

-----------------------------------------------------------------------------
(* Paths.                                                                  *)

\* A path upwards: everyone but the last has the next one as his referrer.
Upwards(ref, m, c) ==
    /\ c \in [1..m -> Accounts]
    /\ \A k \in 1..(m - 1) : ref[c[k]] = c[k + 1]

(***************************************************************************)
(* In a forest a path meets nobody twice, so it is no longer than there    *)
(* are accounts, and has them all if it is as long.                        *)
(***************************************************************************)
LEMMA PathShort ==
    ASSUME NEW ref \in [Accounts -> Parents], Acyclic(ref),
           NEW m \in Nat, NEW c, Upwards(ref, m, c)
    PROVE  /\ m <= Cardinality(Accounts)
           /\ m = Cardinality(Accounts) => \A a \in Accounts : \E k \in 1..m : c[k] = a
<1>1. ASSUME NEW i \in 1..m, NEW j \in 1..m, i < j, c[i] = c[j] PROVE FALSE
  <2> DEFINE S == {c[k] : k \in i..(j - 1)}
  <2>1. S \in SUBSET DOMAIN ref /\ c[i] \in S
    BY <1>1 DEF Upwards
  <2>2. ASSUME NEW k \in i..(j - 1) PROVE ref[c[k]] \in S
    <3>1. ref[c[k]] = c[k + 1]
      BY <1>1 DEF Upwards
    <3>2. CASE k = j - 1
      BY <1>1, <2>1, <3>1, <3>2
    <3>3. CASE k # j - 1
      <4>1. k + 1 \in i..(j - 1)
        BY <1>1, <3>3
      <4>. QED  BY <3>1, <4>1
    <3>. QED  BY <3>2, <3>3
  <2>3. \A a \in S : ref[a] \in S
    BY <2>2
  <2>. HIDE DEF S
  <2>. QED  BY <2>1, <2>3 DEF Acyclic
<1>2. c \in Injection(1..m, Accounts)
  <2>1. \A i, j \in 1..m : c[i] = c[j] => i = j
    <3>1. \A i, j \in 1..m : i < j \/ i = j \/ j < i
      OBVIOUS
    <3>. QED  BY <1>1, <3>1
  <2>. QED  BY <2>1 DEF Upwards, Injection, IsInjective
<1>3. IsFiniteSet(Accounts)
  BY ReferralAssumption
<1>4. Cardinality(1..m) = m
  <2>1. 1 \in Int /\ m \in Int
    OBVIOUS
  <2>2. Cardinality(1..m) = IF 1 > m THEN 0 ELSE m - 1 + 1
    BY <2>1, FS_Interval
  <2>. QED  BY <2>2
<1>5. /\ Cardinality(1..m) <= Cardinality(Accounts)
      /\ Cardinality(1..m) = Cardinality(Accounts) <=> c \in Surjection(1..m, Accounts)
  BY <1>2, <1>3, FS_Injection
<1>. QED  BY <1>4, <1>5 DEF Surjection

\* The referrers that the records f say.
Referred(f) == [a \in Accounts |-> f[a].referrer]
HasParents(f) == \A a \in Accounts : f[a].referrer \in Parents

\* What Ancestors returns: a path from p upwards that ends at the top or has
\* n accounts.
IsChain(f, p, n, s) ==
    /\ s \in Seq(Accounts) /\ Len(s) <= n
    /\ s = <<>> => n = 0 \/ p = None
    /\ s # <<>> => s[1] = p
    /\ \A k \in 1..(Len(s) - 1) : f[s[k]].referrer = s[k + 1]
    /\ s # <<>> /\ Len(s) < n => f[s[Len(s)]].referrer = None

LEMMA AncestorsValue ==
    ASSUME NEW f, HasParents(f), NEW p \in Parents, NEW n \in Nat
    PROVE  IsChain(f, p, n, Ancestors(f, p, n))
<1> DEFINE V == Seq(Accounts)
           next(k, below) == IF k = 1 THEN p
                             ELSE IF Len(below) < k - 1 THEN None
                             ELSE f[below[k - 1]].referrer
           step(k, below) == IF next(k, below) = None THEN below
                             ELSE Append(below, next(k, below))
           F == [x \in (1..n) \X V |-> step(x[1], x[2])]
           Def(g) == g = [k \in 0..n |-> IF k = 0 THEN <<>> ELSE step(k, g[k - 1])]
           up == CHOOSE g : Def(g)
<1>1. <<>> \in V /\ None \notin Accounts
  BY ReferralAssumption
<1>2. ASSUME NEW k \in 1..n, NEW below \in V PROVE next(k, below) \in Parents
  <2>1. CASE k # 1 /\ Len(below) >= k - 1
    <3>1. k - 1 \in 1..Len(below)
      BY <2>1
    <3>2. below[k - 1] \in Accounts
      BY <3>1
    <3>. QED  BY <2>1, <3>2 DEF HasParents
  <2>. QED  BY <2>1 DEF Parents
<1>3. ASSUME NEW k \in 1..n, NEW below \in V PROVE step(k, below) \in V
  <2>. HIDE DEF next
  <2>. QED  BY <1>2, <1>3 DEF Parents
<1>4. F \in [(1..n) \X V -> V]
  <2>. HIDE DEF V, step
  <2>. QED  BY <1>3
<1>. HIDE DEF step
<1>5. ASSUME NEW g \in [0..n -> V], Recursion(g, n, <<>>, F) PROVE Def(g)
  <2>. HIDE DEF V
  <2>1. ASSUME NEW k \in 0..n
        PROVE  g[k] = IF k = 0 THEN <<>> ELSE step(k, g[k - 1])
    <3>1. g[k] = IF k = 0 THEN <<>> ELSE F[<<k, g[k - 1]>>]
      BY <1>5 DEF Recursion
    <3>2. CASE k # 0
      <4>1. k \in 1..n /\ k - 1 \in 0..n
        BY <3>2
      <4>. QED  BY <3>1, <4>1
    <3>. QED  BY <3>1, <3>2
  <2>. QED  BY <2>1
<1>6. Def(up)
  <2>1. PICK g \in [0..n -> V] : Recursion(g, n, <<>>, F)
    <3>. HIDE DEF V, F
    <3>. QED  BY <1>1, <1>4, RecursionExists
  <2>2. \E h : Def(h)
    BY <1>5, <2>1
  <2>. HIDE DEF Def
  <2>. QED  BY <2>2
<1>7. Ancestors(f, p, n) = up[n]
  BY DEF Ancestors, step
<1>. HIDE DEF up
<1>8. up[0] = <<>> /\ \A k \in 1..n : up[k] = step(k, up[k - 1])
  BY <1>6
<1> DEFINE A == {k \in 0..n : IsChain(f, p, k, up[k])}
<1>9. 0 \in A
  <2>1. IsChain(f, p, 0, <<>>)
    BY DEF IsChain
  <2>. QED  BY <1>8, <2>1
<1>10. ASSUME NEW k \in 1..n, k - 1 \in A PROVE k \in A
  <2> DEFINE below == up[k - 1]
             nxt == next(k, below)
  <2>1. IsChain(f, p, k - 1, below) /\ below \in V
    BY <1>10 DEF IsChain
  <2>2. up[k] = IF nxt = None THEN below ELSE Append(below, nxt)
    BY <1>8 DEF step
  <2>3. nxt \in Parents
    BY <1>2, <2>1
  <2>4. nxt = IF k = 1 THEN p ELSE IF Len(below) < k - 1 THEN None
              ELSE f[below[k - 1]].referrer
    OBVIOUS
  <2>. HIDE DEF below, nxt
  <2>5. CASE nxt = None
    <3>1. k # 1 => below = <<>> \/ Len(below) < k - 1
                   \/ (Len(below) = k - 1 /\ f[below[Len(below)]].referrer = None)
      BY <2>1, <2>4, <2>5 DEF IsChain
    <3>2. k = 1 => p = None /\ below = <<>>
      BY <2>1, <2>4, <2>5 DEF IsChain
    <3>3. below = <<>> => p = None
      BY <2>1, <3>2 DEF IsChain
    <3>4. IsChain(f, p, k, below)
      BY <2>1, <3>1, <3>2, <3>3 DEF IsChain
    <3>. QED  BY <2>2, <2>5, <3>4
  <2>6. CASE nxt # None
    <3> DEFINE s == Append(below, nxt)
    <3>1. nxt \in Accounts
      BY <2>3, <2>6 DEF Parents
    <3>2. Len(below) = k - 1
      BY <2>1, <2>4, <2>6 DEF IsChain
    <3>3. s \in Seq(Accounts) /\ Len(s) = k /\ s[k] = nxt /\ s # <<>>
          /\ \A i \in 1..(k - 1) : s[i] = below[i]
      <4>1. below \in Seq(Accounts)
        BY <2>1
      <4>. QED  BY <3>1, <3>2, <4>1
    <3>4. s[1] = p
      <4>1. CASE k = 1
        BY <2>4, <3>3, <4>1
      <4>2. CASE k # 1
        BY <2>1, <3>2, <3>3, <4>2 DEF IsChain
      <4>. QED  BY <4>1, <4>2
    <3>5. ASSUME NEW i \in 1..(k - 1) PROVE f[s[i]].referrer = s[i + 1]
      <4>1. CASE i = k - 1
        <5>1. k # 1 /\ nxt = f[below[k - 1]].referrer
          BY <2>4, <3>2, <4>1
        <5>. QED  BY <3>3, <4>1, <5>1
      <4>2. CASE i # k - 1
        <5>1. i \in 1..(Len(below) - 1) /\ i + 1 \in 1..(k - 1)
          BY <3>2, <4>2
        <5>. QED  BY <2>1, <3>3, <5>1 DEF IsChain
      <4>. QED  BY <4>1, <4>2
    <3>. HIDE DEF s
    <3>6. IsChain(f, p, k, s)
      BY <3>3, <3>4, <3>5 DEF IsChain
    <3>7. up[k] = s
      BY <2>2, <2>6 DEF s
    <3>. QED  BY <3>6, <3>7
  <2>. QED  BY <2>5, <2>6
<1>. HIDE DEF A
<1>11. \A k \in 0..n : k \in A
  BY <1>9, <1>10, UpTo
<1>. QED  BY <1>7, <1>11 DEF A

\* The accounts above, from p upwards.
Over(f, p) == Range(Ancestors(f, p, Cardinality(Accounts)))

LEMMA AccountsCount == Cardinality(Accounts) \in Nat
BY ReferralAssumption, FS_CardinalityType

LEMMA ChainIsPath ==
    ASSUME NEW f, HasParents(f), NEW p, NEW n \in Nat, NEW s, IsChain(f, p, n, s)
    PROVE  Upwards(Referred(f), Len(s), s)
<1>1. Len(s) \in Nat /\ s \in [1..Len(s) -> Accounts]
  BY DEF IsChain
<1>2. ASSUME NEW k \in 1..(Len(s) - 1) PROVE Referred(f)[s[k]] = s[k + 1]
  <2>1. k \in 1..Len(s)
    OBVIOUS
  <2>2. s[k] \in Accounts
    BY <1>1, <2>1
  <2>. QED  BY <2>2 DEF IsChain, Referred
<1>. QED  BY <1>1, <1>2 DEF Upwards

LEMMA ReferredType ==
    ASSUME NEW f, HasParents(f) PROVE Referred(f) \in [Accounts -> Parents]
BY DEF HasParents, Referred

(***************************************************************************)
(* In a forest the walk goes to the top: with an account it meets his      *)
(* referrer, if he has one.                                                *)
(***************************************************************************)
LEMMA OverClosed ==
    ASSUME NEW f, HasParents(f), Acyclic(Referred(f)), NEW p \in Parents
    PROVE  /\ Over(f, p) \subseteq Accounts
           /\ p # None => p \in Over(f, p)
           /\ \A a \in Over(f, p) : f[a].referrer \in Over(f, p) \cup {None}
           /\ p # None => \E a \in Over(f, p) : f[a].referrer = None
<1> DEFINE N == Cardinality(Accounts)
           s == Ancestors(f, p, N)
           C == Over(f, p)
<1>1. N \in Nat /\ IsChain(f, p, N, s)
  BY AccountsCount, AncestorsValue
<1>2. C = {s[k] : k \in 1..Len(s)} /\ Len(s) \in Nat /\ s \in [1..Len(s) -> Accounts]
  <2>1. s \in Seq(Accounts)
    BY <1>1 DEF IsChain
  <2>. QED  BY <2>1 DEF Over, Range
<1>3. Upwards(Referred(f), Len(s), s) /\ Referred(f) \in [Accounts -> Parents]
  BY <1>1, ChainIsPath, ReferredType
<1>4. Len(s) <= N /\ (Len(s) = N => \A a \in Accounts : \E k \in 1..Len(s) : s[k] = a)
  <2>. HIDE DEF s
  <2>. QED  BY <1>2, <1>3, PathShort
<1>. HIDE DEF C, s
<1>5. C \subseteq Accounts
  BY <1>2
<1>6. p # None => p \in C
  <2>1. CASE s = <<>>
    <3>1. N = 0 \/ p = None
      BY <1>1, <2>1 DEF IsChain
    <3>2. N = 0 => Accounts = {}
      BY ReferralAssumption, FS_EmptySet
    <3>. QED  BY <3>1, <3>2 DEF Parents
  <2>2. CASE s # <<>>
    <3>1. 1 \in 1..Len(s)
      <4>1. s \in Seq(Accounts)
        BY <1>1 DEF IsChain
      <4>. QED  BY <2>2, <4>1
    <3>. QED  BY <1>1, <1>2, <2>2, <3>1 DEF IsChain
  <2>. QED  BY <2>1, <2>2
<1>7. ASSUME NEW a \in C PROVE f[a].referrer \in C \cup {None}
  <2>1. PICK k \in 1..Len(s) : s[k] = a
    BY <1>2
  <2>2. CASE k # Len(s)
    <3>1. k \in 1..(Len(s) - 1) /\ k + 1 \in 1..Len(s)
      <4> DEFINE len == Len(s)
      <4>1. len \in Nat /\ k \in 1..len /\ k # len
        BY <1>2, <2>2
      <4>. HIDE DEF len
      <4>2. k \in 1..(len - 1) /\ k + 1 \in 1..len
        BY <4>1
      <4>. QED  BY <4>2 DEF len
    <3>2. f[s[k]].referrer = s[k + 1]
      BY <1>1, <3>1 DEF IsChain
    <3>. QED  BY <1>2, <2>1, <3>1, <3>2
  <2>3. CASE k = Len(s) /\ Len(s) # N
    <3>1. s # <<>> /\ Len(s) < N
      BY <1>2, <1>4, <1>1, <2>3
    <3>. QED  BY <1>1, <2>1, <2>3, <3>1 DEF IsChain
  <2>4. CASE Len(s) = N
    <3>1. Accounts \subseteq C
      BY <1>2, <1>4, <2>4
    <3>2. f[a].referrer \in Parents
      BY <1>5 DEF HasParents
    <3>. QED  BY <3>1, <3>2 DEF Parents
  <2>. QED  BY <2>2, <2>3, <2>4
<1>8. ASSUME p # None PROVE \E a \in C : f[a].referrer = None
  <2>1. DOMAIN Referred(f) = Accounts
    BY DEF Referred
  <2>2. PICK a \in C : Referred(f)[a] \notin C
    BY <1>5, <1>6, <1>8, <2>1 DEF Acyclic
  <2>3. f[a].referrer \notin C
    BY <1>5, <2>2 DEF Referred
  <2>. QED  BY <1>7, <2>3
<1>. QED  BY <1>5, <1>6, <1>7, <1>8 DEF C

(***************************************************************************)
(* Nobody is above himself.                                                *)
(***************************************************************************)
LEMMA NotOver ==
    ASSUME NEW f, HasParents(f), Acyclic(Referred(f)), NEW a \in Accounts
    PROVE  a \notin Over(f, f[a].referrer)
<1> DEFINE N == Cardinality(Accounts)
           p == f[a].referrer
           s == Ancestors(f, p, N)
<1>. SUFFICES ASSUME a \in Over(f, p) PROVE FALSE
  OBVIOUS
<1>1. N \in Nat /\ p \in Parents
  BY AccountsCount DEF HasParents
<1>2. IsChain(f, p, N, s)
  BY <1>1, AncestorsValue
<1>3. Upwards(Referred(f), Len(s), s) /\ Referred(f) \in [Accounts -> Parents]
  BY <1>1, <1>2, ChainIsPath, ReferredType
<1>4. Len(s) \in Nat /\ s \in Seq(Accounts) /\ DOMAIN s = 1..Len(s)
  BY <1>2 DEF IsChain
<1>5. PICK j \in 1..Len(s) : s[j] = a
  BY <1>4 DEF Over, Range
<1>. HIDE DEF s
<1> DEFINE S == {s[k] : k \in 1..j}
<1>6. s[1] = p /\ 1 \in 1..j
  BY <1>2, <1>4, <1>5 DEF IsChain
<1>7. S \in SUBSET DOMAIN Referred(f) /\ S # {}
  <2>1. \A k \in 1..j : k \in 1..Len(s)
    BY <1>4, <1>5
  <2>2. S \subseteq Accounts
    BY <1>4, <2>1
  <2>. QED  BY <1>6, <2>2 DEF Referred
<1>8. ASSUME NEW k \in 1..j PROVE Referred(f)[s[k]] \in S
  <2>1. CASE k = j
    BY <1>5, <1>6, <2>1 DEF Referred
  <2>2. CASE k # j
    <3>1. k \in 1..(Len(s) - 1) /\ k + 1 \in 1..j
      BY <1>4, <1>5, <2>2
    <3>. QED  BY <1>3, <3>1 DEF Upwards
  <2>. QED  BY <2>1, <2>2
<1>9. \A b \in S : Referred(f)[b] \in S
  BY <1>8
<1>. HIDE DEF S
<1>. QED  BY <1>7, <1>9 DEF Acyclic

(***************************************************************************)
(* An account may move to whom it is not above.                            *)
(***************************************************************************)
LEMMA MoveAcyclic ==
    ASSUME NEW ref \in [Accounts -> Parents], Acyclic(ref),
           NEW a \in Accounts, NEW p \in Parents, NEW C \in SUBSET Accounts,
           p \in C \cup {None}, a \notin C, \A b \in C : ref[b] \in C \cup {None}
    PROVE  Acyclic([ref EXCEPT ![a] = p])
<1> DEFINE to == [ref EXCEPT ![a] = p]
<1>1. DOMAIN to = Accounts /\ DOMAIN ref = Accounts
  OBVIOUS
<1>2. ASSUME NEW S \in SUBSET Accounts, S # {}, \A b \in S : to[b] \in S PROVE FALSE
  <2>1. None \notin S
    BY ReferralAssumption
  <2>2. CASE a \notin S
    <3>1. \A b \in S : ref[b] \in S
      BY <1>2, <2>2
    <3>. QED  BY <1>1, <1>2, <3>1 DEF Acyclic
  <2>3. CASE a \in S
    <3>1. p \in S \cap C
      BY <1>2, <2>1, <2>3
    <3>2. \A b \in S \cap C : ref[b] \in S \cap C
      BY <1>2, <2>1
    <3>. QED  BY <1>1, <3>1, <3>2 DEF Acyclic
  <2>. QED  BY <2>2, <2>3
<1>. HIDE DEF to
<1>. QED  BY <1>1, <1>2 DEF Acyclic, to

(***************************************************************************)
(* Referrals may move to the referrer of their referrer.                   *)
(***************************************************************************)
LEMMA RiseAcyclic ==
    ASSUME NEW ref \in [Accounts -> Parents], Acyclic(ref), NEW a \in Accounts,
           NEW R \in SUBSET Accounts, \A b \in R : ref[b] = a
    PROVE  Acyclic([b \in Accounts |-> IF b \in R THEN ref[a] ELSE ref[b]])
<1> DEFINE to == [b \in Accounts |-> IF b \in R THEN ref[a] ELSE ref[b]]
<1>1. DOMAIN to = Accounts /\ DOMAIN ref = Accounts
  OBVIOUS
<1>2. ASSUME NEW S \in SUBSET Accounts, S # {}, \A b \in S : to[b] \in S PROVE FALSE
  <2>1. CASE S \cap R = {}
    <3>1. \A b \in S : ref[b] \in S
      BY <1>2, <2>1
    <3>. QED  BY <1>1, <1>2, <3>1 DEF Acyclic
  <2>2. CASE S \cap R # {}
    <3>1. ref[a] \in S
      BY <1>2, <2>2
    <3>2. \A b \in S \cup {a} : ref[b] \in S \cup {a}
      BY <1>2, <3>1
    <3>. QED  BY <1>1, <3>2 DEF Acyclic
  <2>. QED  BY <2>1, <2>2
<1>. HIDE DEF to
<1>. QED  BY <1>1, <1>2 DEF Acyclic, to

(***************************************************************************)
(* Who looks for a referrer finds one, for the top is always open.         *)
(***************************************************************************)
LEMMA FirstOpenFound ==
    ASSUME NEW f, HasParents(f), Acyclic(Referred(f)), NEW p \in Parents
    PROVE  /\ FirstOpen(f, p) \in Over(f, p) \cup {None}
           /\ p # None => FirstOpen(f, p) # None
<1> DEFINE s == Ancestors(f, p, Cardinality(Accounts))
           open == {k \in DOMAIN s : ~RegistrationClosed(f[s[k]])}
<1>1. /\ Over(f, p) = {s[k] : k \in DOMAIN s}
      /\ s \in Seq(Accounts)
  BY AccountsCount, AncestorsValue DEF Over, Range, IsChain
<1>2. FirstOpen(f, p) = IF open = {} THEN None ELSE s[Min(open)]
  BY DEF FirstOpen
<1>. HIDE DEF s
<1>3. open # {} => Min(open) \in open
  <2>1. open \in SUBSET Nat
    BY <1>1
  <2>. HIDE DEF open
  <2>. QED  BY <2>1, MinOfNaturals
<1>4. ASSUME p # None PROVE open # {}
  <2>1. PICK a \in Over(f, p) : f[a].referrer = None
    BY <1>4, OverClosed
  <2>2. PICK k \in DOMAIN s : s[k] = a
    BY <1>1
  <2>3. ~RegistrationClosed(f[a])
    BY <2>1 DEF RegistrationClosed
  <2>. QED  BY <2>2, <2>3
<1>5. open # {} => s[Min(open)] \in Over(f, p) /\ s[Min(open)] # None
  <2>1. open # {} => Min(open) \in DOMAIN s
    BY <1>3
  <2>. HIDE DEF open
  <2>. QED  BY <1>1, <2>1, ReferralAssumption
<1>. QED  BY <1>2, <1>4, <1>5

-----------------------------------------------------------------------------
(* Records and worlds.                                                     *)

\* Whom a downgrade waits for has a status to lose.
Records == {r \in Info : r.downgradeAt # NoTime => r.status >= 1}

Worlds ==
    [infos : [Accounts -> Records], tasks : SUBSET Task(Handlers, Accounts),
     index : SUBSET ((0..MaxStatus) \X Accounts), broken : BOOLEAN]

\* Sums by line, what the ancestors at each level gain, and who comes to their lists.
LineSums == [Sums -> [Lines -> Int]]
Gains == {g \in [1..Depth -> LineSums] :
            \A k \in 1..Depth : g[k]["coins"][0] = 0 /\ g[k]["delegated"][0] = 0}
Links == [join : SUBSET Accounts, leave : SUBSET Accounts,
          rise : SUBSET Accounts, fall : SUBSET Accounts]

\* The same place in the tree, and known if it was.
SamePlace(r, q) ==
    /\ q.referrer = r.referrer /\ q.referrals = r.referrals
    /\ q.activeReferrals = r.activeReferrals
    /\ q.active = r.active /\ q.banished = r.banished
    /\ IsEmpty(q) => IsEmpty(r)

\* The account has and delegates what it did.
SameStake(r, q) ==
    /\ q.lines["coins"][0] = r.lines["coins"][0]
    /\ q.lines["delegated"][0] = r.lines["delegated"][0]

Alike(r, q) == SamePlace(r, q) /\ SameStake(r, q)

\* From the world w a handler comes to v, where the records are as in f, up to
\* sums, statuses and times, unless it has failed.
Becomes(w, v, f) ==
    /\ v \in Worlds
    /\ v.broken \/ (~w.broken /\ \A c \in Accounts : Alike(f[c], v.infos[c]))

LEMMA Constants ==
    /\ Depth \in Nat \ {0} /\ CountLimit \in Nat \ {0} /\ MaxStatus \in Nat \ {0}
    /\ MinIndexed \in 2..MaxStatus /\ Day \in Nat \ {0} /\ Month \in Nat \ {0}
    /\ None \notin Accounts /\ NoTime \notin Nat /\ 0 \in Lines /\ 1 \in 1..Depth
    /\ Dust \in Nat /\ Price \in Nat /\ Tariff \in Nat
    /\ \A h \in Holdings : h \in Holding
BY ReferralAssumption DEF Lines

LEMMA InfoFields ==
    ASSUME NEW r \in Info
    PROVE  /\ r.status \in 0..MaxStatus /\ r.referrer \in Parents
           /\ r.referrals \in SUBSET Accounts /\ r.activeReferrals \in SUBSET Accounts
           /\ r.lines \in LineSums
           /\ \A x \in Lines : r.lines["coins"][x] \in Int /\ r.lines["delegated"][x] \in Int
           /\ r.active \in BOOLEAN /\ r.banished \in BOOLEAN
           /\ r.transition \in Parents
           /\ r.compressionAt \in Moments /\ r.banishmentAt \in Moments
           /\ r.downgradeAt \in Moments
BY DEF Info, Parents, LineSums, Sums

LEMMA AdjustRecord ==
    ASSUME NEW r \in Records, NEW d \in LineSums
    PROVE  /\ Adjust(r, d) \in Records
           /\ \A f \in {"coins", "delegated"} :
                Adjust(r, d).lines[f][0] = r.lines[f][0] + d[f][0]
           /\ Adjust(r, d) = [r EXCEPT !.lines = Adjust(r, d).lines]
<1> DEFINE lines == [f \in Sums |-> [i \in Lines |-> Stored(f, r.lines[f][i] + d[f][i])]]
<1>1. ASSUME NEW f \in Sums, NEW i \in Lines PROVE Stored(f, r.lines[f][i] + d[f][i]) \in Int
  <2>1. r.lines[f][i] \in Int /\ d[f][i] \in Int
    BY DEF Records, Info, LineSums
  <2>2. \A x \in Int : x % CountLimit \in Int
    BY Constants
  <2>. QED  BY <2>1, <2>2 DEF Stored
<1>2. lines \in LineSums
  BY <1>1 DEF LineSums
<1>3. \A f \in {"coins", "delegated"} : lines[f][0] = r.lines[f][0] + d[f][0]
  BY Constants DEF Stored, Sums
<1>4. Adjust(r, d) = [r EXCEPT !.lines = lines]
  BY DEF Adjust
<1>. HIDE DEF lines
<1>5. [r EXCEPT !.lines = lines] \in Records
  BY <1>2 DEF Records, Info, LineSums
<1>6. [r EXCEPT !.lines = lines].lines = lines
  BY DEF Records, Info
<1>. QED  BY <1>3, <1>4, <1>5, <1>6

LEMMA AdjustAlike ==
    ASSUME NEW r \in Records, NEW d \in LineSums, d["coins"][0] = 0, d["delegated"][0] = 0
    PROVE  Adjust(r, d) \in Records /\ Alike(r, Adjust(r, d))
<1>1. /\ Adjust(r, d) \in Records
      /\ \A f \in {"coins", "delegated"} :
                Adjust(r, d).lines[f][0] = r.lines[f][0] + d[f][0]
      /\ Adjust(r, d) = [r EXCEPT !.lines = Adjust(r, d).lines]
  BY AdjustRecord
<1> DEFINE lines == Adjust(r, d).lines
<1>2. r \in Info /\ r.lines["coins"][0] \in Int /\ r.lines["delegated"][0] \in Int
  BY InfoFields, Constants DEF Records
<1>3. lines["coins"][0] = r.lines["coins"][0] /\ lines["delegated"][0] = r.lines["delegated"][0]
  BY <1>1, <1>2
<1>. HIDE DEF lines
<1>4. Alike(r, [r EXCEPT !.lines = lines])
  BY <1>2, <1>3 DEF Alike, SamePlace, SameStake, Info, IsEmpty
<1>. QED  BY <1>1, <1>4 DEF lines

LEMMA LinkedRecord ==
    ASSUME NEW r \in Records, NEW link \in Links
    PROVE  /\ Linked(r, link) \in Records
           /\ Linked(r, link).referrals = (r.referrals \ link.leave) \cup link.join
           /\ Linked(r, link).activeReferrals = (r.activeReferrals \ link.fall) \cup link.rise
           /\ Linked(r, link).referrer = r.referrer /\ Linked(r, link).active = r.active
           /\ Linked(r, link).banished = r.banished /\ Linked(r, link).lines = r.lines
           /\ Linked(r, link).status = r.status
<1> DEFINE R == (r.referrals \ link.leave) \cup link.join
           A == (r.activeReferrals \ link.fall) \cup link.rise
<1>1. r \in Info /\ R \in SUBSET Accounts /\ A \in SUBSET Accounts
  BY InfoFields DEF Records, Links
<1>2. Linked(r, link) = [r EXCEPT !.referrals = R, !.activeReferrals = A]
  BY DEF Linked
<1>. HIDE DEF R, A
<1>3. [r EXCEPT !.referrals = R, !.activeReferrals = A] \in Records
  BY <1>1 DEF Records, Info
<1>4. LET q == [r EXCEPT !.referrals = R, !.activeReferrals = A]
      IN  /\ q.referrals = R /\ q.activeReferrals = A
          /\ q.referrer = r.referrer /\ q.active = r.active
          /\ q.banished = r.banished /\ q.lines = r.lines
          /\ q.status = r.status
  BY <1>1 DEF Info
<1>. QED  BY <1>2, <1>3, <1>4 DEF R, A

LEMMA LinkedAlike ==
    ASSUME NEW r \in Records, NEW q \in Records, NEW link \in Links, Alike(r, q)
    PROVE  Alike(Linked(r, link), Linked(q, link))
BY LinkedRecord DEF Alike, SamePlace, SameStake, IsEmpty

LEMMA AlikeReflexive == ASSUME NEW r PROVE Alike(r, r)
BY DEF Alike, SamePlace, SameStake

LEMMA AlikeTransitive ==
    ASSUME NEW r, NEW q, NEW u, Alike(r, q), Alike(q, u) PROVE Alike(r, u)
BY DEF Alike, SamePlace, SameStake

LEMMA WorldFields ==
    ASSUME NEW w \in Worlds
    PROVE  /\ w.infos \in [Accounts -> Records] /\ w.tasks \subseteq Task(Handlers, Accounts)
           /\ w.index \subseteq (0..MaxStatus) \X Accounts /\ w.broken \in BOOLEAN
BY DEF Worlds

LEMMA ScheduledWorld ==
    ASSUME NEW w \in Worlds, NEW time \in Nat, NEW h \in Handlers, NEW a \in Accounts
    PROVE  /\ Scheduled(w, time, h, a) \in Worlds
           /\ Scheduled(w, time, h, a).infos = w.infos
           /\ Scheduled(w, time, h, a).broken = w.broken
<1>1. Timer(time, h, a) \in Task(Handlers, Accounts)
  BY DEF Timer, Task
<1>2. Put(w.tasks, Timer(time, h, a)) \subseteq Task(Handlers, Accounts)
  BY <1>1, WorldFields DEF Put
<1>. QED  BY <1>2 DEF Scheduled, Worlds

LEMMA WithdrawnWorld ==
    ASSUME NEW w \in Worlds, NEW time, NEW h, NEW a
    PROVE  /\ Withdrawn(w, time, h, a) \in Worlds
           /\ Withdrawn(w, time, h, a).infos = w.infos
           /\ Withdrawn(w, time, h, a).broken = w.broken
<1>1. Remove(w.tasks, time, h, a) \subseteq Task(Handlers, Accounts)
  BY WorldFields DEF Remove, Matching
<1>. QED  BY <1>1 DEF Withdrawn, Worlds

LEMMA UpdateWorld ==
    ASSUME NEW w \in Worlds, NEW a \in Accounts, NEW r \in Records
    PROVE  /\ Update(w, a, r) \in Worlds
           /\ Update(w, a, r).infos = [w.infos EXCEPT ![a] = r]
           /\ Update(w, a, r).broken = w.broken
BY DEF Update, Worlds

LEMMA SetIndexWorld ==
    ASSUME NEW w \in Worlds, NEW a \in Accounts, NEW old, NEW new \in 0..MaxStatus
    PROVE  /\ SetIndex(w, a, old, new) \in Worlds
           /\ SetIndex(w, a, old, new).infos = w.infos
           /\ SetIndex(w, a, old, new).broken = w.broken
<1> DEFINE i == (w.index \ {<<old, a>>}) \cup (IF new >= MinIndexed THEN {<<new, a>>} ELSE {})
<1>1. i \subseteq (0..MaxStatus) \X Accounts
  BY WorldFields
<1>2. SetIndex(w, a, old, new) = [w EXCEPT !.index = i]
  BY DEF SetIndex
<1>. HIDE DEF i
<1>. QED  BY <1>1, <1>2 DEF Worlds

-----------------------------------------------------------------------------
(* Checks of statuses, and climbing along the ancestors.                   *)

(***************************************************************************)
(* A status rises to one that there is; whoever is not banished gets one.  *)
(***************************************************************************)
LEMMA ReachedStatus ==
    ASSUME NEW infos, NEW r \in Records
    PROVE  /\ Reached(infos, r) \in r.status..MaxStatus
           /\ ~r.banished => Reached(infos, r) >= 1
<1> DEFINE S == {s \in r.status..MaxStatus :
                   \A t \in (r.status + 1)..s : Fulfilled(infos, r, t)}
<1>1. r.status \in 0..MaxStatus /\ MaxStatus \in Nat \ {0}
  BY InfoFields, Constants DEF Records
<1>2. r.status \in S /\ S \subseteq r.status..MaxStatus
  BY <1>1
<1>3. IsFiniteSet(S) /\ \A n \in S : n \in Int
  <2>1. IsFiniteSet(r.status..MaxStatus)
    BY <1>1, FS_Interval
  <2>2. IsFiniteSet(S)
    <3>. HIDE DEF S
    <3>. QED  BY <1>2, <2>1, FS_Subset
  <2>. QED  BY <2>2, <1>1
<1>4. ASSUME ~r.banished PROVE \E s \in S : s >= 1
  <2>1. CASE r.status >= 1
    BY <1>2, <2>1
  <2>2. CASE r.status = 0
    <3>1. Fulfilled(infos, r, 1)
      BY <1>4 DEF Fulfilled
    <3>2. \A t \in (r.status + 1)..1 : t = 1
      BY <2>2
    <3>3. 1 \in S
      BY <1>1, <2>2, <3>1, <3>2
    <3>. QED  BY <3>3
  <2>. QED  BY <1>1, <2>1, <2>2
<1>5. Reached(infos, r) = Max(S)
  BY DEF Reached
<1>. HIDE DEF S
<1>6. Max(S) \in S /\ \A n \in S : n <= Max(S)
  BY <1>2, <1>3, MaxOfFinite
<1>7. Max(S) \in r.status..MaxStatus
  BY <1>2, <1>6
<1>8. ~r.banished => Max(S) >= 1
  BY <1>3, <1>4, <1>6
<1>. QED  BY <1>5, <1>7, <1>8

\* v is w, with a record of a that is like r, unless something has failed.
Writes(w, v, a, r) ==
    /\ v \in Worlds
    /\ v.broken \/
         /\ ~w.broken
         /\ \E q \in Records : Alike(r, q) /\ v.infos = [w.infos EXCEPT ![a] = q]

LEMMA CheckedWrites ==
    ASSUME now \in Nat, NEW w \in Worlds, NEW a \in Accounts, NEW r \in Records
    PROVE  /\ Writes(w, Checked(w, a, r), a, r)
           /\ Checked(w, a, r).broken \/ ~IsEmpty(Checked(w, a, r).infos[a])
<1>1. /\ r.status \in 0..MaxStatus /\ r \in Info /\ MaxStatus \in Nat
      /\ r.downgradeAt # NoTime => r.status >= 1
  BY InfoFields, Constants DEF Records
<1> DEFINE Done(v) == \E q \in Records : /\ Alike(r, q) /\ ~IsEmpty(q)
                                         /\ v.infos = [w.infos EXCEPT ![a] = q]
<1>2. ASSUME ~w.broken
      PROVE  Check(w, a, r) \in Worlds /\ ~Check(w, a, r).broken /\ Done(Check(w, a, r))
  <2>1. CASE Fulfilled(w.infos, r, r.status)
    <3> DEFINE s == Reached(w.infos, r)
               q == [r EXCEPT !.status = s, !.downgradeAt = NoTime]
               i == SetIndex(w, a, r.status, s)
    <3>1. s \in r.status..MaxStatus /\ (~r.banished => s >= 1)
      BY ReachedStatus
    <3>2. Check(w, a, r) = Update(i, a, q)
      BY <2>1 DEF Check
    <3>. HIDE DEF s
    <3>3. s \in 0..MaxStatus
      BY <1>1, <3>1
    <3>4. q \in Records
      BY <1>1, <3>3 DEF Records, Info, Moments
    <3>5. q.status = s /\ q.banished = r.banished
      BY <1>1 DEF Info
    <3>6. ~IsEmpty(q)
      BY <3>1, <3>3, <3>5 DEF IsEmpty
    <3>7. Alike(r, q)
      BY <1>1, <3>6 DEF Alike, SamePlace, SameStake, Info
    <3>8. i \in Worlds /\ i.infos = w.infos /\ i.broken = w.broken
      BY <3>3, SetIndexWorld
    <3>. HIDE DEF i, q
    <3>9. /\ Update(i, a, q) \in Worlds /\ ~Update(i, a, q).broken
          /\ Update(i, a, q).infos = [w.infos EXCEPT ![a] = q]
      BY <1>2, <3>4, <3>8, UpdateWorld
    <3>. QED  BY <3>2, <3>4, <3>6, <3>7, <3>9
  <2>2. CASE ~Fulfilled(w.infos, r, r.status)
    <3>1. r.status >= 1 /\ ~IsEmpty(r)
      BY <1>1, <2>2 DEF Fulfilled, IsEmpty
    <3>2. CASE r.downgradeAt = NoTime
      <4> DEFINE time == now + StatusDowngradeAfter
                 q == [r EXCEPT !.downgradeAt = time]
                 u == Update(w, a, q)
      <4>1. Check(w, a, r) = Scheduled(u, time, "downgrade", a)
        BY <2>2, <3>2 DEF Check
      <4>2. time \in Nat
        BY Constants DEF StatusDowngradeAfter
      <4>. HIDE DEF time
      <4>3. q \in Records
        BY <1>1, <3>1, <4>2 DEF Records, Info, Moments
      <4>4. Alike(r, q) /\ ~IsEmpty(q)
        BY <1>1, <3>1 DEF Alike, SamePlace, SameStake, Info, IsEmpty
      <4>. HIDE DEF q
      <4>5. u \in Worlds /\ u.infos = [w.infos EXCEPT ![a] = q] /\ u.broken = w.broken
        BY <4>3, UpdateWorld
      <4>. HIDE DEF u
      <4>6. "downgrade" \in Handlers
        BY DEF Handlers
      <4>7. Check(w, a, r) \in Worlds /\ Check(w, a, r).infos = u.infos
            /\ Check(w, a, r).broken = u.broken
        BY <4>1, <4>2, <4>5, <4>6, ScheduledWorld
      <4>. QED  BY <1>2, <4>3, <4>4, <4>5, <4>7
    <3>3. CASE r.downgradeAt # NoTime
      <4>1. Check(w, a, r) = Update(w, a, r)
        BY <2>2, <3>3 DEF Check
      <4>2. /\ Update(w, a, r) \in Worlds /\ ~Update(w, a, r).broken
            /\ Update(w, a, r).infos = [w.infos EXCEPT ![a] = r]
        BY <1>2, UpdateWorld
      <4>. QED  BY <3>1, <4>1, <4>2, AlikeReflexive
    <3>. QED  BY <3>2, <3>3
  <2>. QED  BY <2>1, <2>2
<1>3. [w EXCEPT !.broken = TRUE] \in Worlds /\ [w EXCEPT !.broken = TRUE].broken
  BY DEF Worlds
<1>4. \/ Checked(w, a, r) = w /\ w.broken
      \/ Checked(w, a, r) = [w EXCEPT !.broken = TRUE]
      \/ ~w.broken /\ Checked(w, a, r) = Check(w, a, r)
  BY DEF Checked
<1> DEFINE v == Checked(w, a, r)
<1>5. v \in Worlds /\ (v.broken \/ (~w.broken /\ Done(v)))
  <2>. HIDE DEF v, Done
  <2>1. CASE v = w /\ w.broken
    BY <2>1
  <2>2. CASE v = [w EXCEPT !.broken = TRUE]
    BY <1>3, <2>2
  <2>3. CASE ~w.broken /\ v = Check(w, a, r)
    BY <1>2, <2>3
  <2>. QED  BY <1>4, <2>1, <2>2, <2>3 DEF v
<1>. HIDE DEF v
<1>6. w.infos \in [Accounts -> Records]
  BY WorldFields
<1>7. Done(v) => ~IsEmpty(v.infos[a])
  BY <1>6
<1>8. Writes(w, v, a, r)
  BY <1>5 DEF Writes
<1>. QED  BY <1>5, <1>7, <1>8 DEF v

LEMMA WrittenWrites ==
    ASSUME now \in Nat, NEW w \in Worlds, NEW a \in Accounts, NEW r \in Records,
           NEW check \in BOOLEAN
    PROVE  LET v == Written(check, w, a, r)
           IN  Writes(w, v, a, r) /\ (check => v.broken \/ ~IsEmpty(v.infos[a]))
<1>1. CASE check
  <2>1. Written(check, w, a, r) = Checked(w, a, r)
    BY <1>1 DEF Written
  <2>. QED  BY <2>1, CheckedWrites
<1>2. CASE ~check
  <2>1. Written(check, w, a, r) = Update(w, a, r)
    BY <1>2 DEF Written
  <2>2. /\ Update(w, a, r) \in Worlds /\ Update(w, a, r).broken = w.broken
        /\ Update(w, a, r).infos = [w.infos EXCEPT ![a] = r]
    BY UpdateWorld
  <2>3. Writes(w, Update(w, a, r), a, r)
    <3>. HIDE DEF Update
    <3>. QED  BY <2>2, AlikeReflexive, WorldFields DEF Writes
  <2>. QED  BY <1>2, <2>1, <2>3
<1>. QED  BY <1>1, <1>2

\* One step of a loop along ancestors: what was like f[a] is like r.
LEMMA WritesBecomes ==
    ASSUME NEW w \in Worlds, NEW u \in Worlds, NEW v, NEW f, NEW g, NEW a \in Accounts,
           NEW r \in Records, Writes(u, v, a, r), Becomes(w, u, f),
           u.broken \/ Alike(g[a], r), \A c \in Accounts \ {a} : g[c] = f[c]
    PROVE  Becomes(w, v, g)
<1>1. CASE v.broken
  BY <1>1 DEF Writes, Becomes
<1>2. CASE ~v.broken
  <2>1. PICK q \in Records : Alike(r, q) /\ v.infos = [u.infos EXCEPT ![a] = q]
    BY <1>2 DEF Writes
  <2>2. ~u.broken /\ ~w.broken /\ v \in Worlds
    BY <1>2 DEF Writes, Becomes
  <2>3. ASSUME NEW c \in Accounts PROVE Alike(g[c], v.infos[c])
    <3>1. u.infos \in [Accounts -> Records]
      BY WorldFields
    <3>2. v.infos[c] = IF c = a THEN q ELSE u.infos[c]
      BY <2>1, <3>1
    <3>3. CASE c = a
      <4>1. Alike(g[a], q)
        BY <2>1, <2>2, AlikeTransitive
      <4>. QED  BY <3>2, <3>3, <4>1
    <3>4. CASE c # a
      BY <2>2, <3>2, <3>4 DEF Becomes
    <3>. QED  BY <3>3, <3>4
  <2>. QED  BY <2>2, <2>3 DEF Becomes
<1>. QED  BY <1>1, <1>2

\* The records after a climb from p, up to sums and statuses.
Climbed(infos, p, link) ==
    [c \in Accounts |-> IF c = p THEN Linked(infos[c], link) ELSE infos[c]]

(***************************************************************************)
(* A climb changes the lists of the first ancestor, and otherwise no more  *)
(* than sums and statuses of the others.                                   *)
(***************************************************************************)
LEMMA ClimbBecomes ==
    ASSUME now \in Nat, NEW w \in Worlds, NEW p \in Parents, NEW n \in 1..Depth,
           NEW link \in Links, NEW gain \in Gains, NEW check \in BOOLEAN
    PROVE  LET v == ClimbIf(check, w, p, n, link, gain)
           IN  /\ Becomes(w, v, Climbed(w.infos, p, link))
               /\ check /\ p # None => v.broken \/ ~IsEmpty(v.infos[p])
<1> DEFINE s == Ancestors(w.infos, p, n)
           L == Len(s)
           V == Worlds
           rec(k, v) == Adjust(IF k = 1 THEN Linked(v.infos[s[k]], link)
                               ELSE v.infos[s[k]], gain[k])
           step(k, v) == Written(check, v, s[k], rec(k, v))
           F == [x \in (1..L) \X V |-> step(x[1], x[2])]
           Def(g) == g = [k \in 0..L |-> IF k = 0 THEN w ELSE step(k, g[k - 1])]
           after == CHOOSE g : Def(g)
<1>1. /\ w.infos \in [Accounts -> Records] /\ HasParents(w.infos) /\ n \in Nat
  <2>1. w.infos \in [Accounts -> Records] /\ n \in Nat
    BY WorldFields, Constants
  <2>2. ASSUME NEW c \in Accounts PROVE w.infos[c].referrer \in Parents
    BY <2>1, InfoFields DEF Records
  <2>. QED  BY <2>1, <2>2 DEF HasParents
<1>2. IsChain(w.infos, p, n, s)
  BY <1>1, AncestorsValue
<1>3. /\ L \in Nat /\ L <= Depth /\ s \in [1..L -> Accounts]
      /\ (L = 0 => p = None) /\ (L # 0 => s[1] = p)
  <2>1. s \in Seq(Accounts) /\ Len(s) <= n /\ n >= 1 /\ n <= Depth /\ n \in Nat
    BY <1>1, <1>2, Constants DEF IsChain
  <2>2. (s = <<>> => p = None) /\ (s # <<>> => s[1] = p)
    BY <1>2, <2>1 DEF IsChain
  <2>3. s = <<>> <=> Len(s) = 0
    BY <2>1
  <2>. HIDE DEF s
  <2>. QED  BY <2>1, <2>2, <2>3, Constants
<1>. HIDE DEF s, L
<1>4. ASSUME NEW k \in 1..L, NEW v \in Worlds
      PROVE  /\ rec(k, v) \in Records
             /\ k = 1 => Alike(Linked(v.infos[s[k]], link), rec(k, v))
             /\ k # 1 => Alike(v.infos[s[k]], rec(k, v))
  <2>1. v.infos[s[k]] \in Records
    BY <1>3, WorldFields
  <2>2. k \in 1..Depth
    BY <1>3, Constants
  <2>3. gain[k] \in LineSums /\ gain[k]["coins"][0] = 0 /\ gain[k]["delegated"][0] = 0
    BY <2>2 DEF Gains
  <2> DEFINE r == v.infos[s[k]]
             d == gain[k]
  <2>. HIDE DEF r, d
  <2>4. Linked(r, link) \in Records
    BY <2>1, LinkedRecord DEF r
  <2>5. rec(k, v) = IF k = 1 THEN Adjust(Linked(r, link), d) ELSE Adjust(r, d)
    BY DEF r, d
  <2>6. Adjust(r, d) \in Records /\ Alike(r, Adjust(r, d))
    BY <2>1, <2>3, AdjustAlike DEF r, d
  <2>7. Adjust(Linked(r, link), d) \in Records /\ Alike(Linked(r, link), Adjust(Linked(r, link), d))
    BY <2>4, <2>3, AdjustAlike DEF d
  <2>8. k = 1 => rec(k, v) \in Records /\ Alike(Linked(r, link), rec(k, v))
    BY <2>5, <2>7
  <2>9. k # 1 => rec(k, v) \in Records /\ Alike(r, rec(k, v))
    BY <2>5, <2>6
  <2>. HIDE DEF rec
  <2>. QED  BY <2>8, <2>9 DEF r
<1>. HIDE DEF rec
<1>5. ASSUME NEW k \in 1..L, NEW v \in Worlds
      PROVE  /\ Writes(v, step(k, v), s[k], rec(k, v)) /\ step(k, v) \in Worlds
             /\ check => step(k, v).broken \/ ~IsEmpty(step(k, v).infos[s[k]])
  <2>1. s[k] \in Accounts /\ rec(k, v) \in Records
    BY <1>3, <1>4
  <2>2. LET u == Written(check, v, s[k], rec(k, v))
        IN  Writes(v, u, s[k], rec(k, v)) /\ (check => u.broken \/ ~IsEmpty(u.infos[s[k]]))
    BY <2>1, WrittenWrites
  <2>. QED  BY <2>2 DEF Writes
<1>. HIDE DEF step
<1>6. F \in [(1..L) \X V -> V]
  <2>1. ASSUME NEW x \in (1..L) \X V PROVE step(x[1], x[2]) \in V
    <3>1. x[1] \in 1..L /\ x[2] \in Worlds
      OBVIOUS
    <3>. QED  BY <3>1, <1>5
  <2>. HIDE DEF V
  <2>. QED  BY <2>1
<1>7. ASSUME NEW g \in [0..L -> V], Recursion(g, L, w, F) PROVE Def(g)
  <2>. HIDE DEF V
  <2>1. ASSUME NEW k \in 0..L
        PROVE  g[k] = IF k = 0 THEN w ELSE step(k, g[k - 1])
    <3>1. g[k] = IF k = 0 THEN w ELSE F[<<k, g[k - 1]>>]
      BY <1>7 DEF Recursion
    <3>2. CASE k # 0
      <4>1. k \in 1..L /\ k - 1 \in 0..L
        BY <1>3, <3>2
      <4>. QED  BY <3>1, <4>1
    <3>. QED  BY <3>1, <3>2
  <2>. QED  BY <2>1
<1>8. Def(after)
  <2>1. PICK g \in [0..L -> V] : Recursion(g, L, w, F)
    <3>. HIDE DEF F
    <3>. QED  BY <1>3, <1>6, RecursionExists
  <2>2. \E h : Def(h)
    BY <1>7, <2>1
  <2>. HIDE DEF Def
  <2>. QED  BY <2>2
<1>9. ClimbIf(check, w, p, n, link, gain) = after[L]
  BY DEF ClimbIf, step, rec, s, L
<1>. HIDE DEF after
<1>10. after[0] = w /\ \A k \in 1..L : after[k] = step(k, after[k - 1])
  BY <1>3, <1>8
<1> DEFINE T == Climbed(w.infos, p, link)
           P(k, v) == /\ Becomes(w, v, IF k = 0 THEN w.infos ELSE T)
                      /\ check /\ k # 0 => v.broken \/ ~IsEmpty(v.infos[p])
           A == {k \in 0..L : P(k, after[k])}
<1>11. 0 \in A
  <2>1. Becomes(w, w, w.infos)
    BY AlikeReflexive DEF Becomes
  <2>. QED  BY <1>3, <1>10, <2>1
<1>12. ASSUME NEW k \in 1..L, k - 1 \in A PROVE k \in A
  <2> DEFINE u == after[k - 1]
             v == after[k]
             f == IF k - 1 = 0 THEN w.infos ELSE T
  <2>1. k # 0 /\ L # 0 /\ p = s[1] /\ p \in Accounts /\ (k # 1 <=> k - 1 # 0) /\ k \in Nat
    BY <1>3
  <2>2. Becomes(w, u, f) /\ u \in Worlds
    BY <1>12 DEF Becomes
  <2>3. /\ v = step(k, u) /\ Writes(u, v, s[k], rec(k, u)) /\ s[k] \in Accounts
        /\ check => v.broken \/ ~IsEmpty(v.infos[s[k]])
        /\ rec(k, u) \in Records
    BY <1>3, <1>4, <1>5, <1>10, <2>2
  <2>4. check /\ k # 1 => u.broken \/ ~IsEmpty(u.infos[p])
    BY <1>12, <2>1
  <2>5. \A c \in Accounts \ {s[k]} : T[c] = f[c]
    <3>1. CASE k = 1
      BY <2>1, <3>1 DEF Climbed
    <3>2. CASE k # 1
      BY <2>1, <3>2
    <3>. QED  BY <3>1, <3>2
  <2>6. u.broken \/ Alike(T[s[k]], rec(k, u))
    <3>1. u.broken \/ Alike(f[s[k]], u.infos[s[k]])
      BY <2>2, <2>3 DEF Becomes
    <3>2. CASE k # 1
      <4>1. Alike(u.infos[s[k]], rec(k, u))
        BY <1>4, <2>2, <3>2
      <4>2. f = T
        BY <2>1, <3>2
      <4>. HIDE DEF f, T, u
      <4>. QED  BY <3>1, <4>1, <4>2, AlikeTransitive
    <3>3. CASE k = 1
      <4>1. Alike(Linked(u.infos[p], link), rec(k, u))
        BY <1>4, <2>1, <2>2, <3>3
      <4>2. u = w /\ T[p] = Linked(u.infos[p], link) /\ s[k] = p
        BY <1>10, <2>1, <3>3 DEF Climbed
      <4>. HIDE DEF T, u
      <4>. QED  BY <4>1, <4>2
    <3>. QED  BY <3>2, <3>3
  <2>. HIDE DEF u, v, f, T
  <2>7. Becomes(w, v, T)
    BY <2>2, <2>3, <2>5, <2>6, WritesBecomes
  <2>8. check => v.broken \/ ~IsEmpty(v.infos[p])
    <3>1. CASE k = 1
      BY <2>1, <2>3, <3>1
    <3>2. CASE k # 1 /\ check /\ ~v.broken
      <4>1. PICK q \in Records : Alike(rec(k, u), q) /\ v.infos = [u.infos EXCEPT ![s[k]] = q]
        BY <2>3, <3>2 DEF Writes
      <4>2. ~u.broken
        BY <2>3, <3>2 DEF Writes
      <4>3. ~IsEmpty(u.infos[p]) /\ u.infos \in [Accounts -> Records]
        BY <2>2, <2>4, <3>2, <4>2, WorldFields
      <4>4. CASE s[k] = p
        BY <2>1, <2>3, <3>2, <4>4
      <4>5. CASE s[k] # p
        BY <2>1, <4>1, <4>3, <4>5
      <4>. QED  BY <4>4, <4>5
    <3>. QED  BY <3>1, <3>2
  <2>. QED  BY <2>1, <2>7, <2>8 DEF v
<1>. HIDE DEF A
<1>13. \A k \in 0..L : k \in A
  BY <1>3, <1>11, <1>12, UpTo
<1>14. P(L, after[L])
  BY <1>3, <1>13 DEF A
<1>15. L = 0 => T = w.infos
  <2>1. ASSUME L = 0, NEW c \in Accounts PROVE T[c] = w.infos[c]
    BY <1>3, <2>1, Constants DEF Climbed
  <2>. QED  BY <1>1, <2>1 DEF Climbed
<1>16. Becomes(w, after[L], T) /\ (check /\ p # None => after[L].broken \/ ~IsEmpty(after[L].infos[p]))
  <2>1. CASE L = 0
    <3>1. p = None
      BY <1>3, <2>1
    <3>. QED  BY <1>14, <1>15, <2>1, <3>1
  <2>2. CASE L # 0
    BY <1>14, <2>2
  <2>. QED  BY <2>1, <2>2
<1>. HIDE DEF T
<1>. QED  BY <1>9, <1>16 DEF T

-----------------------------------------------------------------------------
(* What holds of the records between two handlers.                         *)

\* A forest, with the lists of referrals it makes.
Tree(f) ==
    /\ Acyclic(Referred(f))
    /\ \A a \in Accounts :
         /\ f[a].referrals = {b \in Accounts : ~f[b].banished /\ f[b].referrer = a}
         /\ f[a].activeReferrals = {b \in Accounts : f[b].active /\ f[b].referrer = a}
         /\ f[a].banished => ~f[a].active
         /\ f[a].referrer # None => ~IsEmpty(f[f[a].referrer])

\* Nobody has delegated more than he owns.
Wealthy(r) == 0 <= r.lines["delegated"][0] /\ r.lines["delegated"][0] <= r.lines["coins"][0]

Good(f) == Tree(f) /\ \A a \in Accounts : Wealthy(f[a])

\* Who is banished.
Banished(f) == {a \in Accounts : f[a].banished}

\* In g, who has a referrer in f has one, and whom f knows is known.
Stay(f, g) ==
    \A a \in Accounts : /\ f[a].referrer # None => g[a].referrer # None
                        /\ IsEmpty(g[a]) => IsEmpty(f[a])

(***************************************************************************)
(* Sums, statuses and times do not matter to the tree.                     *)
(***************************************************************************)
LEMMA TreeSamePlace ==
    ASSUME NEW f \in [Accounts -> Records], NEW g,
           \A c \in Accounts : SamePlace(f[c], g[c])
    PROVE  /\ Tree(f) => Tree(g)
           /\ Banished(g) = Banished(f) /\ Stay(f, g)
<1>1. Referred(g) = Referred(f)
  BY DEF Referred, SamePlace
<1>2. ASSUME Tree(f), NEW a \in Accounts
      PROVE  /\ g[a].referrals = {b \in Accounts : ~g[b].banished /\ g[b].referrer = a}
             /\ g[a].activeReferrals = {b \in Accounts : g[b].active /\ g[b].referrer = a}
             /\ g[a].banished => ~g[a].active
             /\ g[a].referrer # None => ~IsEmpty(g[g[a].referrer])
  <2>1. /\ g[a].referrals = f[a].referrals /\ g[a].activeReferrals = f[a].activeReferrals
        /\ g[a].referrer = f[a].referrer /\ g[a].banished = f[a].banished
        /\ g[a].active = f[a].active
    BY DEF SamePlace
  <2>2. {b \in Accounts : ~g[b].banished /\ g[b].referrer = a}
          = {b \in Accounts : ~f[b].banished /\ f[b].referrer = a}
    BY DEF SamePlace
  <2>3. {b \in Accounts : g[b].active /\ g[b].referrer = a}
          = {b \in Accounts : f[b].active /\ f[b].referrer = a}
    BY DEF SamePlace
  <2>4. f[a].referrer # None => ~IsEmpty(f[f[a].referrer]) /\ f[a].referrer \in Accounts
    <3>1. f[a].referrer \in Parents
      BY InfoFields DEF Records
    <3>. QED  BY <1>2, <3>1 DEF Tree, Parents
  <2>5. g[a].referrer # None => ~IsEmpty(g[g[a].referrer])
    BY <2>1, <2>4 DEF SamePlace
  <2>. QED  BY <1>2, <2>1, <2>2, <2>3, <2>5 DEF Tree
<1>3. Tree(f) => Tree(g)
  BY <1>1, <1>2 DEF Tree
<1>4. Banished(g) = Banished(f) /\ Stay(f, g)
  BY DEF SamePlace, Banished, Stay
<1>. QED  BY <1>3, <1>4

(***************************************************************************)
(* Nor do they matter to who owns what.                                    *)
(***************************************************************************)
LEMMA GoodAlike ==
    ASSUME NEW f \in [Accounts -> Records], NEW g,
           \A c \in Accounts : Alike(f[c], g[c])
    PROVE  /\ Good(f) => Good(g)
           /\ Banished(g) = Banished(f) /\ Stay(f, g)
<1>1. \A c \in Accounts : SamePlace(f[c], g[c]) /\ (Wealthy(f[c]) => Wealthy(g[c]))
  BY DEF Alike, SameStake, Wealthy
<1>. QED  BY <1>1, TreeSamePlace DEF Good

\* The lists hold a exactly where they should, and are the same otherwise.
Listed(f, g, a) ==
    \A c \in Accounts :
      /\ g[c].referrals = (f[c].referrals \ {a}) \cup
           (IF ~g[a].banished /\ g[a].referrer = c THEN {a} ELSE {})
      /\ g[c].activeReferrals = (f[c].activeReferrals \ {a}) \cup
           (IF g[a].active /\ g[a].referrer = c THEN {a} ELSE {})

(***************************************************************************)
(* One account may change its referrer, banishment and activity, if the    *)
(* new referrer is an account that is not below it.                        *)
(***************************************************************************)
LEMMA OneMoves ==
    ASSUME NEW f \in [Accounts -> Records], Tree(f), NEW g \in [Accounts -> Records],
           NEW a \in Accounts, NEW C \in SUBSET Accounts,
           \/ g[a].referrer = f[a].referrer
           \/ /\ g[a].referrer \in C \cup {None} /\ a \notin C
              /\ \A b \in C : f[b].referrer \in C \cup {None},
           g[a].referrer # None => ~IsEmpty(g[g[a].referrer]),
           g[a].banished => ~g[a].active,
           Listed(f, g, a),
           \A c \in Accounts \ {a} : /\ g[c].referrer = f[c].referrer
                                     /\ g[c].banished = f[c].banished
                                     /\ g[c].active = f[c].active,
           \A c \in Accounts : IsEmpty(g[c]) => IsEmpty(f[c])
    PROVE  Tree(g)
<1>1. Referred(f) \in [Accounts -> Parents] /\ g[a].referrer \in Parents
      /\ HasParents(f) /\ HasParents(g)
  <2>1. \A c \in Accounts : f[c].referrer \in Parents /\ g[c].referrer \in Parents
    BY InfoFields DEF Records
  <2>. QED  BY <2>1 DEF HasParents, Referred
<1>2. Referred(g) = [Referred(f) EXCEPT ![a] = g[a].referrer]
  BY DEF Referred
<1>3. Acyclic(Referred(g))
  <2>1. CASE g[a].referrer = f[a].referrer
    <3>1. Referred(g) = Referred(f)
      BY <1>2, <2>1 DEF Referred
    <3>. QED  BY <3>1 DEF Tree
  <2>2. CASE /\ g[a].referrer \in C \cup {None} /\ a \notin C
             /\ \A b \in C : f[b].referrer \in C \cup {None}
    <3>1. \A b \in C : Referred(f)[b] \in C \cup {None}
      BY <2>2 DEF Referred
    <3> DEFINE ref == Referred(f)
               p == g[a].referrer
    <3>2. Acyclic(ref)
      BY DEF Tree
    <3>. HIDE DEF ref, p
    <3>3. Acyclic([ref EXCEPT ![a] = p])
      BY <1>1, <2>2, <3>1, <3>2, MoveAcyclic DEF ref, p
    <3>. QED  BY <1>2, <3>3 DEF ref, p
  <2>. QED  BY <2>1, <2>2
<1>4. ASSUME NEW c \in Accounts
      PROVE  g[c].referrals = {b \in Accounts : ~g[b].banished /\ g[b].referrer = c}
  <2>1. f[c].referrals = {b \in Accounts : ~f[b].banished /\ f[b].referrer = c}
    BY DEF Tree
  <2>2. \A b \in Accounts \ {a} : ~g[b].banished /\ g[b].referrer = c
                                  <=> ~f[b].banished /\ f[b].referrer = c
    OBVIOUS
  <2>3. g[c].referrals = (f[c].referrals \ {a}) \cup
           (IF ~g[a].banished /\ g[a].referrer = c THEN {a} ELSE {})
    BY DEF Listed
  <2>. QED  BY <2>1, <2>2, <2>3
<1>5. ASSUME NEW c \in Accounts
      PROVE  g[c].activeReferrals = {b \in Accounts : g[b].active /\ g[b].referrer = c}
  <2>1. f[c].activeReferrals = {b \in Accounts : f[b].active /\ f[b].referrer = c}
    BY DEF Tree
  <2>2. \A b \in Accounts \ {a} : g[b].active /\ g[b].referrer = c
                                  <=> f[b].active /\ f[b].referrer = c
    OBVIOUS
  <2>3. g[c].activeReferrals = (f[c].activeReferrals \ {a}) \cup
           (IF g[a].active /\ g[a].referrer = c THEN {a} ELSE {})
    BY DEF Listed
  <2>. QED  BY <2>1, <2>2, <2>3
<1>6. ASSUME NEW c \in Accounts
      PROVE  /\ g[c].banished => ~g[c].active
             /\ g[c].referrer # None => ~IsEmpty(g[g[c].referrer])
  <2>1. CASE c = a
    BY <2>1
  <2>2. CASE c # a
    <3>1. f[c].banished => ~f[c].active
      BY DEF Tree
    <3>2. f[c].referrer # None => ~IsEmpty(f[f[c].referrer]) /\ f[c].referrer \in Accounts
      BY <1>1 DEF Tree, HasParents, Parents
    <3>. QED  BY <2>2, <3>1, <3>2
  <2>. QED  BY <2>1, <2>2
<1>. QED  BY <1>3, <1>4, <1>5, <1>6 DEF Tree

(***************************************************************************)
(* The referrals of an account may move to its referrer.                   *)
(***************************************************************************)
LEMMA AllRise ==
    ASSUME NEW f \in [Accounts -> Records], Tree(f), NEW g \in [Accounts -> Records],
           NEW a \in Accounts, NEW p \in Accounts, p = f[a].referrer,
           g[a].referrals = {}, g[a].activeReferrals = {},
           g[p].referrals = f[p].referrals \cup f[a].referrals,
           g[p].activeReferrals = f[p].activeReferrals \cup f[a].activeReferrals,
           \A c \in Accounts \ {a, p} : /\ g[c].referrals = f[c].referrals
                                        /\ g[c].activeReferrals = f[c].activeReferrals,
           \A c \in Accounts :
             /\ g[c].referrer = IF c \in f[a].referrals THEN p ELSE f[c].referrer
             /\ g[c].banished = f[c].banished /\ g[c].active = f[c].active
             /\ IsEmpty(g[c]) => IsEmpty(f[c])
    PROVE  Tree(g)
<1> DEFINE R == f[a].referrals
           ref == Referred(f)
<1>1. /\ ref \in [Accounts -> Parents] /\ Acyclic(ref) /\ ref[a] = p
      /\ R = {b \in Accounts : ~f[b].banished /\ f[b].referrer = a}
      /\ f[a].activeReferrals = {b \in Accounts : f[b].active /\ f[b].referrer = a}
  <2>1. HasParents(f)
    BY InfoFields DEF HasParents, Records
  <2>. QED  BY <2>1, ReferredType DEF Tree, Referred
<1>2. R \in SUBSET Accounts /\ \A b \in R : ref[b] = a
  BY <1>1 DEF Referred
<1>3. p # a
  <2>1. {a} \in SUBSET DOMAIN ref /\ {a} # {}
    BY DEF Referred
  <2>2. \E b \in {a} : ref[b] \notin {a}
    BY <1>1, <2>1 DEF Acyclic
  <2>. QED  BY <1>1, <2>2
<1>4. Acyclic(Referred(g))
  <2>1. Referred(g) = [b \in Accounts |-> IF b \in R THEN ref[a] ELSE ref[b]]
    BY <1>1 DEF Referred
  <2>. HIDE DEF R, ref
  <2>2. Acyclic([b \in Accounts |-> IF b \in R THEN ref[a] ELSE ref[b]])
    <3>1. ref \in [Accounts -> Parents] /\ Acyclic(ref)
      BY <1>1
    <3>2. R \in SUBSET Accounts /\ \A b \in R : ref[b] = a
      BY <1>2
    <3>. QED  BY ONLY <3>1, <3>2, RiseAcyclic, a \in Accounts
  <2>. QED  BY <2>1, <2>2
<1>5. \A c \in Accounts : f[c].active => ~f[c].banished
  BY DEF Tree
<1>6. ASSUME NEW c \in Accounts
      PROVE  g[c].referrals = {b \in Accounts : ~g[b].banished /\ g[b].referrer = c}
  <2>1. f[c].referrals = {b \in Accounts : ~f[b].banished /\ f[b].referrer = c}
    BY DEF Tree
  <2>2. \A b \in Accounts : ~g[b].banished /\ g[b].referrer = c
          <=> ~f[b].banished /\ c = IF b \in R THEN p ELSE f[b].referrer
    OBVIOUS
  <2>3. CASE c = a
    BY <1>1, <1>3, <2>2, <2>3
  <2>4. CASE c = p
    BY <1>1, <1>3, <2>1, <2>2, <2>4
  <2>5. CASE c # a /\ c # p
    BY <1>1, <2>1, <2>2, <2>5
  <2>. QED  BY <2>3, <2>4, <2>5
<1>7. ASSUME NEW c \in Accounts
      PROVE  g[c].activeReferrals = {b \in Accounts : g[b].active /\ g[b].referrer = c}
  <2>1. f[c].activeReferrals = {b \in Accounts : f[b].active /\ f[b].referrer = c}
    BY DEF Tree
  <2>2. \A b \in Accounts : g[b].active /\ g[b].referrer = c
          <=> f[b].active /\ c = IF b \in R THEN p ELSE f[b].referrer
    OBVIOUS
  <2>3. CASE c = a
    BY <1>1, <1>3, <1>5, <2>2, <2>3
  <2>4. CASE c = p
    BY <1>1, <1>3, <1>5, <2>1, <2>2, <2>4
  <2>5. CASE c # a /\ c # p
    BY <1>1, <1>5, <2>1, <2>2, <2>5
  <2>. QED  BY <2>3, <2>4, <2>5
<1>8. ASSUME NEW c \in Accounts
      PROVE  /\ g[c].banished => ~g[c].active
             /\ g[c].referrer # None => ~IsEmpty(g[g[c].referrer])
  <2>1. f[c].referrer \in Parents
    BY InfoFields DEF Records
  <2>2. f[c].referrer # None => ~IsEmpty(f[f[c].referrer])
    BY DEF Tree
  <2>3. ~IsEmpty(f[p])
    <3>1. p # None
      BY Constants
    <3>. QED  BY <3>1 DEF Tree
  <2>4. g[c].banished => ~g[c].active
    BY <1>5
  <2>. QED  BY <2>1, <2>2, <2>3, <2>4 DEF Parents
<1>. QED  BY <1>4, <1>6, <1>7, <1>8 DEF Tree

(***************************************************************************)
(* Whoever is above somebody is known, and whoever looks for a referrer    *)
(* above his former one finds one that is not below him.                   *)
(***************************************************************************)
LEMMA FirstOpenGood ==
    ASSUME NEW f \in [Accounts -> Records], Tree(f), NEW a \in Accounts
    PROVE  LET p == FirstOpen(f, f[a].referrer)
               C == Over(f, f[a].referrer)
           IN  /\ p \in C \cup {None} /\ a \notin C /\ C \subseteq Accounts
               /\ \A b \in C : f[b].referrer \in C \cup {None}
               /\ p # None => ~IsEmpty(f[p])
               /\ f[a].referrer # None => p # None
<1> DEFINE q == f[a].referrer
           p == FirstOpen(f, q)
           C == Over(f, q)
<1>1. HasParents(f) /\ Acyclic(Referred(f)) /\ q \in Parents
  BY InfoFields DEF HasParents, Records, Tree
<1>2. /\ p \in C \cup {None} /\ (q # None => p # None)
      /\ a \notin C /\ C \subseteq Accounts /\ \A b \in C : f[b].referrer \in C \cup {None}
  BY <1>1, FirstOpenFound, NotOver, OverClosed
<1>3. ASSUME NEW c \in C PROVE ~IsEmpty(f[c])
  <2> DEFINE N == Cardinality(Accounts)
             s == Ancestors(f, q, N)
  <2>1. IsChain(f, q, N, s) /\ s \in Seq(Accounts)
    BY <1>1, AccountsCount, AncestorsValue DEF IsChain
  <2>2. PICK k \in 1..Len(s) : s[k] = c
    BY <2>1 DEF Over, Range
  <2>. HIDE DEF s
  <2>3. c \in Accounts
    BY <2>1, <2>2
  <2>4. CASE k = 1
    <3>1. s[1] = q
      BY <2>1, <2>2 DEF IsChain
    <3>2. q # None /\ c = q
      BY <2>2, <2>3, <2>4, <3>1, Constants
    <3>. QED  BY <3>2 DEF Tree
  <2>5. CASE k # 1
    <3>1. k - 1 \in 1..(Len(s) - 1) /\ k - 1 \in 1..Len(s) /\ (k - 1) + 1 = k
      BY <2>2, <2>5
    <3>2. f[s[k - 1]].referrer = s[k] /\ s[k - 1] \in Accounts
      BY <2>1, <3>1 DEF IsChain
    <3>3. f[s[k - 1]].referrer # None
      BY <2>2, <2>3, <3>2, Constants
    <3>. QED  BY <2>2, <3>2, <3>3 DEF Tree
  <2>. QED  BY <2>4, <2>5
<1>. HIDE DEF p, q, C
<1>4. p # None => ~IsEmpty(f[p])
  BY <1>2, <1>3
<1>. QED  BY <1>2, <1>4 DEF p, q, C

-----------------------------------------------------------------------------
(* What a handler does with a world.                                       *)

\* The records of a world make a forest, unless a handler has failed.
Sound(w) == w \in Worlds /\ (w.broken \/ Good(w.infos))

\* Nobody loses his referrer or his record.
Ends(w, v) ==
    Sound(v) /\ (v.broken \/ (~w.broken /\ Stay(w.infos, v.infos)))

\* And nobody is banished.
Keeps(w, v) == Ends(w, v) /\ (v.broken \/ Banished(v.infos) \subseteq Banished(w.infos))

\* And nobody's balance changes.
SameStakes(w, v) ==
    v.broken \/ \A c \in Accounts : SameStake(w.infos[c], v.infos[c])

LEMMA KeepsReflexive ==
    ASSUME NEW w, Sound(w)
    PROVE  Keeps(w, w) /\ SameStakes(w, w) /\ Becomes(w, w, w.infos)
<1>1. Becomes(w, w, w.infos)
  BY AlikeReflexive DEF Becomes, Sound
<1>. QED  BY <1>1 DEF Ends, Keeps, SameStakes, SameStake, Sound, Stay

LEMMA KeepsTransitive ==
    ASSUME NEW u, NEW w, NEW v
    PROVE  /\ Ends(u, w) /\ Ends(w, v) => Ends(u, v)
           /\ Keeps(u, w) /\ Keeps(w, v) => Keeps(u, v)
           /\ Ends(w, v) /\ SameStakes(u, w) /\ SameStakes(w, v) => SameStakes(u, v)
BY DEF Ends, Keeps, SameStakes, SameStake, Stay

LEMMA BecomesKeeps ==
    ASSUME NEW w, Sound(w), NEW v, Becomes(w, v, w.infos)
    PROVE  Keeps(w, v) /\ SameStakes(w, v)
<1>1. CASE v.broken
  BY <1>1 DEF Becomes, Keeps, Ends, SameStakes, Sound
<1>2. CASE ~v.broken
  <2>1. ~w.broken /\ v \in Worlds /\ \A c \in Accounts : Alike(w.infos[c], v.infos[c])
    BY <1>2 DEF Becomes
  <2>2. w.infos \in [Accounts -> Records] /\ Good(w.infos)
    BY <2>1, WorldFields DEF Sound
  <2>3. /\ Good(v.infos)
        /\ Banished(v.infos) = Banished(w.infos) /\ Stay(w.infos, v.infos)
    BY <2>1, <2>2, GoodAlike
  <2>. QED  BY <2>1, <2>3 DEF Keeps, Ends, SameStakes, Sound, Alike
<1>. QED  BY <1>1, <1>2

LEMMA BecomesTransitive ==
    ASSUME NEW u, NEW w, NEW v, NEW f, Becomes(u, w, f), Becomes(w, v, w.infos)
    PROVE  Becomes(u, v, f)
BY AlikeTransitive DEF Becomes

\* Whoever has not failed has a good tree.
LEMMA SoundFields ==
    ASSUME NEW w, Sound(w)
    PROVE  /\ w \in Worlds /\ w.infos \in [Accounts -> Records]
           /\ ~w.broken => Tree(w.infos) /\ Good(w.infos) /\ \A a \in Accounts : Wealthy(w.infos[a])
BY WorldFields DEF Sound, Good

-----------------------------------------------------------------------------
(* What the handlers are built from.                                       *)

\* What an account brings, by sum.
Amounts == [Sums -> Int]

LEMMA BalanceFields ==
    ASSUME NEW r \in Records
    PROVE  /\ Balance(r) \in Amounts /\ Negated(Balance(r)) \in Amounts
           /\ Balance(r).coins = r.lines["coins"][0]
           /\ Balance(r).delegated = r.lines["delegated"][0]
<1>1. r.lines["coins"][0] \in Int /\ r.lines["delegated"][0] \in Int
  BY InfoFields, Constants DEF Records
<1>2. Balance(r) \in Amounts
  BY <1>1 DEF Balance, Amounts, Sums
<1>. QED  BY <1>2 DEF Balance, Amounts, Sums, Negated

LEMMA BringsGains ==
    ASSUME NEW x \in Amounts
    PROVE  /\ Brings(x) \in Gains
           /\ InLine(0, x) \in LineSums
           /\ InLine(0, x)["coins"][0] = x.coins /\ InLine(0, x)["delegated"][0] = x.delegated
<1>1. \A k \in Nat : InLine(k, x) \in LineSums
  BY DEF InLine, Amounts, LineSums
<1>2. \A k \in 1..Depth : k \in Nat /\ k # 0
  BY Constants
<1>3. \A k \in 1..Depth : InLine(k, x)["coins"][0] = 0 /\ InLine(k, x)["delegated"][0] = 0
  BY <1>2, Constants DEF InLine, Sums
<1>4. InLine(0, x)["coins"][0] = x.coins /\ InLine(0, x)["delegated"][0] = x.delegated
  BY Constants DEF InLine, Sums, Amounts
<1>. QED  BY <1>1, <1>2, <1>3, <1>4 DEF Brings, Gains

LEMMA LinksOf ==
    ASSUME NEW a \in Accounts
    PROVE  /\ NoLink \in Links /\ [NoLink EXCEPT !.join = {a}] \in Links
           /\ [NoLink EXCEPT !.leave = {a}] \in Links
           /\ [NoLink EXCEPT !.rise = {a}] \in Links
           /\ [NoLink EXCEPT !.fall = {a}] \in Links
BY DEF NoLink, Links

(***************************************************************************)
(* A climb without links only changes sums and statuses.                   *)
(***************************************************************************)
LEMMA ClimbPlain ==
    ASSUME now \in Nat, NEW w \in Worlds, NEW p \in Parents, NEW n \in 1..Depth,
           NEW gain \in Gains, NEW check \in BOOLEAN
    PROVE  Becomes(w, ClimbIf(check, w, p, n, NoLink, gain), w.infos)
<1> DEFINE v == ClimbIf(check, w, p, n, NoLink, gain)
           T == Climbed(w.infos, p, NoLink)
<1>1. NoLink \in Links
  BY DEF NoLink, Links
<1>2. Becomes(w, v, T)
  BY <1>1, ClimbBecomes
<1>3. ASSUME NEW c \in Accounts PROVE Alike(w.infos[c], T[c])
  <2>1. w.infos[c] \in Records
    BY WorldFields
  <2>2. Alike(w.infos[c], Linked(w.infos[c], NoLink))
    <3> DEFINE r == w.infos[c]
    <3>. HIDE DEF r
    <3>1. /\ r.referrals = (r.referrals \ NoLink.leave) \cup NoLink.join
          /\ r.activeReferrals = (r.activeReferrals \ NoLink.fall) \cup NoLink.rise
      BY DEF NoLink
    <3>2. Alike(r, Linked(r, NoLink))
      BY <1>1, <2>1, <3>1, LinkedRecord DEF Alike, SamePlace, SameStake, IsEmpty, r
    <3>. QED  BY <3>2 DEF r
  <2>. QED  BY <2>2, AlikeReflexive DEF Climbed
<1>. HIDE DEF v, T
<1>4. Becomes(w, v, w.infos)
  BY <1>2, <1>3, AlikeTransitive DEF Becomes
<1>. QED  BY <1>4 DEF v

LEMMA SetBanishment ==
    ASSUME NEW w \in Worlds, NEW a \in Accounts, NEW t \in Moments
    PROVE  LET v == [w EXCEPT !.infos[a].banishmentAt = t]
           IN  /\ v \in Worlds /\ v.broken = w.broken
               /\ Becomes(w, v, w.infos)
<1> DEFINE r == w.infos[a]
           q == [r EXCEPT !.banishmentAt = t]
           v == [w EXCEPT !.infos[a].banishmentAt = t]
<1>1. r \in Records /\ w.infos \in [Accounts -> Records]
  BY WorldFields
<1>2. v = Update(w, a, q)
  BY DEF Update, Worlds
<1>. HIDE DEF r
<1>3. q \in Records /\ Alike(r, q)
  BY <1>1 DEF Records, Info, Alike, SamePlace, SameStake, IsEmpty
<1>. HIDE DEF q
<1>4. /\ Update(w, a, q) \in Worlds /\ Update(w, a, q).broken = w.broken
      /\ Update(w, a, q).infos = [w.infos EXCEPT ![a] = q]
  BY <1>3, UpdateWorld
<1>. HIDE DEF v
<1>5. \A c \in Accounts : Alike(w.infos[c], v.infos[c])
  BY <1>1, <1>2, <1>3, <1>4, AlikeReflexive DEF r
<1>6. Becomes(w, v, w.infos)
  BY <1>2, <1>4, <1>5 DEF Becomes
<1>. QED  BY <1>2, <1>4, <1>6 DEF v

LEMMA ScheduleBanishmentKeeps ==
    ASSUME now \in Nat, NEW w \in Worlds, NEW a \in Accounts
    PROVE  Becomes(w, ScheduleBanishment(w, a), w.infos)
<1> DEFINE time == now + Month
           v == [w EXCEPT !.infos[a].banishmentAt = now + Month]
<1>1. time \in Nat /\ time \in Moments /\ "banish" \in Handlers
  BY Constants DEF Moments, Handlers
<1>2. v \in Worlds /\ v.broken = w.broken /\ Becomes(w, v, w.infos)
  BY <1>1, SetBanishment
<1>3. ScheduleBanishment(w, a) = Scheduled(v, time, "banish", a)
  BY DEF ScheduleBanishment
<1>. HIDE DEF v, time
<1>. QED  BY <1>1, <1>2, <1>3, ScheduledWorld DEF Becomes

LEMMA SpareKeeps ==
    ASSUME NEW w \in Worlds, NEW a \in Accounts
    PROVE  Becomes(w, Spare(w, a), w.infos)
<1>1. CASE w.infos[a].banishmentAt = NoTime
  BY <1>1, AlikeReflexive DEF Spare, Becomes
<1>2. CASE w.infos[a].banishmentAt # NoTime
  <2> DEFINE u == Withdrawn(w, w.infos[a].banishmentAt, "banish", a)
             v == [u EXCEPT !.infos[a].banishmentAt = NoTime]
  <2>1. u \in Worlds /\ u.infos = w.infos /\ u.broken = w.broken
    BY WithdrawnWorld
  <2>2. Spare(w, a) = v
    BY <1>2 DEF Spare
  <2>. HIDE DEF u
  <2>3. NoTime \in Moments
    BY DEF Moments
  <2>4. Becomes(u, v, u.infos)
    BY <2>1, <2>3, SetBanishment
  <2>. QED  BY <2>1, <2>2, <2>4 DEF Becomes
<1>. QED  BY <1>1, <1>2

-----------------------------------------------------------------------------
(* Accounts join and come back.                                            *)

(***************************************************************************)
(* An account that is in no list joins, with the record r, a referrer that *)
(* is not below it.                                                        *)
(***************************************************************************)
LEMMA JoinedKeeps ==
    ASSUME now \in Nat, NEW w, Sound(w), ~w.broken, NEW a \in Accounts, NEW r \in Records,
           NEW x \in Amounts, NEW n \in 1..Depth, NEW p, p = r.referrer,
           NEW C \in SUBSET Accounts, p \in C \cup {None}, a \notin C,
           \A b \in C : w.infos[b].referrer \in C \cup {None},
           ~r.banished, ~r.active, ~IsEmpty(r), Wealthy(r),
           r.referrals = w.infos[a].referrals, r.activeReferrals = w.infos[a].activeReferrals,
           ~w.infos[a].active, w.infos[a].banished \/ w.infos[a].referrer = None,
           p # None \/ w.infos[a].referrer = None
    PROVE  LET v == Joined(Update(w, a, r), a, p, x, n)
           IN  /\ Keeps(w, v) /\ (v.broken \/ ~v.infos[a].banished)
               /\ SameStake(w.infos[a], r) => SameStakes(w, v)
<1> DEFINE f == w.infos
           u == Update(w, a, r)
           link == [NoLink EXCEPT !.join = {a}]
           v == ClimbIf(TRUE, u, p, n, link, Brings(x))
           T == Climbed(u.infos, p, link)
           g == v.infos
<1>1. /\ w \in Worlds /\ f \in [Accounts -> Records] /\ Tree(f) /\ Good(f)
      /\ \A c \in Accounts : Wealthy(f[c])
  BY SoundFields
<1>2. u \in Worlds /\ u.infos = [f EXCEPT ![a] = r] /\ u.broken = w.broken
  BY <1>1, UpdateWorld
<1>3. link \in Links /\ p \in Parents /\ Brings(x) \in Gains /\ (p # None => p \in Accounts /\ p # a)
  BY LinksOf, BringsGains DEF Parents
<1>4. /\ Becomes(u, v, T)
      /\ p # None => v.broken \/ ~IsEmpty(v.infos[p])
  <2>. HIDE DEF u, link
  <2>. QED  BY <1>2, <1>3, ClimbBecomes
<1>5. Joined(Update(w, a, r), a, p, x, n) = v
  BY DEF Joined, Climb
<1>6. link.join = {a} /\ link.leave = {} /\ link.rise = {} /\ link.fall = {}
  BY DEF NoLink
<1>. HIDE DEF link
<1>7. ASSUME NEW c \in Accounts
      PROVE  /\ T[c] = IF c = a THEN r ELSE IF c = p THEN Linked(f[c], link) ELSE f[c]
             /\ c # a => /\ T[c].referrer = f[c].referrer /\ T[c].banished = f[c].banished
                         /\ T[c].active = f[c].active /\ T[c].lines = f[c].lines
                         /\ T[c].status = f[c].status
                         /\ T[c].activeReferrals = f[c].activeReferrals
                         /\ T[c].referrals = f[c].referrals \cup (IF c = p THEN {a} ELSE {})
  <2>1. T[c] = IF c = p THEN Linked([f EXCEPT ![a] = r][c], link) ELSE [f EXCEPT ![a] = r][c]
    BY <1>2 DEF Climbed
  <2>2. T[c] = IF c = a THEN r ELSE IF c = p THEN Linked(f[c], link) ELSE f[c]
    BY <1>1, <1>3, <2>1, Constants
  <2>3. CASE c # a /\ c = p
    <3> DEFINE q == f[c]
    <3>1. T[c] = Linked(q, link) /\ q \in Records
      BY <1>1, <2>2, <2>3
    <3>. HIDE DEF q, T
    <3>2. /\ T[c].referrer = q.referrer /\ T[c].banished = q.banished
          /\ T[c].active = q.active /\ T[c].lines = q.lines /\ T[c].status = q.status
          /\ T[c].referrals = (q.referrals \ link.leave) \cup link.join
          /\ T[c].activeReferrals = (q.activeReferrals \ link.fall) \cup link.rise
      BY <1>3, <3>1, LinkedRecord
    <3>3. T[c].referrals = q.referrals \cup {a} /\ T[c].activeReferrals = q.activeReferrals
      BY <1>6, <3>2
    <3>. QED  BY <2>2, <2>3, <3>2, <3>3 DEF q
  <2>4. CASE c # a /\ c # p
    BY <2>2, <2>4
  <2>. HIDE DEF T
  <2>. QED  BY <2>2, <2>3, <2>4
<1>. HIDE DEF u, T, v
<1>8. CASE v.broken
  BY <1>4, <1>5, <1>8 DEF Becomes, Keeps, Ends, Sound, SameStakes
<1>9. CASE ~v.broken
  <2>1. v \in Worlds /\ \A c \in Accounts : Alike(T[c], g[c])
    BY <1>4, <1>9 DEF Becomes
  <2>2. g \in [Accounts -> Records]
    BY <2>1, WorldFields
  <2>. HIDE DEF g, f
  <2>3. \A c \in Accounts :
          /\ g[c].referrer = T[c].referrer /\ g[c].referrals = T[c].referrals
          /\ g[c].activeReferrals = T[c].activeReferrals
          /\ g[c].active = T[c].active /\ g[c].banished = T[c].banished
          /\ IsEmpty(g[c]) => IsEmpty(T[c])
          /\ SameStake(T[c], g[c])
    BY <2>1 DEF Alike, SamePlace
  <2>4. /\ g[a].referrer = p /\ ~g[a].banished /\ ~g[a].active /\ ~IsEmpty(g[a])
        /\ g[a].referrals = f[a].referrals /\ g[a].activeReferrals = f[a].activeReferrals
    BY <1>7, <2>3 DEF f
  <2>5. \A c \in Accounts \ {a} :
          /\ g[c].referrer = f[c].referrer /\ g[c].banished = f[c].banished
          /\ g[c].active = f[c].active /\ g[c].activeReferrals = f[c].activeReferrals
          /\ g[c].referrals = f[c].referrals \cup (IF c = p THEN {a} ELSE {})
          /\ IsEmpty(g[c]) => IsEmpty(f[c])
    BY <1>7, <2>3 DEF IsEmpty
  <2>6. \A c \in Accounts : a \notin f[c].referrals /\ a \notin f[c].activeReferrals
    BY <1>1, Constants DEF Tree, f
  <2>7. Listed(f, g, a)
    <3>1. ASSUME NEW c \in Accounts
          PROVE  /\ g[c].referrals = (f[c].referrals \ {a}) \cup
                                     (IF ~g[a].banished /\ g[a].referrer = c THEN {a} ELSE {})
                 /\ g[c].activeReferrals = (f[c].activeReferrals \ {a}) \cup
                                     (IF g[a].active /\ g[a].referrer = c THEN {a} ELSE {})
      <4>1. CASE c = a
        BY <1>3, <2>4, <2>6, <4>1, Constants
      <4>2. CASE c # a
        BY <2>4, <2>5, <2>6, <4>2
      <4>. QED  BY <4>1, <4>2
    <3>. QED  BY <3>1 DEF Listed
  <2>8. Tree(g)
    <3>1. g[a].referrer # None => ~IsEmpty(g[g[a].referrer])
      BY <1>4, <1>9, <2>4 DEF g
    <3>2. \A b \in C : f[b].referrer \in C \cup {None}
      BY DEF f
    <3>3. \A c \in Accounts : IsEmpty(g[c]) => IsEmpty(f[c])
      BY <2>4, <2>5
    <3>4. \A c \in Accounts \ {a} : /\ g[c].referrer = f[c].referrer
                                     /\ g[c].banished = f[c].banished
                                     /\ g[c].active = f[c].active
      BY <2>5
    <3>5. Tree(f) /\ f \in [Accounts -> Records]
      BY <1>1 DEF f
    <3>. QED  BY <2>2, <2>4, <2>7, <3>1, <3>2, <3>3, <3>4, <3>5, OneMoves
  <2>9. ASSUME NEW c \in Accounts
        PROVE  /\ c # a => SameStake(f[c], g[c])
               /\ SameStake(r, g[a]) /\ Wealthy(g[c])
    <3>1. c # a => SameStake(f[c], g[c])
      BY <1>7, <2>3 DEF SameStake
    <3>2. SameStake(r, g[a])
      BY <1>7, <2>3
    <3>3. Wealthy(f[c])
      BY <1>1 DEF f
    <3>. QED  BY <3>1, <3>2, <3>3 DEF SameStake, Wealthy
  <2>10. Sound(v)
    BY <2>1, <2>8, <2>9 DEF Sound, Good, g
  <2>11. /\ Stay(f, g) /\ Banished(g) \subseteq Banished(f)
    BY <2>4, <2>5 DEF Stay, Banished, f
  <2>12. Keeps(w, v)
    BY <2>10, <2>11 DEF Keeps, Ends, f, g
  <2>13. SameStake(f[a], r) => SameStakes(w, v)
    BY <2>9 DEF SameStakes, SameStake, f, g
  <2>. QED  BY <1>5, <2>4, <2>12, <2>13 DEF f, g
<1>. QED  BY <1>8, <1>9

LEMMA ReachDepth == ASSUME NEW x PROVE Reach(x) \in 1..Depth
BY Constants DEF Reach

LEMMA FirstOpenType ==
    ASSUME NEW f, HasParents(f), NEW p \in Parents
    PROVE  FirstOpen(f, p) \in Parents
<1> DEFINE s == Ancestors(f, p, Cardinality(Accounts))
           open == {k \in DOMAIN s : ~RegistrationClosed(f[s[k]])}
<1>1. s \in Seq(Accounts)
  BY AccountsCount, AncestorsValue DEF IsChain
<1>2. FirstOpen(f, p) = IF open = {} THEN None ELSE s[Min(open)]
  BY DEF FirstOpen
<1>. HIDE DEF s
<1>3. open # {} => s[Min(open)] \in Accounts
  <2>1. open \in SUBSET Nat /\ open \subseteq DOMAIN s
    BY <1>1
  <2>. HIDE DEF open
  <2>2. open # {} => Min(open) \in DOMAIN s
    BY <2>1, MinOfNaturals
  <2>. QED  BY <1>1, <2>2
<1>. QED  BY <1>2, <1>3 DEF Parents

\* What holds of a new record.
NewRecord(q, p, h) ==
    /\ q \in Records /\ q.referrer = p /\ ~q.banished /\ ~q.active /\ q.status = 1
    /\ q.lines["coins"][0] = h.coins /\ q.lines["delegated"][0] = h.delegated
    /\ q.referrals = {} /\ q.activeReferrals = {} /\ q.downgradeAt = NoTime

LEMMA NewInfoRecord ==
    ASSUME NEW p \in Parents, NEW h \in Holding, NEW t \in Moments
    PROVE  NewRecord([NewInfo(p, h) EXCEPT !.compressionAt = t], p, h)
<1> DEFINE lines == [f \in Sums |-> [i \in Lines |-> IF i = 0 THEN Own(h)[f] ELSE 0]]
           r == NewInfo(p, h)
<1>1. lines \in LineSums /\ lines["coins"][0] = h.coins /\ lines["delegated"][0] = h.delegated
  <2>1. \A f \in Sums : Own(h)[f] \in Int
    BY DEF Own, Sums, Holding
  <2>2. lines \in LineSums
    BY <2>1 DEF LineSums
  <2>. QED  BY <2>2, Constants DEF Own, Sums
<1>2. r = [Empty EXCEPT !.status = 1, !.referrer = p, !.lines = lines]
  BY DEF NewInfo
<1>. HIDE DEF lines
<1>3. Empty \in Info
  <2>1. [f \in Sums |-> [i \in Lines |-> 0]] \in LineSums
    BY DEF LineSums
  <2>. QED  BY <2>1, Constants DEF Empty, Info, Moments, LineSums
<1>4. /\ Empty.referrals = {} /\ Empty.activeReferrals = {} /\ ~Empty.active
      /\ ~Empty.banished /\ Empty.downgradeAt = NoTime
  BY DEF Empty
<1>5. /\ r \in Info /\ r.status = 1 /\ r.referrer = p /\ r.lines = lines
      /\ r.referrals = {} /\ r.activeReferrals = {} /\ ~r.active /\ ~r.banished
      /\ r.downgradeAt = NoTime
  <2> DEFINE e == Empty
  <2>. HIDE DEF e
  <2>1. e \in Info
    BY <1>3 DEF e
  <2>2. r = [e EXCEPT !.status = 1, !.referrer = p, !.lines = lines]
    BY <1>2 DEF e
  <2>3. MaxStatus \in Nat \ {0}
    BY Constants
  <2>. HIDE DEF r
  <2>4. r \in Info
    <3>1. 1 \in 0..MaxStatus /\ p \in Accounts \cup {None}
      BY <2>3 DEF Parents
    <3>. QED  BY ONLY <1>1, <2>1, <2>2, <3>1 DEF Info, LineSums
  <2>5. /\ r.status = 1 /\ r.referrer = p /\ r.lines = lines
        /\ r.referrals = e.referrals /\ r.activeReferrals = e.activeReferrals
        /\ r.active = e.active /\ r.banished = e.banished /\ r.downgradeAt = e.downgradeAt
    BY <2>1, <2>2 DEF Info
  <2>. QED  BY <1>4, <2>4, <2>5 DEF e
<1>. HIDE DEF r
<1> DEFINE q == [r EXCEPT !.compressionAt = t]
<1>6. /\ q \in Records /\ q.status = 1 /\ q.referrer = p /\ q.lines = lines
      /\ q.referrals = {} /\ q.activeReferrals = {} /\ ~q.active /\ ~q.banished
      /\ q.downgradeAt = NoTime
  BY <1>5 DEF Records, Info
<1>. QED  BY <1>1, <1>6 DEF NewRecord, r

LEMMA JoinedBroken ==
    ASSUME now \in Nat, NEW w \in Worlds, w.broken, NEW a \in Accounts, NEW r \in Records,
           NEW x \in Amounts, NEW n \in 1..Depth, NEW p \in Parents
    PROVE  LET v == Joined(Update(w, a, r), a, p, x, n)
           IN  Keeps(w, v) /\ SameStakes(w, v) /\ v.broken
<1> DEFINE u == Update(w, a, r)
           link == [NoLink EXCEPT !.join = {a}]
           v == Joined(u, a, p, x, n)
<1>1. u \in Worlds /\ u.broken
  BY UpdateWorld
<1>2. link \in Links /\ Brings(x) \in Gains
  BY LinksOf, BringsGains
<1>3. v = ClimbIf(TRUE, u, p, n, link, Brings(x))
  BY DEF Joined, Climb
<1>. HIDE DEF u, link, v
<1>4. Becomes(u, v, Climbed(u.infos, p, link))
  BY <1>1, <1>2, <1>3, ClimbBecomes
<1>. QED  BY <1>1, <1>4 DEF Becomes, Keeps, Ends, Sound, SameStakes, u, v

(***************************************************************************)
(* Who comes back joins the nearest open account above.                    *)
(***************************************************************************)
LEMMA BackKeeps ==
    ASSUME now \in Nat, NEW w, Sound(w), NEW a \in Accounts, ~w.broken => w.infos[a].banished,
           NEW q \in Records, q.referrer = FirstOpen(w.infos, w.infos[a].referrer),
           ~q.banished, q.active = w.infos[a].active, q.status = 1, q.lines = w.infos[a].lines,
           q.referrals = w.infos[a].referrals, q.activeReferrals = w.infos[a].activeReferrals
    PROVE  LET x == Balance(w.infos[a])
               v == Joined(Update(w, a, q), a, q.referrer, x, Reach(x))
           IN  Keeps(w, v) /\ SameStakes(w, v) /\ (v.broken \/ ~v.infos[a].banished)
<1> DEFINE f == w.infos
           r == f[a]
           p == q.referrer
           x == Balance(r)
           n == Reach(x)
           C == Over(f, r.referrer)
           v == Joined(Update(w, a, q), a, p, x, n)
<1>1. w \in Worlds /\ f \in [Accounts -> Records] /\ r \in Records
  BY SoundFields
<1>2. n \in 1..Depth /\ x \in Amounts /\ p \in Parents
  <2>1. n \in 1..Depth
    BY ReachDepth
  <2>2. x \in Amounts
    BY <1>1, BalanceFields
  <2>. QED  BY <2>1, <2>2, InfoFields DEF Records
<1>3. CASE w.broken
  <2>. HIDE DEF x, n, p
  <2>1. Keeps(w, v) /\ SameStakes(w, v) /\ v.broken
    BY <1>1, <1>2, <1>3, JoinedBroken
  <2>. QED  BY <2>1 DEF p, x, n
<1>4. CASE ~w.broken
  <2>1. Tree(f) /\ Wealthy(r)
    BY <1>4, SoundFields
  <2>2. /\ p \in C \cup {None} /\ a \notin C /\ C \subseteq Accounts
        /\ \A b \in C : f[b].referrer \in C \cup {None}
        /\ r.referrer # None => p # None
    BY <1>1, <2>1, FirstOpenGood
  <2>3. r.banished /\ ~r.active
    BY <1>4, <2>1 DEF Tree
  <2>4. ~IsEmpty(q) /\ Wealthy(q) /\ SameStake(r, q)
    BY <2>1 DEF IsEmpty, Wealthy, SameStake
  <2>5. q.referrals = r.referrals /\ q.activeReferrals = r.activeReferrals /\ ~q.active
    BY <2>3
  <2> DEFINE SP == Keeps(w, v) /\ (v.broken \/ ~v.infos[a].banished)
                   /\ (SameStake(r, q) => SameStakes(w, v))
  <2>6. SP
    <3>. HIDE DEF x, n, C
    <3>. QED  BY <1>1, <1>2, <1>4, <2>2, <2>3, <2>4, <2>5, JoinedKeeps
  <2>. QED  BY <2>4, <2>6
<1>. QED  BY <1>3, <1>4

LEMMA ComeBackKeeps ==
    ASSUME now \in Nat, NEW w, Sound(w), NEW a \in Accounts, ~w.broken => w.infos[a].banished
    PROVE  LET v == ComeBack(w, a)
           IN  Keeps(w, v) /\ SameStakes(w, v) /\ (v.broken \/ ~v.infos[a].banished)
<1> DEFINE r == w.infos[a]
           p == FirstOpen(w.infos, r.referrer)
           q == [r EXCEPT !.referrer = p, !.banished = FALSE, !.status = 1,
                          !.banishmentAt = NoTime, !.compressionAt = NoTime]
<1>1. w.infos \in [Accounts -> Records] /\ r \in Records
  BY SoundFields
<1>2. p \in Parents
  <2>1. HasParents(w.infos) /\ r.referrer \in Parents
    BY <1>1, InfoFields DEF HasParents, Records
  <2>. QED  BY <2>1, FirstOpenType
<1>3. ComeBack(w, a) = Joined(Update(w, a, q), a, p, Balance(r), Reach(Balance(r)))
  BY DEF ComeBack
<1>4. MaxStatus \in Nat \ {0}
  BY Constants
<1>. HIDE DEF p
<1>5. /\ q \in Records /\ q.referrer = p /\ ~q.banished /\ q.active = r.active
      /\ q.status = 1 /\ q.lines = r.lines /\ q.referrals = r.referrals
      /\ q.activeReferrals = r.activeReferrals
  <2>. HIDE DEF r
  <2>1. r \in Info
    BY <1>1 DEF Records
  <2>2. /\ q.referrer = p /\ ~q.banished /\ q.active = r.active
        /\ q.status = 1 /\ q.lines = r.lines /\ q.referrals = r.referrals
        /\ q.activeReferrals = r.activeReferrals
    BY <2>1 DEF Info
  <2>3. q \in Info
    <3>1. 1 \in 0..MaxStatus /\ p \in Accounts \cup {None}
      BY <1>2, <1>4 DEF Parents
    <3>. QED  BY <2>1, <3>1 DEF Info, Moments
  <2>. HIDE DEF q
  <2>. QED  BY <2>2, <2>3 DEF Records
<1>. HIDE DEF q
<1>6. q.referrer = FirstOpen(w.infos, w.infos[a].referrer)
  BY <1>5 DEF p
<1>7. LET x == Balance(w.infos[a])
          v == Joined(Update(w, a, q), a, q.referrer, x, Reach(x))
      IN  Keeps(w, v) /\ SameStakes(w, v) /\ (v.broken \/ ~v.infos[a].banished)
  BY <1>5, <1>6, BackKeeps
<1>. QED  BY <1>3, <1>5, <1>7

LEMMA RedeemedKeeps ==
    ASSUME now \in Nat, NEW w, Sound(w), NEW a \in Accounts
    PROVE  Keeps(w, Redeemed(w, a)) /\ SameStakes(w, Redeemed(w, a))
<1> DEFINE r == w.infos[a]
           p == FirstOpen(w.infos, r.referrer)
           q == [r EXCEPT !.referrer = p, !.banished = FALSE, !.status = 1]
<1>1. w.infos \in [Accounts -> Records] /\ r \in Records
  BY SoundFields
<1>2. p \in Parents
  <2>1. HasParents(w.infos) /\ r.referrer \in Parents
    BY <1>1, InfoFields DEF HasParents, Records
  <2>. QED  BY <2>1, FirstOpenType
<1>3. CASE r.banished
  <2>1. Redeemed(w, a) = Joined(Update(w, a, q), a, p, Balance(r), Reach(Balance(r)))
    BY <1>3 DEF Redeemed
  <2>2. MaxStatus \in Nat \ {0}
    BY Constants
  <2>. HIDE DEF p
  <2>3. /\ q \in Records /\ q.referrer = p /\ ~q.banished /\ q.active = r.active
        /\ q.status = 1 /\ q.lines = r.lines /\ q.referrals = r.referrals
        /\ q.activeReferrals = r.activeReferrals
    <3>. HIDE DEF r
    <3>1. r \in Info /\ (r.downgradeAt # NoTime => r.status >= 1)
      BY <1>1 DEF Records
    <3>2. /\ q.referrer = p /\ ~q.banished /\ q.active = r.active
          /\ q.status = 1 /\ q.lines = r.lines /\ q.referrals = r.referrals
          /\ q.activeReferrals = r.activeReferrals
      BY <3>1 DEF Info
    <3>3. q \in Info
      <4>1. 1 \in 0..MaxStatus /\ p \in Accounts \cup {None}
        BY <1>2, <2>2 DEF Parents
      <4>. QED  BY <3>1, <4>1 DEF Info
    <3>. HIDE DEF q
    <3>. QED  BY <3>2, <3>3 DEF Records
  <2>. HIDE DEF q
  <2>4. q.referrer = FirstOpen(w.infos, w.infos[a].referrer)
    BY <2>3 DEF p
  <2>5. LET x == Balance(w.infos[a])
            v == Joined(Update(w, a, q), a, q.referrer, x, Reach(x))
        IN  Keeps(w, v) /\ SameStakes(w, v) /\ (v.broken \/ ~v.infos[a].banished)
    BY <1>3, <2>3, <2>4, BackKeeps
  <2>. QED  BY <2>1, <2>3, <2>5
<1>4. CASE ~r.banished
  BY <1>4, KeepsReflexive DEF Redeemed
<1>. QED  BY <1>3, <1>4

(***************************************************************************)
(* A newcomer, whom nobody has as his referrer yet.                        *)
(***************************************************************************)
LEMMA AppendChildKeeps ==
    ASSUME now \in Nat, NEW w, Sound(w), ~w.broken, NEW p \in Accounts, NEW a \in Accounts,
           p # a, ~Exists(w.infos, a), NEW h \in Holding
    PROVE  Keeps(w, AppendChild(w, p, a, h))
<1> DEFINE f == w.infos
           new == [NewInfo(p, h) EXCEPT !.compressionAt = now + CompressionPeriod]
           C == Over(f, p)
<1>1. w \in Worlds /\ f \in [Accounts -> Records] /\ Tree(f)
  BY SoundFields
<1>2. f[a] = Empty
  BY DEF Exists
<1>3. /\ f[a].status = 0 /\ ~f[a].banished /\ ~f[a].active /\ f[a].referrer = None
      /\ f[a].referrals = {} /\ f[a].activeReferrals = {}
  BY <1>2 DEF Empty
<1>4. HasParents(f) /\ p \in Parents /\ p # None /\ Acyclic(Referred(f))
  BY <1>1, InfoFields, Constants DEF HasParents, Records, Parents, Tree
<1>5. C \subseteq Accounts /\ p \in C /\ \A b \in C : f[b].referrer \in C \cup {None}
  BY <1>4, OverClosed
<1>6. a \notin C
  <2>1. \A b \in Accounts : f[b].referrer # a
    <3>1. \A b \in Accounts : f[b].referrer # None => ~IsEmpty(f[f[b].referrer])
      BY <1>1 DEF Tree
    <3>. QED  BY <1>3, <3>1, Constants DEF IsEmpty
  <2> DEFINE N == Cardinality(Accounts)
             s == Ancestors(f, p, N)
  <2>2. IsChain(f, p, N, s) /\ s \in Seq(Accounts)
    BY <1>4, AccountsCount, AncestorsValue DEF IsChain
  <2>3. ASSUME a \in C PROVE FALSE
    <3>1. PICK k \in 1..Len(s) : s[k] = a
      BY <2>2, <2>3 DEF Over, Range
    <3>. HIDE DEF s
    <3>2. CASE k = 1
      BY <2>2, <3>1, <3>2 DEF IsChain
    <3>3. CASE k # 1
      <4>1. k - 1 \in 1..(Len(s) - 1) /\ k - 1 \in 1..Len(s) /\ (k - 1) + 1 = k
        BY <3>1, <3>3
      <4>2. f[s[k - 1]].referrer = s[k] /\ s[k - 1] \in Accounts
        BY <2>2, <4>1 DEF IsChain
      <4>. QED  BY <2>1, <3>1, <4>2
    <3>. QED  BY <3>2, <3>3
  <2>. QED  BY <2>3
<1>7. /\ new \in Records /\ new.referrer = p /\ ~new.banished /\ ~new.active
      /\ ~IsEmpty(new) /\ Wealthy(new) /\ new.referrals = {} /\ new.activeReferrals = {}
  <2>1. now + CompressionPeriod \in Moments
    BY Constants DEF CompressionPeriod, Moments
  <2>2. NewRecord(new, p, h)
    BY <1>4, <2>1, NewInfoRecord
  <2>. HIDE DEF new
  <2>. QED  BY <2>2 DEF NewRecord, IsEmpty, Wealthy, Holding
<1>8. Own(h) \in Amounts
  BY DEF Own, Amounts, Sums, Holding
<1>9. Depth \in 1..Depth
  BY Constants
<1>10. AppendChild(w, p, a, h) = Joined(Update(w, a, new), a, p, Own(h), Depth)
  BY DEF AppendChild
<1>. HIDE DEF new, C
<1>11. Keeps(w, Joined(Update(w, a, new), a, p, Own(h), Depth))
  <2>1. new.referrals = f[a].referrals /\ new.activeReferrals = f[a].activeReferrals
    BY <1>3, <1>7
  <2>. QED  BY <1>3, <1>4, <1>5, <1>6, <1>7, <1>8, <1>9, <2>1, JoinedKeeps
<1>. QED  BY <1>10, <1>11

-----------------------------------------------------------------------------
(* Balances and activity.                                                  *)

(***************************************************************************)
(* A record may take another balance.                                      *)
(***************************************************************************)
LEMMA BalanceSet ==
    ASSUME now \in Nat, NEW w, Sound(w), NEW a \in Accounts, NEW x \in Amounts,
           ~w.broken => LET r == w.infos[a]
                            d == r.lines["delegated"][0] + x.delegated
                        IN  0 <= d /\ d <= r.lines["coins"][0] + x.coins
    PROVE  Keeps(w, Checked(w, a, Contribute(w.infos[a], 0, x)))
<1> DEFINE q == w.infos[a]
           d == InLine(0, x)
           r == Adjust(q, d)
           v == Checked(w, a, r)
<1>1. w \in Worlds /\ w.infos \in [Accounts -> Records] /\ q \in Records
  BY SoundFields
<1>2. Contribute(q, 0, x) = r
  BY DEF Contribute
<1>3. d \in LineSums /\ d["coins"][0] = x.coins /\ d["delegated"][0] = x.delegated
  BY BringsGains
<1>. HIDE DEF d, q
<1>4. /\ r \in Records
      /\ r.lines["coins"][0] = q.lines["coins"][0] + x.coins
      /\ r.lines["delegated"][0] = q.lines["delegated"][0] + x.delegated
      /\ r = [q EXCEPT !.lines = r.lines]
  BY <1>1, <1>3, AdjustRecord
<1>. HIDE DEF r
<1>5. SamePlace(q, r)
  <2> DEFINE lines == r.lines
  <2>1. r = [q EXCEPT !.lines = lines] /\ q \in Info
    BY <1>1, <1>4 DEF Records
  <2>. HIDE DEF lines
  <2>. QED  BY <2>1 DEF SamePlace, Info, IsEmpty
<1>6. Writes(w, v, a, r)
  BY <1>1, <1>4, CheckedWrites
<1>7. v = Checked(w, a, Contribute(w.infos[a], 0, x))
  BY <1>2 DEF q
<1>. HIDE DEF v
<1>. SUFFICES Keeps(w, v)
  BY <1>7
<1>8. CASE v.broken
  BY <1>6, <1>8 DEF Writes, Keeps, Ends, Sound
<1>9. CASE ~v.broken
  <2>1. PICK q2 \in Records : Alike(r, q2) /\ v.infos = [w.infos EXCEPT ![a] = q2]
    BY <1>6, <1>9 DEF Writes
  <2>2. ~w.broken /\ v \in Worlds
    BY <1>6, <1>9 DEF Writes
  <2>3. Tree(w.infos) /\ \A c \in Accounts : Wealthy(w.infos[c])
    BY <2>2, SoundFields
  <2>4. SamePlace(q, q2) /\ Wealthy(q2)
    <3>1. SamePlace(q, q2)
      BY <1>5, <2>1 DEF SamePlace, Alike
    <3>2. Wealthy(r)
      BY <1>4, <2>2 DEF Wealthy, q
    <3>. QED  BY <2>1, <3>1, <3>2 DEF Alike, SameStake, Wealthy
  <2>5. ASSUME NEW c \in Accounts
        PROVE  SamePlace(w.infos[c], v.infos[c]) /\ Wealthy(v.infos[c])
    <3>1. CASE c = a
      BY <1>1, <2>1, <2>4, <3>1 DEF q
    <3>2. CASE c # a
      BY <1>1, <2>1, <2>3, <3>2 DEF SamePlace
    <3>. QED  BY <3>1, <3>2
  <2>6. /\ Tree(v.infos)
        /\ Banished(v.infos) = Banished(w.infos) /\ Stay(w.infos, v.infos)
    BY <1>1, <2>3, <2>5, TreeSamePlace
  <2>. QED  BY <2>2, <2>5, <2>6 DEF Keeps, Ends, Sound, Good
<1>. QED  BY <1>8, <1>9

LEMMA BalanceChangedKeeps ==
    ASSUME now \in Nat, NEW w, Sound(w), NEW a \in Accounts,
           NEW h \in [coins : Int, delegated : Int],
           ~w.broken => 0 <= h.delegated /\ h.delegated <= h.coins
    PROVE  Keeps(w, OnBalanceChanged(w, a, h))
<1> DEFINE r == w.infos[a]
           x == [f \in Sums |-> Own(h)[f] - Balance(r)[f]]
           moved == IF x.delegated = 0 \/ r.active THEN w
                    ELSE IF h.delegated > Dust THEN Redeemed(Spare(w, a), a)
                    ELSE IF MustScheduleBanishment(r, h) THEN ScheduleBanishment(w, a)
                    ELSE w
           q == moved.infos[a]
           set == Checked(moved, a, Contribute(q, 0, x))
           climbed == ClimbIf(TRUE, set, q.referrer, Depth, NoLink, Brings(x))
<1>1. w \in Worlds /\ w.infos \in [Accounts -> Records] /\ r \in Records
  BY SoundFields
<1>2. /\ x \in Amounts
      /\ x.coins = h.coins - r.lines["coins"][0]
      /\ x.delegated = h.delegated - r.lines["delegated"][0]
      /\ r.lines["coins"][0] \in Int /\ r.lines["delegated"][0] \in Int
  <2>1. /\ Balance(r) \in Amounts /\ Balance(r).coins = r.lines["coins"][0]
        /\ Balance(r).delegated = r.lines["delegated"][0]
    BY <1>1, BalanceFields
  <2>2. r.lines["coins"][0] \in Int /\ r.lines["delegated"][0] \in Int
    BY <1>1, InfoFields, Constants DEF Records
  <2>3. \A f \in Sums : Own(h)[f] \in Int /\ Balance(r)[f] \in Int
    BY <2>1 DEF Amounts, Own, Sums
  <2>4. x \in Amounts
    <3>. HIDE DEF r
    <3>. QED  BY <2>3 DEF Amounts
  <2>5. x.coins = Own(h).coins - Balance(r).coins
        /\ x.delegated = Own(h).delegated - Balance(r).delegated
    <3>. HIDE DEF r
    <3>. QED  BY DEF Sums
  <2>. QED  BY <2>1, <2>2, <2>4, <2>5 DEF Own
<1>3. OnBalanceChanged(w, a, h) =
        IF IsEmpty(r) THEN w ELSE IF q.banished THEN set ELSE climbed
  BY DEF OnBalanceChanged, Climb
<1>. HIDE DEF x, r
<1>4. Keeps(w, moved) /\ SameStakes(w, moved)
  <2>1. Keeps(w, w) /\ SameStakes(w, w)
    BY KeepsReflexive
  <2>2. Keeps(w, Redeemed(Spare(w, a), a)) /\ SameStakes(w, Redeemed(Spare(w, a), a))
    <3> DEFINE u == Spare(w, a)
    <3>1. Keeps(w, u) /\ SameStakes(w, u)
      BY <1>1, SpareKeeps, BecomesKeeps
    <3>2. Sound(u)
      BY <3>1 DEF Keeps, Ends
    <3>. HIDE DEF u
    <3>3. Keeps(u, Redeemed(u, a)) /\ SameStakes(u, Redeemed(u, a))
      BY <3>2, RedeemedKeeps
    <3>4. Ends(u, Redeemed(u, a))
      BY <3>3 DEF Keeps
    <3>. QED  BY <3>1, <3>3, <3>4, KeepsTransitive DEF u
  <2>3. Keeps(w, ScheduleBanishment(w, a)) /\ SameStakes(w, ScheduleBanishment(w, a))
    BY <1>1, ScheduleBanishmentKeeps, BecomesKeeps
  <2>. QED  BY <2>1, <2>2, <2>3
<1>. HIDE DEF moved
<1>5. Sound(moved) /\ moved \in Worlds /\ moved.infos \in [Accounts -> Records] /\ q \in Records
  <2>1. Sound(moved)
    BY <1>4 DEF Keeps, Ends
  <2>. QED  BY <2>1, SoundFields
<1>6. Keeps(moved, set)
  <2>1. ASSUME ~moved.broken
        PROVE  LET d == q.lines["delegated"][0] + x.delegated
               IN  0 <= d /\ d <= q.lines["coins"][0] + x.coins
    <3>1. ~w.broken
      BY <1>4, <2>1 DEF Keeps, Ends
    <3>2. /\ q.lines["delegated"][0] = r.lines["delegated"][0]
          /\ q.lines["coins"][0] = r.lines["coins"][0]
      BY <1>4, <2>1 DEF SameStakes, SameStake, r
    <3>. HIDE DEF q
    <3>3. q.lines["delegated"][0] + x.delegated = h.delegated
          /\ q.lines["coins"][0] + x.coins = h.coins
      BY <1>2, <3>2
    <3>. QED  BY <3>1, <3>3
  <2>. QED  BY <1>2, <1>5, <2>1, BalanceSet
<1>7. Keeps(w, set)
  <2>. HIDE DEF set
  <2>. QED  BY <1>4, <1>6, KeepsTransitive
<1>8. Keeps(w, climbed)
  <2> DEFINE p == q.referrer
             gain == Brings(x)
  <2>1. p \in Parents /\ gain \in Gains /\ Depth \in 1..Depth /\ TRUE \in BOOLEAN
    BY <1>2, <1>5, InfoFields, BringsGains, Constants DEF Records
  <2>2. Sound(set) /\ set \in Worlds
    BY <1>7 DEF Keeps, Ends, Sound
  <2>. HIDE DEF set, p, gain
  <2>3. Becomes(set, ClimbIf(TRUE, set, p, Depth, NoLink, gain), set.infos)
    BY <2>1, <2>2, ClimbPlain
  <2>4. Keeps(set, ClimbIf(TRUE, set, p, Depth, NoLink, gain))
    BY <2>2, <2>3, BecomesKeeps
  <2>. QED  BY <1>7, <2>4, KeepsTransitive DEF p, gain
<1>9. Keeps(w, w)
  BY KeepsReflexive
<1>. HIDE DEF set, climbed, q
<1>. QED  BY <1>3, <1>7, <1>8, <1>9

LEMMA PaidKeeps ==
    ASSUME now \in Nat, NEW w, Sound(w), NEW a \in Accounts, NEW x \in Nat,
           ~w.broken => w.infos[a].lines["coins"][0] - w.infos[a].lines["delegated"][0] >= x
    PROVE  Keeps(w, Paid(w, a, x))
<1> DEFINE b == Balance(w.infos[a])
           h == [coins |-> b.coins - x, delegated |-> b.delegated]
<1>1. w.infos \in [Accounts -> Records]
      /\ (~w.broken => \A c \in Accounts : Wealthy(w.infos[c]))
  BY SoundFields
<1>2. /\ b.coins = w.infos[a].lines["coins"][0] /\ b.coins \in Int
      /\ b.delegated = w.infos[a].lines["delegated"][0] /\ b.delegated \in Int
  <2>1. w.infos[a] \in Records
    BY <1>1
  <2>2. Balance(w.infos[a]) \in Amounts
        /\ Balance(w.infos[a]).coins = w.infos[a].lines["coins"][0]
        /\ Balance(w.infos[a]).delegated = w.infos[a].lines["delegated"][0]
    BY <2>1, BalanceFields
  <2>. QED  BY <2>2 DEF Amounts, Sums
<1>3. h \in [coins : Int, delegated : Int]
  <2>. HIDE DEF b
  <2>. QED  BY <1>2
<1>4. ~w.broken => 0 <= h.delegated /\ h.delegated <= h.coins
  <2>. HIDE DEF b
  <2>1. ~w.broken => 0 <= b.delegated /\ b.coins - b.delegated >= x
    BY <1>1, <1>2 DEF Wealthy
  <2>. QED  BY <1>2, <2>1
<1>5. Paid(w, a, x) = IF x = 0 THEN w ELSE OnBalanceChanged(w, a, h)
  BY DEF Paid
<1>. HIDE DEF h
<1>. QED  BY <1>3, <1>4, <1>5, BalanceChangedKeeps, KeepsReflexive

(***************************************************************************)
(* Whoever is not banished may become active.                              *)
(***************************************************************************)
LEMMA SetActiveKeeps ==
    ASSUME now \in Nat, NEW w, Sound(w), NEW a \in Accounts, NEW active \in BOOLEAN,
           NEW check \in BOOLEAN, active /\ ~w.broken => ~w.infos[a].banished
    PROVE  LET v == SetActive(w, a, active, check) IN Keeps(w, v) /\ SameStakes(w, v)
<1> DEFINE f == w.infos
           r == f[a]
           p == r.referrer
           set == [Contribute(r, 0, Delta(active)) EXCEPT !.active = active,
                     !.compressionAt = IF active THEN NoTime ELSE now + CompressionPeriod]
           own == Update(w, a, set)
           spared == IF active THEN Spare(own, a) ELSE own
           link == Activity(a, active)
           gain == Brings(Delta(active))
           v == ClimbIf(check, spared, p, Depth, link, gain)
           T == Climbed(spared.infos, p, link)
           g == v.infos
           time == now + CompressionPeriod
<1>1. w \in Worlds /\ f \in [Accounts -> Records] /\ r \in Records /\ p \in Parents
  BY SoundFields, InfoFields DEF Records
<1>2. SetActive(w, a, active, check) =
        IF r.active = active THEN w
        ELSE IF active \/ r.referrer = None \/ v.broken THEN v
        ELSE Scheduled(v, time, "compression", a)
  BY DEF SetActive
<1>3. Delta(active) \in Amounts /\ Delta(active).coins = 0 /\ Delta(active).delegated = 0
  BY DEF Delta, Amounts, Sums
<1>4. gain \in Gains /\ link \in Links /\ Depth \in 1..Depth /\ time \in Nat
      /\ link.join = {} /\ link.leave = {}
      /\ link.rise = (IF active THEN {a} ELSE {}) /\ link.fall = (IF active THEN {} ELSE {a})
  <2>1. gain \in Gains
    BY <1>3, BringsGains
  <2>2. link \in Links
    BY LinksOf DEF Activity
  <2>3. /\ link.join = {} /\ link.leave = {}
        /\ link.rise = (IF active THEN {a} ELSE {}) /\ link.fall = (IF active THEN {} ELSE {a})
    BY DEF Activity, NoLink
  <2>. QED  BY <2>1, <2>2, <2>3, Constants DEF CompressionPeriod
<1>5. /\ set \in Records /\ set.active = active /\ set.referrer = p
      /\ set.banished = r.banished /\ set.referrals = r.referrals
      /\ set.activeReferrals = r.activeReferrals /\ SameStake(r, set)
      /\ set.status = r.status
  <2> DEFINE d == InLine(0, Delta(active))
             q == Contribute(r, 0, Delta(active))
  <2>1. d \in LineSums /\ d["coins"][0] = 0 /\ d["delegated"][0] = 0
    BY <1>3, BringsGains
  <2>2. q = Adjust(r, d)
    BY DEF Contribute
  <2>. HIDE DEF d, r
  <2>3. q \in Records /\ Alike(r, q) /\ q = [r EXCEPT !.lines = q.lines]
    BY <1>1, <2>1, <2>2, AdjustAlike, AdjustRecord
  <2>. HIDE DEF q
  <2>4. q.status = r.status
    <3> DEFINE lines == q.lines
    <3>1. q = [r EXCEPT !.lines = lines] /\ r \in Info
      BY <1>1, <2>3 DEF Records
    <3>. HIDE DEF lines
    <3>. QED  BY <3>1 DEF Info
  <2>5. (IF active THEN NoTime ELSE time) \in Moments
    BY <1>4 DEF Moments
  <2> DEFINE at == IF active THEN NoTime ELSE time
             set2 == [q EXCEPT !.active = active, !.compressionAt = at]
  <2>6. set2 = set
    BY DEF q, r
  <2>. HIDE DEF at, set
  <2>7. /\ set2 \in Records /\ set2.active = active /\ set2.referrer = q.referrer
        /\ set2.banished = q.banished /\ set2.referrals = q.referrals
        /\ set2.activeReferrals = q.activeReferrals /\ set2.lines = q.lines
        /\ set2.status = q.status
    BY <2>3, <2>5 DEF Records, Info, at
  <2>. HIDE DEF set2
  <2>8. SameStake(r, set2)
    BY <2>3, <2>7 DEF Alike, SameStake
  <2>. QED  BY <2>3, <2>4, <2>6, <2>7, <2>8 DEF Alike, SamePlace, r
<1>. HIDE DEF set, gain, link
<1>6. own \in Worlds /\ own.infos = [f EXCEPT ![a] = set] /\ own.broken = w.broken
  BY <1>1, <1>5, UpdateWorld
<1>. HIDE DEF own
<1>7. Becomes(own, spared, own.infos) /\ spared \in Worlds
  <2>1. Becomes(own, Spare(own, a), own.infos)
    BY <1>6, SpareKeeps
  <2>2. Becomes(own, own, own.infos)
    BY <1>6, AlikeReflexive DEF Becomes
  <2>3. Becomes(own, spared, own.infos)
    BY <2>1, <2>2
  <2>. QED  BY <2>3 DEF Becomes
<1>. HIDE DEF spared
<1>8. Becomes(spared, v, T)
  <2>. HIDE DEF p
  <2>. QED  BY <1>1, <1>4, <1>7, ClimbBecomes DEF p
<1>9. v \in Worlds /\ (v.broken \/ (~spared.broken /\ ~own.broken /\ ~w.broken))
  BY <1>6, <1>7, <1>8 DEF Becomes
<1>10. ASSUME ~v.broken, r.active # active PROVE Keeps(w, v) /\ SameStakes(w, v)
  <2>1. Tree(f) /\ \A c \in Accounts : Wealthy(f[c])
    BY <1>9, <1>10, SoundFields
  <2> DEFINE o == own.infos
             s == spared.infos
  <2>2. /\ \A c \in Accounts : Alike(o[c], s[c])
        /\ \A c \in Accounts : Alike(T[c], g[c])
        /\ g \in [Accounts -> Records] /\ s \in [Accounts -> Records]
    <3>1. \A c \in Accounts : Alike(o[c], s[c])
      BY <1>7, <1>9, <1>10 DEF Becomes
    <3>2. \A c \in Accounts : Alike(T[c], g[c])
      BY <1>8, <1>10 DEF Becomes
    <3>. QED  BY <1>7, <1>9, <3>1, <3>2, WorldFields
  <2>3. o = [f EXCEPT ![a] = set] /\ o \in [Accounts -> Records]
    BY <1>6, WorldFields
  <2>. HIDE DEF o
  <2>4. \A c \in Accounts : T[c] = IF c = p THEN Linked(s[c], link) ELSE s[c]
    BY DEF Climbed
  <2>. HIDE DEF s, T, g, p
  <2>5. ASSUME NEW c \in Accounts
        PROVE  /\ T[c].referrer = o[c].referrer /\ T[c].referrals = o[c].referrals
               /\ T[c].banished = o[c].banished /\ T[c].active = o[c].active
               /\ SameStake(o[c], T[c]) /\ (IsEmpty(T[c]) => IsEmpty(o[c]))
               /\ T[c].activeReferrals =
                    IF c = p THEN (o[c].activeReferrals \ link.fall) \cup link.rise
                    ELSE o[c].activeReferrals
    <3>1. CASE c = p
      <4>1. Alike(Linked(o[c], link), Linked(s[c], link)) /\ o[c] \in Records
        BY <1>4, <2>2, <2>3, LinkedAlike
      <4> DEFINE q == o[c]
      <4>2. q \in Records
        BY <4>1
      <4>. HIDE DEF q
      <4>3. /\ Linked(q, link).referrals = (q.referrals \ link.leave) \cup link.join
            /\ Linked(q, link).activeReferrals = (q.activeReferrals \ link.fall) \cup link.rise
            /\ Linked(q, link).referrer = q.referrer /\ Linked(q, link).active = q.active
            /\ Linked(q, link).banished = q.banished /\ Linked(q, link).lines = q.lines
            /\ Linked(q, link).status = q.status
        BY <1>4, <4>2, LinkedRecord
      <4>4. Linked(q, link).referrals = q.referrals
        BY <1>4, <4>3
      <4>5. Alike(Linked(q, link), T[c])
        BY <2>4, <3>1, <4>1 DEF q
      <4>. HIDE DEF Linked
      <4>6. /\ T[c].referrer = q.referrer /\ T[c].referrals = q.referrals
            /\ T[c].banished = q.banished /\ T[c].active = q.active
            /\ T[c].activeReferrals = (q.activeReferrals \ link.fall) \cup link.rise
            /\ SameStake(q, T[c]) /\ (IsEmpty(T[c]) => IsEmpty(q))
        BY <4>3, <4>4, <4>5 DEF Alike, SamePlace, SameStake, IsEmpty
      <4>. QED  BY <3>1, <4>6 DEF q
    <3>2. CASE c # p
      BY <2>2, <2>4, <3>2 DEF Alike, SamePlace
    <3>. QED  BY <3>1, <3>2
  <2>6. ASSUME NEW c \in Accounts
        PROVE  /\ g[c].referrer = f[c].referrer /\ g[c].referrals = f[c].referrals
               /\ g[c].banished = f[c].banished
               /\ g[c].active = IF c = a THEN active ELSE f[c].active
               /\ SameStake(f[c], g[c]) /\ (IsEmpty(g[c]) => IsEmpty(f[c]))
               /\ g[c].activeReferrals =
                    IF c = p THEN (f[c].activeReferrals \ link.fall) \cup link.rise
                    ELSE f[c].activeReferrals
    <3>1. o[c] = IF c = a THEN set ELSE f[c]
      BY <1>1, <2>3
    <3>2. /\ o[c].referrer = f[c].referrer /\ o[c].referrals = f[c].referrals
          /\ o[c].banished = f[c].banished /\ o[c].status = f[c].status
          /\ o[c].activeReferrals = f[c].activeReferrals
          /\ o[c].active = (IF c = a THEN active ELSE f[c].active)
          /\ SameStake(f[c], o[c])
      BY <1>5, <3>1 DEF p, SameStake
    <3>3. SamePlace(T[c], g[c]) /\ SameStake(T[c], g[c])
      BY <2>2 DEF Alike
    <3>. QED  BY <2>5, <3>2, <3>3 DEF SamePlace, SameStake, IsEmpty
  <2>7. /\ \A c \in Accounts : f[c].referrals = {b \in Accounts : ~f[b].banished /\ f[b].referrer = c}
        /\ \A c \in Accounts : f[c].activeReferrals = {b \in Accounts : f[b].active /\ f[b].referrer = c}
        /\ f[a].referrer # None => ~IsEmpty(f[f[a].referrer])
        /\ f[a].banished => ~f[a].active
    BY <2>1 DEF Tree
  <2>8. Listed(f, g, a)
    <3>1. ASSUME NEW c \in Accounts
          PROVE  /\ g[c].referrals = (f[c].referrals \ {a}) \cup
                      (IF ~g[a].banished /\ g[a].referrer = c THEN {a} ELSE {})
                 /\ g[c].activeReferrals = (f[c].activeReferrals \ {a}) \cup
                      (IF g[a].active /\ g[a].referrer = c THEN {a} ELSE {})
      <4>1. a \in f[c].referrals <=> ~g[a].banished /\ g[a].referrer = c
        <5>1. g[a].banished = f[a].banished /\ g[a].referrer = f[a].referrer
          BY <2>6
        <5>2. f[c].referrals = {b \in Accounts : ~f[b].banished /\ f[b].referrer = c}
          BY <2>7
        <5>. HIDE DEF f
        <5>. QED  BY <5>1, <5>2
      <4>2. a \in f[c].activeReferrals => c = p
        BY <2>7 DEF p
      <4>3. g[c].activeReferrals =
              IF c = p THEN (f[c].activeReferrals \ link.fall) \cup link.rise
              ELSE f[c].activeReferrals
        BY <2>6
      <4>4. g[a].active = active /\ g[a].referrer = p
        BY <2>6 DEF p
      <4>5. g[c].referrals = f[c].referrals
        BY <2>6
      <4>6. g[c].activeReferrals = (f[c].activeReferrals \ {a}) \cup
                      (IF active /\ p = c THEN {a} ELSE {})
        <5>1. CASE c # p
          BY <4>2, <4>3, <5>1
        <5>2. CASE c = p /\ active
          BY <1>4, <4>3, <5>2
        <5>3. CASE c = p /\ ~active
          BY <1>4, <4>3, <5>3
        <5>. QED  BY <5>1, <5>2, <5>3
      <4>. QED  BY <4>1, <4>4, <4>5, <4>6
    <3>. QED  BY <3>1 DEF Listed
  <2>9. Tree(g)
    <3>1. g[a].referrer # None => ~IsEmpty(g[g[a].referrer])
      BY <1>1, <2>6, <2>7 DEF p, Parents
    <3>2. g[a].banished => ~g[a].active
      BY <1>9, <1>10, <2>6
    <3>3. g[a].referrer = f[a].referrer /\ \A c \in Accounts : IsEmpty(g[c]) => IsEmpty(f[c])
      BY <2>6
    <3>4. \A c \in Accounts \ {a} : /\ g[c].referrer = f[c].referrer
                                     /\ g[c].banished = f[c].banished
                                     /\ g[c].active = f[c].active
      BY <2>6
    <3>. HIDE DEF f
    <3>. QED  BY <1>1, <2>1, <2>2, <2>8, <3>1, <3>2, <3>3, <3>4, OneMoves
  <2>10. \A c \in Accounts : Wealthy(g[c])
    BY <2>1, <2>6 DEF SameStake, Wealthy
  <2>11. Stay(f, g) /\ Banished(g) = Banished(f)
    BY <2>6 DEF Stay, Banished
  <2>12. SameStakes(w, v)
    BY <2>6 DEF SameStakes, g, f
  <2>. QED  BY <1>9, <1>10, <2>9, <2>10, <2>11, <2>12 DEF Keeps, Ends, Sound, Good, g
<1>. HIDE DEF v
<1>11. v.broken => Keeps(w, v) /\ SameStakes(w, v)
  BY <1>9 DEF Keeps, Ends, Sound, SameStakes
<1>12. r.active # active =>
        LET u == Scheduled(v, time, "compression", a) IN Keeps(w, u) /\ SameStakes(w, u)
  <2>1. "compression" \in Handlers
    BY DEF Handlers
  <2>2. /\ Scheduled(v, time, "compression", a) \in Worlds
        /\ Scheduled(v, time, "compression", a).infos = v.infos
        /\ Scheduled(v, time, "compression", a).broken = v.broken
    BY <1>4, <1>9, <2>1, ScheduledWorld
  <2>. QED  BY <1>10, <1>11, <2>2 DEF Keeps, Ends, Sound, SameStakes
<1>. QED  BY <1>2, <1>10, <1>11, <1>12, KeepsReflexive

-----------------------------------------------------------------------------
(* Compression, banishment and the other tasks.                            *)

LEMMA BareRecord ==
    ASSUME NEW r \in Records
    PROVE  /\ Bare(r) \in Records /\ Bare(r).referrals = {} /\ Bare(r).activeReferrals = {}
           /\ Bare(r).referrer = r.referrer /\ Bare(r).banished = r.banished
           /\ Bare(r).active = r.active /\ Bare(r).status = 1 /\ SameStake(r, Bare(r))
<1> DEFINE lines == [f \in Sums |-> [i \in Lines |->
                       IF i = 0 /\ f # "counts" THEN r.lines[f][0] ELSE 0]]
           q == [r EXCEPT !.referrals = {}, !.activeReferrals = {}, !.compressionAt = NoTime,
                          !.status = 1, !.lines = lines]
<1>1. r \in Info /\ 0 \in Lines /\ 1 \in 0..MaxStatus
  BY Constants DEF Records
<1>2. \A f \in Sums : r.lines[f][0] \in Int
  BY <1>1 DEF Info
<1>3. lines \in LineSums
  BY <1>2 DEF LineSums
<1>4. lines["coins"][0] = r.lines["coins"][0] /\ lines["delegated"][0] = r.lines["delegated"][0]
  BY <1>1 DEF Sums
<1>5. Bare(r) = q
  BY DEF Bare
<1>. HIDE DEF lines
<1>6. /\ q \in Info /\ q.referrals = {} /\ q.activeReferrals = {}
      /\ q.referrer = r.referrer /\ q.banished = r.banished
      /\ q.active = r.active /\ q.status = 1 /\ q.lines = lines
  BY <1>1, <1>3 DEF Info, Moments, LineSums
<1>. HIDE DEF q
<1>. QED  BY <1>4, <1>5, <1>6 DEF Records, SameStake

LEMMA CompressKeeps ==
    ASSUME now \in Nat, NEW w, Sound(w), ~w.broken, NEW a \in Accounts,
           w.infos[a].referrer # None
    PROVE  LET v == Compress(w, a) IN Keeps(w, v) /\ SameStakes(w, v)
<1> DEFINE f == w.infos
           r == f[a]
           p == r.referrer
           R == r.referrals
           i == SetIndex(w, a, r.status, 1)
           bare == Update(i, a, Bare(r))
           left == IF r.lines["delegated"][0] <= Dust THEN ScheduleBanishment(bare, a) ELSE bare
           M == [c \in Accounts |-> IF c \in R THEN [left.infos[c] EXCEPT !.referrer = p]
                                    ELSE left.infos[c]]
           moved == [left EXCEPT !.infos = M]
           link == [NoLink EXCEPT !.join = R, !.rise = r.activeReferrals]
           gain == [k \in 1..Depth |-> [l \in Sums |->
                      [j \in Lines |-> Popped(r.lines[l], k, j)]]]
           v == ClimbIf(TRUE, moved, p, Depth, link, gain)
           T == Climbed(moved.infos, p, link)
           g == v.infos
<1>1. /\ w \in Worlds /\ f \in [Accounts -> Records] /\ r \in Records /\ p \in Accounts
      /\ Tree(f) /\ \A c \in Accounts : Wealthy(f[c])
  <2>1. w \in Worlds /\ f \in [Accounts -> Records] /\ Tree(f) /\ \A c \in Accounts : Wealthy(f[c])
    BY SoundFields
  <2>2. p \in Parents
    BY <2>1, InfoFields DEF Records
  <2>. QED  BY <2>1, <2>2 DEF Parents
<1>2. Compress(w, a) = v
  BY DEF Compress, Climb
<1>3. /\ R = {b \in Accounts : ~f[b].banished /\ f[b].referrer = a}
      /\ r.activeReferrals \in SUBSET Accounts /\ a \notin R /\ p # a
  <2>1. R = {b \in Accounts : ~f[b].banished /\ f[b].referrer = a}
    BY <1>1 DEF Tree
  <2>2. r.activeReferrals \in SUBSET Accounts
    BY <1>1, InfoFields DEF Records
  <2>3. p # a
    <3>1. {a} \in SUBSET DOMAIN Referred(f) /\ {a} # {}
      BY DEF Referred
    <3>2. \E b \in {a} : Referred(f)[b] \notin {a}
      BY <1>1, <3>1 DEF Acyclic, Tree
    <3>. QED  BY <3>2 DEF Referred
  <2>. QED  BY <2>1, <2>2, <2>3
<1>4. link \in Links /\ link.join = R /\ link.rise = r.activeReferrals
      /\ link.leave = {} /\ link.fall = {}
  <2>. HIDE DEF R, r
  <2>. QED  BY <1>3 DEF NoLink, Links
<1>5. gain \in Gains
  <2>1. ASSUME NEW k \in 1..Depth, NEW l \in Sums, NEW j \in Lines
        PROVE  Popped(r.lines[l], k, j) \in Int /\ (j = 0 => Popped(r.lines[l], k, j) = 0)
    <3> DEFINE u == r.lines[l]
    <3>1. u \in [Lines -> Int]
      BY <1>1, InfoFields DEF Records, LineSums
    <3>. HIDE DEF u
    <3>2. 1 \in Lines
      BY Constants DEF Lines
    <3>3. j > k /\ j < Depth => j - k + 1 \in Lines /\ j - k \in Lines
      BY Constants DEF Lines
    <3>4. Popped(u, k, j) \in Int
      BY <3>1, <3>2, <3>3 DEF Popped
    <3>5. j = 0 => Popped(u, k, j) = 0
      BY Constants DEF Popped
    <3>. QED  BY <3>4, <3>5 DEF u
  <2>2. ASSUME NEW k \in 1..Depth PROVE gain[k] \in LineSums
    <3>. HIDE DEF r
    <3>. QED  BY <2>1 DEF LineSums
  <2>3. ASSUME NEW k \in 1..Depth PROVE gain[k]["coins"][0] = 0 /\ gain[k]["delegated"][0] = 0
    <3>1. 0 \in Lines /\ "coins" \in Sums /\ "delegated" \in Sums
      BY Constants DEF Sums
    <3>. HIDE DEF r
    <3>. QED  BY <2>1, <3>1
  <2>4. gain = [k \in 1..Depth |-> gain[k]]
    OBVIOUS
  <2>. HIDE DEF gain
  <2>. QED  BY <2>2, <2>3, <2>4 DEF Gains
<1>. HIDE DEF link, gain
<1>6. i \in Worlds /\ i.infos = f /\ i.broken = w.broken
  <2>1. 1 \in 0..MaxStatus
    BY Constants
  <2>. QED  BY <1>1, <2>1, SetIndexWorld
<1>. HIDE DEF i
<1>7. /\ Bare(r) \in Records /\ Bare(r).referrals = {} /\ Bare(r).activeReferrals = {}
      /\ Bare(r).referrer = r.referrer /\ Bare(r).banished = r.banished
      /\ Bare(r).active = r.active /\ Bare(r).status = 1 /\ SameStake(r, Bare(r))
  BY <1>1, BareRecord
<1>8. bare \in Worlds /\ bare.infos = [f EXCEPT ![a] = Bare(r)] /\ ~bare.broken
  BY <1>6, <1>7, UpdateWorld
<1>. HIDE DEF bare
<1>9. Becomes(bare, left, bare.infos) /\ left \in Worlds
  <2>1. Becomes(bare, ScheduleBanishment(bare, a), bare.infos)
    BY <1>8, ScheduleBanishmentKeeps
  <2>2. Becomes(bare, bare, bare.infos)
    BY <1>8, AlikeReflexive DEF Becomes
  <2>3. Becomes(bare, left, bare.infos)
    BY <2>1, <2>2
  <2>. QED  BY <2>3 DEF Becomes
<1>. HIDE DEF left
<1>10. ASSUME NEW c \in Accounts
       PROVE  /\ M[c] \in Records
              /\ M[c].referrer = (IF c \in R THEN p ELSE left.infos[c].referrer)
              /\ M[c].referrals = left.infos[c].referrals
              /\ M[c].activeReferrals = left.infos[c].activeReferrals
              /\ M[c].banished = left.infos[c].banished /\ M[c].active = left.infos[c].active
              /\ M[c].status = left.infos[c].status /\ SameStake(left.infos[c], M[c])
  <2> DEFINE q == left.infos[c]
  <2>1. q \in Records
    BY <1>9, WorldFields
  <2>2. M[c] = IF c \in R THEN [q EXCEPT !.referrer = p] ELSE q
    OBVIOUS
  <2>3. p \in Accounts \cup {None}
    BY <1>1
  <2>. HIDE DEF q, M, p, R
  <2>4. LET q2 == [q EXCEPT !.referrer = p]
        IN  /\ q2 \in Records /\ q2.referrer = p /\ q2.referrals = q.referrals
            /\ q2.activeReferrals = q.activeReferrals
            /\ q2.banished = q.banished /\ q2.active = q.active
            /\ q2.status = q.status /\ SameStake(q, q2)
    BY <2>1, <2>3 DEF Records, Info, SameStake
  <2>5. CASE c \in R
    BY <2>2, <2>4, <2>5 DEF q
  <2>6. CASE c \notin R
    BY <2>1, <2>2, <2>6 DEF q, SameStake
  <2>. QED  BY <2>5, <2>6
<1>11. M \in [Accounts -> Records] /\ moved \in Worlds /\ moved.infos = M /\ moved.broken = left.broken
  <2>1. M \in [Accounts -> Records]
    <3>1. M = [c \in Accounts |-> M[c]]
      OBVIOUS
    <3>. HIDE DEF M
    <3>. QED  BY <1>10, <3>1
  <2>. HIDE DEF M
  <2>. QED  BY <1>9, <2>1 DEF Worlds
<1>. HIDE DEF M, moved
<1>12. Becomes(moved, v, T)
  <2>1. Depth \in 1..Depth /\ p \in Parents
    BY <1>1, Constants DEF Parents
  <2>. HIDE DEF p
  <2>. QED  BY <1>4, <1>5, <1>11, <2>1, ClimbBecomes
<1>13. v \in Worlds /\ (v.broken \/ (~moved.broken /\ ~left.broken))
  BY <1>11, <1>12 DEF Becomes
<1>14. ASSUME ~v.broken PROVE Keeps(w, v) /\ SameStakes(w, v)
  <2> DEFINE b == bare.infos
             l == left.infos
  <2>1. /\ \A c \in Accounts : Alike(b[c], l[c])
        /\ \A c \in Accounts : Alike(T[c], g[c])
        /\ g \in [Accounts -> Records]
    <3>1. \A c \in Accounts : Alike(b[c], l[c])
      BY <1>9, <1>13, <1>14 DEF Becomes
    <3>2. \A c \in Accounts : Alike(T[c], g[c])
      BY <1>12, <1>14 DEF Becomes
    <3>. QED  BY <1>13, <3>1, <3>2, WorldFields
  <2>2. \A c \in Accounts : b[c] = IF c = a THEN Bare(r) ELSE f[c]
    BY <1>1, <1>8
  <2>3. \A c \in Accounts : T[c] = IF c = p THEN Linked(M[c], link) ELSE M[c]
    BY <1>11 DEF Climbed
  <2>. HIDE DEF b, T, g
  <2>4. ASSUME NEW c \in Accounts
        PROVE  /\ T[c].referrer = M[c].referrer /\ T[c].status = M[c].status
               /\ T[c].banished = M[c].banished /\ T[c].active = M[c].active
               /\ SameStake(M[c], T[c])
               /\ T[c].referrals = M[c].referrals \cup (IF c = p THEN R ELSE {})
               /\ T[c].activeReferrals =
                    M[c].activeReferrals \cup (IF c = p THEN r.activeReferrals ELSE {})
    <3> DEFINE q == M[c]
    <3>1. q \in Records
      BY <1>10
    <3>. HIDE DEF q
    <3>2. /\ Linked(q, link).referrals = (q.referrals \ link.leave) \cup link.join
          /\ Linked(q, link).activeReferrals = (q.activeReferrals \ link.fall) \cup link.rise
          /\ Linked(q, link).referrer = q.referrer /\ Linked(q, link).active = q.active
          /\ Linked(q, link).banished = q.banished /\ Linked(q, link).lines = q.lines
          /\ Linked(q, link).status = q.status
      BY <1>4, <3>1, LinkedRecord
    <3>3. T[c] = IF c = p THEN Linked(q, link) ELSE q
      BY <2>3 DEF q
    <3>4. /\ Linked(q, link).referrals = q.referrals \cup R
          /\ Linked(q, link).activeReferrals = q.activeReferrals \cup r.activeReferrals
      BY <1>4, <3>2
    <3>. HIDE DEF p, R, r
    <3>5. CASE c = p
      BY <3>2, <3>3, <3>4, <3>5 DEF q, SameStake
    <3>6. CASE c # p
      BY <3>3, <3>6 DEF q, SameStake
    <3>. QED  BY <3>5, <3>6
  <2>5. ASSUME NEW c \in Accounts
        PROVE  /\ g[c].referrer = (IF c \in R THEN p ELSE f[c].referrer)
               /\ g[c].banished = f[c].banished /\ g[c].active = f[c].active
               /\ SameStake(f[c], g[c]) /\ (IsEmpty(g[c]) => IsEmpty(f[c]))
               /\ g[c].referrals = (IF c = a THEN {} ELSE f[c].referrals)
                                     \cup (IF c = p THEN R ELSE {})
               /\ g[c].activeReferrals = (IF c = a THEN {} ELSE f[c].activeReferrals)
                                     \cup (IF c = p THEN r.activeReferrals ELSE {})
    <3>1. /\ b[c].referrer = f[c].referrer /\ b[c].banished = f[c].banished
          /\ b[c].active = f[c].active /\ SameStake(f[c], b[c])
          /\ b[c].referrals = (IF c = a THEN {} ELSE f[c].referrals)
          /\ b[c].activeReferrals = (IF c = a THEN {} ELSE f[c].activeReferrals)
          /\ IsEmpty(b[c]) => IsEmpty(f[c])
      <4>1. CASE c = a
        BY <1>7, <2>2, <4>1 DEF IsEmpty
      <4>2. CASE c # a
        BY <2>2, <4>2 DEF SameStake
      <4>. QED  BY <4>1, <4>2
    <3>2. Alike(b[c], l[c]) /\ Alike(T[c], g[c])
      BY <2>1
    <3>. HIDE DEF f, p, R, r, l
    <3>3. /\ M[c].referrer = (IF c \in R THEN p ELSE l[c].referrer)
          /\ M[c].referrals = l[c].referrals
          /\ M[c].activeReferrals = l[c].activeReferrals
          /\ M[c].banished = l[c].banished /\ M[c].active = l[c].active
          /\ M[c].status = l[c].status /\ SameStake(l[c], M[c])
      BY <1>10 DEF l
    <3>4. /\ M[c].referrer = (IF c \in R THEN p ELSE f[c].referrer)
          /\ M[c].banished = f[c].banished /\ M[c].active = f[c].active
          /\ SameStake(f[c], M[c]) /\ (IsEmpty(M[c]) => IsEmpty(f[c]))
          /\ M[c].referrals = (IF c = a THEN {} ELSE f[c].referrals)
          /\ M[c].activeReferrals = (IF c = a THEN {} ELSE f[c].activeReferrals)
      <4>1. IsEmpty(M[c]) => IsEmpty(f[c])
        BY <3>1, <3>2, <3>3 DEF Alike, SamePlace, IsEmpty
      <4>. QED  BY <3>1, <3>2, <3>3, <4>1 DEF Alike, SamePlace, SameStake
    <3>5. IsEmpty(g[c]) => IsEmpty(f[c])
      BY <2>4, <3>2, <3>4 DEF Alike, SamePlace, IsEmpty
    <3>. QED  BY <2>4, <3>2, <3>4, <3>5 DEF Alike, SamePlace, SameStake
  <2>6. Tree(g)
    <3>1. g[a].referrals = {} /\ g[a].activeReferrals = {}
      BY <1>3, <2>5
    <3>2. /\ g[p].referrals = f[p].referrals \cup r.referrals
          /\ g[p].activeReferrals = f[p].activeReferrals \cup r.activeReferrals
      BY <1>1, <1>3, <2>5
    <3>3. ASSUME NEW c \in Accounts \ {a, p}
          PROVE  g[c].referrals = f[c].referrals /\ g[c].activeReferrals = f[c].activeReferrals
      <4>1. c \in Accounts /\ c # a /\ c # p
        OBVIOUS
      <4>. HIDE DEF f, p
      <4>2. /\ g[c].referrals = f[c].referrals \cup {}
            /\ g[c].activeReferrals = f[c].activeReferrals \cup {}
        BY <2>5, <4>1
      <4>. QED  BY <4>2
    <3>4. \A c \in Accounts :
             /\ g[c].referrer = (IF c \in f[a].referrals THEN p ELSE f[c].referrer)
             /\ g[c].banished = f[c].banished /\ g[c].active = f[c].active
             /\ IsEmpty(g[c]) => IsEmpty(f[c])
      BY <2>5
    <3>5. p = f[a].referrer
      OBVIOUS
    <3>. HIDE DEF f, p
    <3>. QED  BY <1>1, <2>1, <3>1, <3>2, <3>3, <3>4, <3>5, AllRise
  <2>7. \A c \in Accounts : Wealthy(g[c])
    BY <1>1, <2>5 DEF SameStake, Wealthy
  <2>8. Stay(f, g) /\ Banished(g) = Banished(f)
    BY <1>1, <2>5, Constants DEF Stay, Banished
  <2>9. SameStakes(w, v)
    BY <2>5 DEF SameStakes, g, f
  <2>. QED  BY <1>13, <1>14, <2>6, <2>7, <2>8, <2>9 DEF Keeps, Ends, Sound, Good, g
<1>. HIDE DEF v
<1>15. v.broken => Keeps(w, v) /\ SameStakes(w, v)
  BY <1>13 DEF Keeps, Ends, Sound, SameStakes
<1>. QED  BY <1>2, <1>14, <1>15

LEMMA PerformCompressionKeeps ==
    ASSUME now \in Nat, NEW w, Sound(w), ~w.broken, NEW a \in Accounts
    PROVE  LET v == PerformCompression(w, a) IN Keeps(w, v) /\ SameStakes(w, v)
BY CompressKeeps, KeepsReflexive DEF PerformCompression

\* What Banish does before x/delegating hears of it.
Ousted(w, a) ==
    LET r == w.infos[a]
        x == Balance(r)
        out == [r EXCEPT !.banished = TRUE, !.status = 0, !.compressionAt = NoTime,
                         !.downgradeAt = NoTime, !.banishmentAt = NoTime]
    IN  Climb(Update(w, a, out), r.referrer, Reach(x),
              [NoLink EXCEPT !.leave = {a}], Brings(Negated(x)))

(***************************************************************************)
(* A banished account leaves the lists of its referrer, and keeps him.     *)
(***************************************************************************)
LEMMA OustedEnds ==
    ASSUME now \in Nat, NEW w, Sound(w), ~w.broken, NEW a \in Accounts, MayBanish(w.infos[a])
    PROVE  LET v == Ousted(w, a) IN Ends(w, v) /\ SameStakes(w, v)
<1> DEFINE f == w.infos
           r == f[a]
           p == r.referrer
           x == Balance(r)
           n == Reach(x)
           out == [r EXCEPT !.banished = TRUE, !.status = 0, !.compressionAt = NoTime,
                            !.downgradeAt = NoTime, !.banishmentAt = NoTime]
           u == Update(w, a, out)
           link == [NoLink EXCEPT !.leave = {a}]
           gain == Brings(Negated(x))
           v == ClimbIf(TRUE, u, p, n, link, gain)
           T == Climbed(u.infos, p, link)
           g == v.infos
<1>1. /\ w \in Worlds /\ f \in [Accounts -> Records] /\ r \in Records /\ p \in Parents
      /\ Tree(f) /\ \A c \in Accounts : Wealthy(f[c])
  <2>1. w \in Worlds /\ f \in [Accounts -> Records] /\ Tree(f) /\ \A c \in Accounts : Wealthy(f[c])
    BY SoundFields
  <2>. QED  BY <2>1, InfoFields DEF Records
<1>2. Ousted(w, a) = v
  BY DEF Ousted, Climb
<1>3. link \in Links /\ gain \in Gains /\ n \in 1..Depth
  <2>1. Negated(x) \in Amounts
    BY <1>1, BalanceFields
  <2>. QED  BY <2>1, LinksOf, BringsGains, ReachDepth
<1>4. link.leave = {a} /\ link.join = {} /\ link.rise = {} /\ link.fall = {}
  BY DEF NoLink
<1>. HIDE DEF link, gain, n
<1>5. /\ out \in Records /\ out.banished /\ out.referrer = r.referrer
      /\ out.referrals = r.referrals /\ out.activeReferrals = r.activeReferrals
      /\ out.active = r.active /\ SameStake(r, out)
  <2>1. r \in Info /\ 0 \in 0..MaxStatus
    BY <1>1, Constants DEF Records
  <2>. HIDE DEF r
  <2>2. /\ out \in Info /\ out.banished /\ out.referrer = r.referrer
        /\ out.referrals = r.referrals /\ out.activeReferrals = r.activeReferrals
        /\ out.active = r.active /\ SameStake(r, out) /\ out.downgradeAt = NoTime
    BY <2>1 DEF Info, Moments, SameStake
  <2>. HIDE DEF out
  <2>. QED  BY <2>2 DEF Records
<1>. HIDE DEF out
<1>6. u \in Worlds /\ u.infos = [f EXCEPT ![a] = out] /\ ~u.broken
  BY <1>1, <1>5, UpdateWorld
<1>. HIDE DEF u
<1>7. Becomes(u, v, T) /\ v \in Worlds
  <2>. HIDE DEF p
  <2>1. Becomes(u, v, T)
    BY <1>1, <1>3, <1>6, ClimbBecomes
  <2>. QED  BY <2>1 DEF Becomes
<1>8. ASSUME ~v.broken PROVE Sound(v) /\ Stay(f, g) /\ SameStakes(w, v)
  <2>0. ~r.active /\ ~r.banished
    BY DEF MayBanish
  <2>1. (\A c \in Accounts : Alike(T[c], g[c])) /\ g \in [Accounts -> Records]
    BY <1>7, <1>8, WorldFields DEF Becomes
  <2>2. \A c \in Accounts : T[c] = IF c = p THEN Linked(u.infos[c], link) ELSE u.infos[c]
    BY DEF Climbed
  <2>3. \A c \in Accounts : u.infos[c] = IF c = a THEN out ELSE f[c]
    BY <1>1, <1>6
  <2>. HIDE DEF T, g
  <2>4. ASSUME NEW c \in Accounts
        PROVE  /\ T[c].referrer = f[c].referrer /\ T[c].active = f[c].active
               /\ T[c].banished = IF c = a THEN TRUE ELSE f[c].banished
               /\ SameStake(f[c], T[c]) /\ (IsEmpty(T[c]) => IsEmpty(f[c]))
               /\ T[c].referrals = f[c].referrals \ (IF c = p THEN {a} ELSE {})
               /\ T[c].activeReferrals = f[c].activeReferrals
    <3> DEFINE q == u.infos[c]
    <3>1. q \in Records
      BY <1>6, WorldFields
    <3>2. /\ q.referrer = f[c].referrer /\ q.active = f[c].active
          /\ q.banished = (IF c = a THEN TRUE ELSE f[c].banished)
          /\ q.referrals = f[c].referrals /\ q.activeReferrals = f[c].activeReferrals
          /\ SameStake(f[c], q) /\ (IsEmpty(q) => IsEmpty(f[c]))
      <4>1. q = IF c = a THEN out ELSE f[c]
        BY <2>3
      <4>. HIDE DEF q
      <4>2. CASE c = a
        BY <1>5, <4>1, <4>2 DEF IsEmpty
      <4>3. CASE c # a
        BY <4>1, <4>3 DEF SameStake
      <4>. QED  BY <4>2, <4>3
    <3>3. T[c] = IF c = p THEN Linked(q, link) ELSE q
      BY <2>2
    <3>. HIDE DEF q
    <3>4. /\ Linked(q, link).referrals = (q.referrals \ link.leave) \cup link.join
          /\ Linked(q, link).activeReferrals = (q.activeReferrals \ link.fall) \cup link.rise
          /\ Linked(q, link).referrer = q.referrer /\ Linked(q, link).active = q.active
          /\ Linked(q, link).banished = q.banished /\ Linked(q, link).lines = q.lines
          /\ Linked(q, link).status = q.status
      BY <1>3, <3>1, LinkedRecord
    <3>5. /\ Linked(q, link).referrals = q.referrals \ {a}
          /\ Linked(q, link).activeReferrals = q.activeReferrals
      BY <1>4, <3>4
    <3>. HIDE DEF p, f
    <3>6. CASE c = p
      BY <3>2, <3>3, <3>4, <3>5, <3>6 DEF SameStake, IsEmpty
    <3>7. CASE c # p
      BY <3>2, <3>3, <3>7
    <3>. QED  BY <3>6, <3>7
  <2>5. ASSUME NEW c \in Accounts
        PROVE  /\ g[c].referrer = f[c].referrer /\ g[c].active = f[c].active
               /\ g[c].banished = (IF c = a THEN TRUE ELSE f[c].banished)
               /\ SameStake(f[c], g[c]) /\ (IsEmpty(g[c]) => IsEmpty(f[c]))
               /\ g[c].referrals = f[c].referrals \ (IF c = p THEN {a} ELSE {})
               /\ g[c].activeReferrals = f[c].activeReferrals
    <3>1. Alike(T[c], g[c])
      BY <2>1
    <3>. HIDE DEF f, p
    <3>2. SamePlace(T[c], g[c]) /\ SameStake(T[c], g[c])
      BY <3>1 DEF Alike
    <3>3. SameStake(f[c], g[c])
      BY <2>4, <3>2 DEF SameStake
    <3>. QED  BY <2>4, <3>2, <3>3 DEF SamePlace
  <2>6. Listed(f, g, a)
    <3>1. ASSUME NEW c \in Accounts
          PROVE  /\ g[c].referrals = (f[c].referrals \ {a}) \cup
                      (IF ~g[a].banished /\ g[a].referrer = c THEN {a} ELSE {})
                 /\ g[c].activeReferrals = (f[c].activeReferrals \ {a}) \cup
                      (IF g[a].active /\ g[a].referrer = c THEN {a} ELSE {})
      <4>1. /\ f[c].referrals = {b \in Accounts : ~f[b].banished /\ f[b].referrer = c}
            /\ f[c].activeReferrals = {b \in Accounts : f[b].active /\ f[b].referrer = c}
        BY <1>1 DEF Tree
      <4>2. a \in f[c].referrals => c = p
        BY <4>1
      <4>3. a \notin f[c].activeReferrals
        BY <2>0, <4>1
      <4>4. g[a].banished /\ ~g[a].active
        BY <2>0, <2>5
      <4>5. g[c].referrals = f[c].referrals \ (IF c = p THEN {a} ELSE {})
            /\ g[c].activeReferrals = f[c].activeReferrals
        BY <2>5
      <4>. HIDE DEF f, p
      <4>6. g[c].referrals = f[c].referrals \ {a}
        <5>1. CASE c = p
          BY <4>5, <5>1
        <5>2. CASE c # p
          BY <4>2, <4>5, <5>2
        <5>. QED  BY <5>1, <5>2
      <4>. QED  BY <4>3, <4>4, <4>5, <4>6
    <3>. QED  BY <3>1 DEF Listed
  <2>7. Tree(g)
    <3>1. g[a].referrer # None => ~IsEmpty(g[g[a].referrer])
      <4>1. p # None => ~IsEmpty(f[p]) /\ p \in Accounts
        BY <1>1 DEF Tree, Parents
      <4>2. g[a].referrer = p
        BY <2>5
      <4>3. p # None => ~IsEmpty(g[p])
        BY <2>5, <4>1
      <4>. QED  BY <4>2, <4>3
    <3>2. g[a].banished => ~g[a].active
      BY <2>0, <2>5
    <3>3. g[a].referrer = f[a].referrer /\ \A c \in Accounts : IsEmpty(g[c]) => IsEmpty(f[c])
      BY <2>5
    <3>4. \A c \in Accounts \ {a} : /\ g[c].referrer = f[c].referrer
                                     /\ g[c].banished = f[c].banished
                                     /\ g[c].active = f[c].active
      BY <2>5
    <3>. HIDE DEF f
    <3>. QED  BY <1>1, <2>1, <2>6, <3>1, <3>2, <3>3, <3>4, OneMoves
  <2>8. \A c \in Accounts : Wealthy(g[c])
    BY <1>1, <2>5 DEF SameStake, Wealthy
  <2>9. Stay(f, g)
    <3>1. \A c \in Accounts : /\ g[c].referrer = f[c].referrer
                              /\ IsEmpty(g[c]) => IsEmpty(f[c])
      BY <2>5
    <3>. HIDE DEF f
    <3>. QED  BY <3>1 DEF Stay
  <2>10. SameStakes(w, v)
    BY <2>5 DEF SameStakes, g, f
  <2>. QED  BY <1>7, <2>7, <2>8, <2>9, <2>10 DEF Sound, Good, g
<1>. HIDE DEF v
<1>. QED  BY <1>2, <1>7, <1>8 DEF Ends, Sound, SameStakes

LEMMA BanishEnds ==
    ASSUME now \in Nat, NEW w, Sound(w), ~w.broken, NEW a \in Accounts
    PROVE  Ends(w, Banish(w, a))
<1> DEFINE r == w.infos[a]
           v == Ousted(w, a)
<1>1. Banish(w, a) = IF MayBanish(r) THEN OnBanished(v, a) ELSE w
  BY DEF Banish, Ousted
<1>2. ASSUME MayBanish(r) PROVE Ends(w, OnBanished(v, a))
  <2>1. Ends(w, v)
    BY <1>2, OustedEnds
  <2>. HIDE DEF v
  <2> DEFINE y == Balance(v.infos[a])
             h == [coins |-> y.coins, delegated |-> 0]
  <2>2. OnBanished(v, a) = IF v.broken \/ y.delegated = 0 THEN v ELSE OnBalanceChanged(v, a, h)
    BY DEF OnBanished
  <2>3. v.infos \in [Accounts -> Records] /\ Sound(v)
        /\ (~v.broken => \A c \in Accounts : Wealthy(v.infos[c]))
    BY <2>1, SoundFields DEF Ends
  <2>4. y.coins \in Int /\ y.delegated \in Int
        /\ y.coins = v.infos[a].lines["coins"][0] /\ y.delegated = v.infos[a].lines["delegated"][0]
    <3>1. v.infos[a] \in Records
      BY <2>3
    <3>2. y \in Amounts
      BY <3>1, BalanceFields
    <3>. QED  BY <3>1, <3>2, BalanceFields DEF Amounts, Sums
  <2>5. ~v.broken => 0 <= y.coins
    <3>1. ~v.broken => 0 <= y.delegated /\ y.delegated <= y.coins
      BY <2>3, <2>4 DEF Wealthy
    <3>. HIDE DEF y
    <3>. QED  BY <2>4, <3>1
  <2>. HIDE DEF y
  <2>6. h \in [coins : Int, delegated : Int] /\ (~v.broken => 0 <= h.delegated /\ h.delegated <= h.coins)
    BY <2>4, <2>5
  <2>. HIDE DEF h
  <2>7. Keeps(v, OnBalanceChanged(v, a, h))
    BY <2>3, <2>6, BalanceChangedKeeps
  <2>8. Ends(v, OnBalanceChanged(v, a, h))
    BY <2>7 DEF Keeps
  <2>. QED  BY <2>1, <2>2, <2>8, KeepsTransitive
<1>3. Ends(w, w)
  BY KeepsReflexive DEF Keeps
<1>. QED  BY <1>1, <1>2, <1>3

(***************************************************************************)
(* A check of an account, with another status or not, leaves the tree.     *)
(***************************************************************************)
LEMMA CheckedKeeps ==
    ASSUME now \in Nat, NEW w, Sound(w), NEW a \in Accounts, NEW r \in Records,
           SameStake(w.infos[a], r),
           r.banished = w.infos[a].banished, r.active = w.infos[a].active,
           r.referrer = w.infos[a].referrer, r.referrals = w.infos[a].referrals,
           r.activeReferrals = w.infos[a].activeReferrals
    PROVE  LET v == Checked(w, a, r) IN Keeps(w, v) /\ SameStakes(w, v)
<1> DEFINE v == Checked(w, a, r)
<1>1. w \in Worlds /\ w.infos \in [Accounts -> Records]
  BY SoundFields
<1>2. Writes(w, v, a, r) /\ (v.broken \/ ~IsEmpty(v.infos[a]))
  BY <1>1, CheckedWrites
<1>. HIDE DEF v
<1>3. CASE v.broken
  BY <1>2, <1>3 DEF Writes, Keeps, Ends, Sound, SameStakes, v
<1>4. CASE ~v.broken
  <2>1. PICK q \in Records : Alike(r, q) /\ v.infos = [w.infos EXCEPT ![a] = q]
    BY <1>2, <1>4 DEF Writes
  <2>2. ~w.broken /\ v \in Worlds
    BY <1>2, <1>4 DEF Writes
  <2>3. Alike(w.infos[a], q)
    <3>1. ~IsEmpty(q)
      BY <1>1, <1>2, <1>4, <2>1
    <3>. QED  BY <2>1, <3>1 DEF Alike, SamePlace, SameStake
  <2>4. \A c \in Accounts : Alike(w.infos[c], v.infos[c])
    BY <1>1, <2>1, <2>3, AlikeReflexive
  <2>5. Becomes(w, v, w.infos)
    BY <2>2, <2>4 DEF Becomes
  <2>. QED  BY <2>5, BecomesKeeps DEF v
<1>. QED  BY <1>3, <1>4

LEMMA PerformDowngradeKeeps ==
    ASSUME now \in Nat, NEW w, Sound(w), NEW a \in Accounts
    PROVE  LET v == PerformDowngrade(w, a) IN Keeps(w, v) /\ SameStakes(w, v)
<1> DEFINE r == w.infos[a]
<1>1. w \in Worlds /\ w.infos \in [Accounts -> Records] /\ r \in Records
  BY SoundFields
<1>2. CASE r.downgradeAt = NoTime \/ r.downgradeAt > now
  <2>1. PerformDowngrade(w, a) = Checked(w, a, r)
    BY <1>2 DEF PerformDowngrade
  <2>2. SameStake(r, r)
    BY DEF SameStake
  <2>. HIDE DEF r
  <2>3. Keeps(w, Checked(w, a, r)) /\ SameStakes(w, Checked(w, a, r))
    BY <1>1, <2>2, CheckedKeeps DEF r
  <2>. QED  BY <2>1, <2>3
<1>3. CASE ~(r.downgradeAt = NoTime \/ r.downgradeAt > now)
  <2> DEFINE u == SetIndex(w, a, r.status, r.status - 1)
             q == [r EXCEPT !.status = r.status - 1, !.downgradeAt = NoTime]
  <2>1. PerformDowngrade(w, a) = Checked(u, a, q)
    BY <1>3 DEF PerformDowngrade
  <2>2. r.status - 1 \in 0..MaxStatus
    <3>1. r.status \in 0..MaxStatus /\ r.status >= 1 /\ MaxStatus \in Nat
      BY <1>1, <1>3, InfoFields, Constants DEF Records
    <3>. HIDE DEF r
    <3>. QED  BY <3>1
  <2>3. u \in Worlds /\ u.infos = w.infos /\ u.broken = w.broken
    BY <1>1, <2>2, SetIndexWorld
  <2>4. /\ q \in Records /\ q.referrer = r.referrer /\ q.banished = r.banished
        /\ q.active = r.active /\ q.referrals = r.referrals
        /\ q.activeReferrals = r.activeReferrals /\ SameStake(r, q)
    <3> DEFINE s == r.status - 1
               t == [r EXCEPT !.status = s, !.downgradeAt = NoTime]
    <3>1. s \in 0..MaxStatus /\ r \in Info /\ t = q
      BY <1>1, <2>2 DEF Records
    <3>. HIDE DEF s, r, q
    <3>2. /\ t \in Records /\ t.referrer = r.referrer /\ t.banished = r.banished
          /\ t.active = r.active /\ t.referrals = r.referrals
          /\ t.activeReferrals = r.activeReferrals /\ SameStake(r, t)
      BY <3>1 DEF Records, Info, Moments, SameStake
    <3>. QED  BY <3>1, <3>2
  <2>. HIDE DEF u, q
  <2>5. Sound(u)
    BY <2>3 DEF Sound
  <2>6. Keeps(u, Checked(u, a, q)) /\ SameStakes(u, Checked(u, a, q))
    BY <2>3, <2>4, <2>5, CheckedKeeps
  <2>. QED  BY <2>1, <2>3, <2>6 DEF Keeps, Ends, SameStakes
<1>. QED  BY <1>2, <1>3

LEMMA TransitionSet ==
    ASSUME NEW w, Sound(w), NEW a \in Accounts, NEW n \in Parents
    PROVE  LET v == [w EXCEPT !.infos[a].transition = n]
           IN  Keeps(w, v) /\ SameStakes(w, v)
<1> DEFINE r == w.infos[a]
           q == [r EXCEPT !.transition = n]
           v == [w EXCEPT !.infos[a].transition = n]
<1>1. w \in Worlds /\ w.infos \in [Accounts -> Records] /\ r \in Records
  BY SoundFields
<1>2. v = Update(w, a, q)
  BY <1>1 DEF Update, Worlds
<1>. HIDE DEF r
<1>3. q \in Records /\ Alike(r, q)
  <2>1. n \in Accounts \cup {None}
    BY DEF Parents
  <2>. QED  BY <1>1, <2>1 DEF Records, Info, Alike, SamePlace, SameStake, IsEmpty
<1>. HIDE DEF q
<1>4. /\ Update(w, a, q) \in Worlds /\ Update(w, a, q).broken = w.broken
      /\ Update(w, a, q).infos = [w.infos EXCEPT ![a] = q]
  BY <1>1, <1>3, UpdateWorld
<1>. HIDE DEF v
<1>5. \A c \in Accounts : Alike(w.infos[c], v.infos[c])
  BY <1>1, <1>2, <1>3, <1>4, AlikeReflexive DEF r
<1>6. Becomes(w, v, w.infos)
  BY <1>2, <1>4, <1>5 DEF Becomes
<1>7. Keeps(w, v) /\ SameStakes(w, v)
  BY <1>6, BecomesKeeps
<1>. QED  BY <1>7 DEF v

-----------------------------------------------------------------------------
(* Transitions.                                                            *)

(***************************************************************************)
(* One ancestor loses or gains the lines of the subject; the first one     *)
(* has its lists linked, too.                                              *)
(***************************************************************************)
LEMMA ShiftBecomes ==
    ASSUME now \in Nat, NEW w \in Worlds, NEW u, NEW f, Becomes(w, u, f),
           f \in [Accounts -> Records],
           NEW s \in Records, NEW chain \in Seq(Accounts), NEW k \in 1..Depth,
           NEW link \in Links, NEW sign \in Int
    PROVE  LET v == Shift(u, s, chain, k, link, sign)
               g == IF k = 1 /\ chain # <<>> THEN Climbed(f, chain[1], link) ELSE f
           IN  /\ Becomes(w, v, g)
               /\ k <= Len(chain) => v.broken \/ ~IsEmpty(v.infos[chain[k]])
<1> DEFINE v == Shift(u, s, chain, k, link, sign)
           c == chain[k]
           r == IF k = 1 THEN Linked(u.infos[c], link) ELSE u.infos[c]
           d == [l \in Sums |-> [i \in Lines |-> IF i < k THEN 0 ELSE sign * s.lines[l][i - k]]]
           g == IF k = 1 /\ chain # <<>> THEN Climbed(f, chain[1], link) ELSE f
<1>1. u \in Worlds /\ u.infos \in [Accounts -> Records]
  BY WorldFields DEF Becomes
<1>2. CASE k > Len(chain)
  <2>1. v = u
    BY <1>2 DEF Shift
  <2>2. k \in Nat /\ Len(chain) \in Nat /\ k >= 1
    BY Constants
  <2>3. ~(k = 1 /\ chain # <<>>)
    BY <1>2
  <2>4. ~(k <= Len(chain))
    BY <1>2, <2>2
  <2>. QED  BY <2>1, <2>3, <2>4
<1>3. CASE ~(k > Len(chain))
  <2>1. k \in 1..Len(chain) /\ k \in Nat /\ (k = 1 => chain # <<>>)
    BY <1>3, Constants
  <2>2. c \in Accounts
    BY <2>1
  <2>3. v = Checked(u, c, Adjust(r, d))
    BY <1>3 DEF Shift, Shifted
  <2>4. d \in LineSums /\ d["coins"][0] = 0 /\ d["delegated"][0] = 0
    <3>1. ASSUME NEW l \in Sums, NEW i \in Lines
          PROVE  (IF i < k THEN 0 ELSE sign * s.lines[l][i - k]) \in Int
      <4>1. CASE i < k
        BY <4>1
      <4>2. CASE ~(i < k)
        <5>1. i - k \in Lines
          BY <2>1, <4>2, Constants DEF Lines
        <5>2. s.lines[l][i - k] \in Int
          BY <5>1, InfoFields DEF Records, LineSums
        <5> DEFINE y == s.lines[l][i - k]
        <5>3. sign * y \in Int
          <6>. HIDE DEF y
          <6>1. y \in Int
            BY <5>2 DEF y
          <6>. QED  BY <6>1
        <5>. QED  BY <4>2, <5>3
      <4>. QED  BY <4>1, <4>2
    <3>2. d \in LineSums
      BY <3>1 DEF LineSums
    <3>3. d["coins"][0] = 0 /\ d["delegated"][0] = 0
      BY <2>1, Constants DEF Sums
    <3>. QED  BY <3>2, <3>3
  <2>5. u.infos[c] \in Records
    BY <1>1, <2>2
  <2>. HIDE DEF c, d
  <2>6. r \in Records
    BY <2>5, LinkedRecord
  <2>. HIDE DEF r, v
  <2>7. Adjust(r, d) \in Records /\ Alike(r, Adjust(r, d))
    BY <2>4, <2>6, AdjustAlike
  <2>8. Writes(u, v, c, Adjust(r, d)) /\ (v.broken \/ ~IsEmpty(v.infos[c]))
    BY <1>1, <2>2, <2>3, <2>7, CheckedWrites
  <2>9. Becomes(w, v, g)
    <3>1. \A b \in Accounts \ {c} : g[b] = f[b]
      <4>1. k = 1 => c = chain[1]
        BY DEF c
      <4>. QED  BY <4>1 DEF Climbed
    <3>2. u.broken \/ Alike(g[c], r)
      <4>1. u.broken \/ Alike(f[c], u.infos[c])
        BY <2>2 DEF Becomes
      <4>2. CASE k = 1
        <5>1. g[c] = Linked(f[c], link)
          BY <2>1, <2>2, <4>2 DEF Climbed, c
        <5>2. r = Linked(u.infos[c], link)
          BY <4>2 DEF r
        <5>3. f[c] \in Records
          BY <2>2
        <5>4. u.broken \/ Alike(Linked(f[c], link), Linked(u.infos[c], link))
          BY <2>5, <4>1, <5>3, LinkedAlike
        <5>. QED  BY <5>1, <5>2, <5>4
      <4>3. CASE k # 1
        BY <4>1, <4>3 DEF r
      <4>. QED  BY <4>2, <4>3
    <3>3. u.broken \/ Alike(g[c], Adjust(r, d))
      BY <2>7, <3>2, AlikeTransitive
    <3>. HIDE DEF g
    <3>. QED  BY <1>1, <2>2, <2>7, <2>8, <3>1, <3>3, WritesBecomes
  <2>. QED  BY <2>8, <2>9 DEF v, c
<1>. QED  BY <1>2, <1>3

LEMMA LinksLeaving ==
    ASSUME NEW s \in Records, NEW a \in Accounts
    PROVE  /\ Leaving(s, a) \in Links /\ Entering(s, a) \in Links
           /\ Leaving(s, a).join = {} /\ Leaving(s, a).leave = {a} /\ Leaving(s, a).rise = {}
           /\ Leaving(s, a).fall = (IF s.active THEN {a} ELSE {})
           /\ Entering(s, a).join = {a} /\ Entering(s, a).leave = {} /\ Entering(s, a).fall = {}
           /\ Entering(s, a).rise = (IF s.active THEN {a} ELSE {})
BY DEF Leaving, Entering, NoLink, Links

LEMMA ClimbedRecords ==
    ASSUME NEW f \in [Accounts -> Records], NEW p, NEW link \in Links
    PROVE  Climbed(f, p, link) \in [Accounts -> Records]
BY LinkedRecord DEF Climbed

\* The lists after a has left p for n.
Moved(f, s, a, p, n) == Climbed(Climbed(f, p, Leaving(s, a)), n, Entering(s, a))

\* The worlds of a transition, level by level.
Moves(after, w, a, s, p, n) ==
    /\ after[0] = Update(w, a, [s EXCEPT !.referrer = n, !.transition = None])
    /\ \A k \in 1..Depth :
         after[k] = AffirmLevel(after[k - 1], s, a, Ancestors(w.infos, p, Depth),
                                Ancestors(w.infos, n, Depth), k)

LEMMA AffirmSteps ==
    ASSUME now \in Nat, NEW w, w \in Worlds, NEW a \in Accounts, NEW s, s = w.infos[a],
           NEW p \in Accounts, NEW n \in Accounts, p = s.referrer, n = s.transition
    PROVE  \E after : /\ Moves(after, w, a, s, p, n)
                      /\ \A k \in 0..Depth : after[k] \in Worlds
                      /\ AffirmTransition(w, a) = after[Depth]
<1> DEFINE moved == Update(w, a, [s EXCEPT !.referrer = n, !.transition = None])
           old == Ancestors(w.infos, p, Depth)
           new == Ancestors(w.infos, n, Depth)
           V == Worlds
           step(k, v) == AffirmLevel(v, s, a, old, new, k)
           F == [x \in (1..Depth) \X V |-> step(x[1], x[2])]
           Def(g) == g = [k \in 0..Depth |-> IF k = 0 THEN moved ELSE step(k, g[k - 1])]
           after == CHOOSE g : Def(g)
<1>1. /\ w.infos \in [Accounts -> Records] /\ HasParents(w.infos) /\ s \in Records
      /\ Depth \in Nat /\ 1 \in 1..Depth /\ Depth # 0
  <2>1. w.infos \in [Accounts -> Records]
    BY WorldFields
  <2>2. \A c \in Accounts : w.infos[c].referrer \in Parents
    BY <2>1, InfoFields DEF Records
  <2>. QED  BY <2>1, <2>2, Constants DEF HasParents
<1>2. moved \in Worlds
  <2> DEFINE q == [s EXCEPT !.referrer = n, !.transition = None]
  <2>1. q \in Records
    BY <1>1 DEF Records, Info
  <2>2. moved = Update(w, a, q)
    OBVIOUS
  <2>. HIDE DEF q, moved
  <2>. QED  BY <2>1, <2>2, UpdateWorld
<1>3. /\ old \in Seq(Accounts) /\ new \in Seq(Accounts) /\ old # <<>> /\ new # <<>>
      /\ old[1] = p /\ new[1] = n
  <2>1. p \in Parents /\ n \in Parents /\ p # None /\ n # None
    BY Constants DEF Parents
  <2>2. IsChain(w.infos, p, Depth, old) /\ IsChain(w.infos, n, Depth, new)
    BY <1>1, <2>1, AncestorsValue
  <2>. HIDE DEF old, new
  <2>. QED  BY <1>1, <2>1, <2>2 DEF IsChain
<1>4. AffirmTransition(w, a) = after[Depth]
  BY DEF AffirmTransition
<1>. HIDE DEF old, new, moved
<1>5. Leaving(s, a) \in Links /\ Entering(s, a) \in Links /\ -1 \in Int /\ 1 \in Int
  <2>1. -1 \in Int /\ 1 \in Int
    OBVIOUS
  <2>. QED  BY <1>1, <2>1, LinksLeaving
<1>. HIDE DEF step
<1>6. F \in [(1..Depth) \X V -> V]
  <2>1. ASSUME NEW k \in 1..Depth, NEW v \in Worlds PROVE step(k, v) \in Worlds
    <3> DEFINE u == Shift(v, s, old, k, Leaving(s, a), -1)
    <3>1. step(k, v) = v \/ step(k, v) = Shift(u, s, new, k, Entering(s, a), 1)
      BY DEF step, AffirmLevel
    <3>2. Becomes(v, v, v.infos) /\ v.infos \in [Accounts -> Records]
      BY AlikeReflexive, WorldFields DEF Becomes
    <3>3. u \in Worlds
      <4>1. LET g == IF k = 1 /\ old # <<>> THEN Climbed(v.infos, old[1], Leaving(s, a)) ELSE v.infos
            IN  Becomes(v, u, g)
        BY <1>1, <1>3, <1>5, <3>2, ShiftBecomes
      <4>. QED  BY <4>1 DEF Becomes
    <3>. HIDE DEF u
    <3>4. Becomes(u, u, u.infos) /\ u.infos \in [Accounts -> Records]
      BY <3>3, AlikeReflexive, WorldFields DEF Becomes
    <3>5. Shift(u, s, new, k, Entering(s, a), 1) \in Worlds
      <4>1. LET g == IF k = 1 /\ new # <<>> THEN Climbed(u.infos, new[1], Entering(s, a)) ELSE u.infos
            IN  Becomes(u, Shift(u, s, new, k, Entering(s, a), 1), g)
        BY <1>1, <1>3, <1>5, <3>3, <3>4, ShiftBecomes
      <4>. QED  BY <4>1 DEF Becomes
    <3>. QED  BY <3>1, <3>5
  <2>2. ASSUME NEW x \in (1..Depth) \X V PROVE step(x[1], x[2]) \in V
    <3>1. x[1] \in 1..Depth /\ x[2] \in Worlds
      OBVIOUS
    <3>. QED  BY <3>1, <2>1
  <2>. HIDE DEF V
  <2>. QED  BY <2>2
<1>7. ASSUME NEW g \in [0..Depth -> V], Recursion(g, Depth, moved, F) PROVE Def(g)
  <2>. HIDE DEF V
  <2>1. ASSUME NEW k \in 0..Depth
        PROVE  g[k] = IF k = 0 THEN moved ELSE step(k, g[k - 1])
    <3>1. g[k] = IF k = 0 THEN moved ELSE F[<<k, g[k - 1]>>]
      BY <1>7 DEF Recursion
    <3>2. CASE k # 0
      <4>1. k \in 1..Depth /\ k - 1 \in 0..Depth
        BY <1>1, <3>2
      <4>. QED  BY <3>1, <4>1
    <3>. QED  BY <3>1, <3>2
  <2>. QED  BY <2>1
<1>8. Def(after)
  <2>1. PICK g \in [0..Depth -> V] : Recursion(g, Depth, moved, F)
    <3>. HIDE DEF F
    <3>. QED  BY <1>1, <1>2, <1>6, RecursionExists
  <2>2. \E h : Def(h)
    BY <1>7, <2>1
  <2>. HIDE DEF Def
  <2>. QED  BY <2>2
<1>. HIDE DEF after
<1>9. after[0] = moved /\ \A k \in 1..Depth : after[k] = step(k, after[k - 1])
  BY <1>1, <1>8
<1>10. \A k \in 0..Depth : after[k] \in Worlds
  <2> DEFINE A == {k \in 0..Depth : after[k] \in Worlds}
  <2>1. 0 \in A
    BY <1>1, <1>2, <1>9
  <2>2. ASSUME NEW k \in 1..Depth, k - 1 \in A PROVE k \in A
    <3>1. k \in 0..Depth /\ <<k, after[k - 1]>> \in (1..Depth) \X V
      BY <1>1, <2>2
    <3>2. F[<<k, after[k - 1]>>] = step(k, after[k - 1])
      BY <3>1
    <3>3. F[<<k, after[k - 1]>>] \in V
      <4>. HIDE DEF F
      <4>. QED  BY <1>6, <3>1
    <3>. QED  BY <1>9, <3>1, <3>2, <3>3
  <2>. HIDE DEF A
  <2>3. \A k \in 0..Depth : k \in A
    BY <1>1, <2>1, <2>2, UpTo
  <2>. QED  BY <2>3 DEF A
<1>. QED  BY <1>4, <1>9, <1>10 DEF Moves, step, old, new, moved

LEMMA AffirmBecomes ==
    ASSUME now \in Nat, NEW w, w \in Worlds, NEW a \in Accounts, NEW s, s = w.infos[a],
           NEW p \in Accounts, NEW n \in Accounts, p = s.referrer, n = s.transition, n # p
    PROVE  LET v == AffirmTransition(w, a)
               moved == Update(w, a, [s EXCEPT !.referrer = n, !.transition = None])
           IN  /\ Becomes(moved, v, Moved(moved.infos, s, a, p, n))
               /\ v.broken \/ ~IsEmpty(v.infos[n])
<1> DEFINE moved == Update(w, a, [s EXCEPT !.referrer = n, !.transition = None])
           old == Ancestors(w.infos, p, Depth)
           new == Ancestors(w.infos, n, Depth)
           step(k, v) == AffirmLevel(v, s, a, old, new, k)
           G == Moved(moved.infos, s, a, p, n)
<1>1. /\ w.infos \in [Accounts -> Records] /\ HasParents(w.infos) /\ s \in Records
      /\ Depth \in Nat /\ 1 \in 1..Depth /\ Depth # 0
  <2>1. w.infos \in [Accounts -> Records]
    BY WorldFields
  <2>2. \A c \in Accounts : w.infos[c].referrer \in Parents
    BY <2>1, InfoFields DEF Records
  <2>. QED  BY <2>1, <2>2, Constants DEF HasParents
<1>2. moved \in Worlds
  <2> DEFINE q == [s EXCEPT !.referrer = n, !.transition = None]
  <2>1. q \in Records
    BY <1>1 DEF Records, Info
  <2>2. moved = Update(w, a, q)
    OBVIOUS
  <2>. HIDE DEF q, moved
  <2>. QED  BY <2>1, <2>2, UpdateWorld
<1>3. /\ old \in Seq(Accounts) /\ new \in Seq(Accounts) /\ old # <<>> /\ new # <<>>
      /\ old[1] = p /\ new[1] = n
  <2>1. p \in Parents /\ n \in Parents /\ p # None /\ n # None
    BY Constants DEF Parents
  <2>2. IsChain(w.infos, p, Depth, old) /\ IsChain(w.infos, n, Depth, new)
    BY <1>1, <2>1, AncestorsValue
  <2>. HIDE DEF old, new
  <2>. QED  BY <1>1, <2>1, <2>2 DEF IsChain
<1>4. PICK after : /\ Moves(after, w, a, s, p, n)
                   /\ AffirmTransition(w, a) = after[Depth]
  BY AffirmSteps
<1>. HIDE DEF old, new, moved
<1>5. Leaving(s, a) \in Links /\ Entering(s, a) \in Links /\ -1 \in Int /\ 1 \in Int
  <2>1. -1 \in Int /\ 1 \in Int
    OBVIOUS
  <2>. QED  BY <1>1, <2>1, LinksLeaving
<1>6. ASSUME NEW k \in 1..Depth, k # 1, NEW v \in Worlds
      PROVE  Becomes(v, step(k, v), v.infos)
  <2>1. CASE k <= Len(old) /\ k <= Len(new) /\ old[k] = new[k]
    <3>1. step(k, v) = v
      BY <2>1 DEF AffirmLevel
    <3>. QED  BY <3>1, AlikeReflexive DEF Becomes
  <2>2. CASE ~(k <= Len(old) /\ k <= Len(new) /\ old[k] = new[k])
    <3> DEFINE u == Shift(v, s, old, k, Leaving(s, a), -1)
    <3>1. step(k, v) = Shift(u, s, new, k, Entering(s, a), 1)
      BY <2>2 DEF AffirmLevel
    <3>2. Becomes(v, v, v.infos) /\ v.infos \in [Accounts -> Records]
      BY AlikeReflexive, WorldFields DEF Becomes
    <3>3. Becomes(v, u, v.infos)
      BY <1>1, <1>3, <1>5, <1>6, <3>2, ShiftBecomes
    <3>. HIDE DEF u
    <3>4. Becomes(v, Shift(u, s, new, k, Entering(s, a), 1), v.infos)
      BY <1>1, <1>3, <1>5, <1>6, <3>2, <3>3, ShiftBecomes
    <3>. QED  BY <3>1, <3>4
  <2>. QED  BY <2>1, <2>2
<1>7. Becomes(moved, step(1, moved), G)
      /\ (step(1, moved).broken \/ ~IsEmpty(step(1, moved).infos[n]))
  <2> DEFINE f == moved.infos
             g == Climbed(f, p, Leaving(s, a))
             u == Shift(moved, s, old, 1, Leaving(s, a), -1)
  <2>1. step(1, moved) = Shift(u, s, new, 1, Entering(s, a), 1)
    BY <1>3 DEF AffirmLevel
  <2>2. Becomes(moved, moved, f) /\ f \in [Accounts -> Records]
    BY <1>2, AlikeReflexive, WorldFields DEF Becomes
  <2>3. Becomes(moved, u, g)
    BY <1>1, <1>2, <1>3, <1>5, <2>2, ShiftBecomes
  <2>4. g \in [Accounts -> Records]
    BY <1>5, <2>2, ClimbedRecords
  <2>5. 1 <= Len(new)
    BY <1>3
  <2>6. G = Climbed(g, n, Entering(s, a))
    BY DEF Moved
  <2>. HIDE DEF u, g, f, step, G
  <2>7. LET v == Shift(u, s, new, 1, Entering(s, a), 1)
        IN  /\ Becomes(moved, v, IF 1 = 1 /\ new # <<>> THEN Climbed(g, new[1], Entering(s, a)) ELSE g)
            /\ 1 <= Len(new) => v.broken \/ ~IsEmpty(v.infos[new[1]])
    BY <1>1, <1>2, <1>3, <1>5, <2>3, <2>4, ShiftBecomes
  <2>. QED  BY <1>3, <2>1, <2>5, <2>6, <2>7
<1>. HIDE DEF step, G
<1>12. after[0] = moved /\ \A k \in 1..Depth : after[k] = step(k, after[k - 1])
  BY <1>4 DEF Moves, step, old, new, moved
<1> DEFINE P(v) == Becomes(moved, v, G) /\ (v.broken \/ ~IsEmpty(v.infos[n]))
           A == {k \in 0..Depth : k # 0 => P(after[k])}
<1>13. 0 \in A
  BY <1>1
<1>14. ASSUME NEW k \in 1..Depth, k - 1 \in A PROVE k \in A
  <2>1. k \in Nat /\ k \in 0..Depth
    BY <1>1
  <2>2. CASE k = 1
    <3>1. after[1] = step(1, moved)
      BY <1>1, <1>12
    <3>. QED  BY <1>7, <2>1, <2>2, <3>1
  <2>3. CASE k # 1
    <3> DEFINE u == after[k - 1]
               v == after[k]
    <3>1. P(u) /\ u \in Worlds
      <4>1. k - 1 # 0
        BY <2>1, <2>3
      <4>2. P(u)
        BY <1>14, <4>1
      <4>. QED  BY <4>2 DEF Becomes
    <3>2. v = step(k, u)
      BY <1>12
    <3>. HIDE DEF u, v
    <3>3. Becomes(u, v, u.infos)
      BY <1>6, <2>3, <3>1, <3>2 DEF step
    <3>4. Becomes(moved, v, G)
      BY <3>1, <3>3, BecomesTransitive
    <3>5. v.broken \/ ~IsEmpty(v.infos[n])
      BY <3>1, <3>3 DEF Becomes, Alike, SamePlace
    <3>. QED  BY <2>1, <3>4, <3>5 DEF v
  <2>. QED  BY <2>2, <2>3
<1>. HIDE DEF A
<1>15. \A k \in 0..Depth : k \in A
  BY <1>1, <1>13, <1>14, UpTo
<1>16. P(after[Depth])
  BY <1>1, <1>15 DEF A
<1>. QED  BY <1>4, <1>16 DEF G, moved

(***************************************************************************)
(* A referral moves to an account that is not below it.                    *)
(***************************************************************************)
LEMMA AffirmKeeps ==
    ASSUME now \in Nat, NEW w, Sound(w), ~w.broken, NEW a \in Accounts,
           NEW p \in Accounts, NEW n \in Accounts,
           p = w.infos[a].referrer, n = w.infos[a].transition, n # p, a # n,
           a \notin Over(w.infos, n), a \in w.infos[p].referrals
    PROVE  LET v == AffirmTransition(w, a) IN Keeps(w, v) /\ SameStakes(w, v)
<1> DEFINE f == w.infos
           s == f[a]
           q == [s EXCEPT !.referrer = n, !.transition = None]
           moved == Update(w, a, q)
           L == Leaving(s, a)
           E == Entering(s, a)
           v == AffirmTransition(w, a)
           g == v.infos
           M == moved.infos
           G == Moved(M, s, a, p, n)
<1>1. /\ w \in Worlds /\ f \in [Accounts -> Records] /\ s \in Records
      /\ Tree(f) /\ \A c \in Accounts : Wealthy(f[c])
  BY SoundFields
<1>2. Becomes(moved, v, G) /\ (v.broken \/ ~IsEmpty(v.infos[n]))
  BY <1>1, AffirmBecomes
<1>3. /\ q \in Records /\ q.referrer = n /\ q.banished = s.banished /\ q.active = s.active
      /\ q.referrals = s.referrals /\ q.activeReferrals = s.activeReferrals
      /\ q.status = s.status /\ SameStake(s, q)
  <2>. HIDE DEF s
  <2>. QED  BY <1>1 DEF Records, Info, SameStake
<1>. HIDE DEF q
<1>4. moved \in Worlds /\ M = [f EXCEPT ![a] = q] /\ ~moved.broken
  BY <1>1, <1>3, UpdateWorld
<1>5. /\ L \in Links /\ E \in Links
      /\ L.join = {} /\ L.leave = {a} /\ L.rise = {}
      /\ L.fall = (IF s.active THEN {a} ELSE {})
      /\ E.join = {a} /\ E.leave = {} /\ E.fall = {}
      /\ E.rise = (IF s.active THEN {a} ELSE {})
  BY <1>1, LinksLeaving
<1>6. ASSUME NEW c \in Accounts
      PROVE  G[c] = IF c = n THEN Linked(M[c], E)
                    ELSE IF c = p THEN Linked(M[c], L) ELSE M[c]
  BY DEF Moved, Climbed
<1>. HIDE DEF moved, L, E, v, G, M
<1>7. v \in Worlds
  BY <1>2 DEF Becomes
<1>8. CASE v.broken
  BY <1>7, <1>8 DEF Keeps, Ends, Sound, SameStakes, v
<1>9. CASE ~v.broken
  <2>1. g \in [Accounts -> Records] /\ \A c \in Accounts : Alike(G[c], g[c])
    BY <1>2, <1>7, <1>9, WorldFields DEF Becomes
  <2>. HIDE DEF g
  <2>2. ASSUME NEW c \in Accounts
        PROVE  /\ M[c] \in Records
               /\ M[c].referrer = (IF c = a THEN n ELSE f[c].referrer)
               /\ M[c].banished = f[c].banished /\ M[c].active = f[c].active
               /\ M[c].referrals = f[c].referrals
               /\ M[c].activeReferrals = f[c].activeReferrals
               /\ M[c].status = f[c].status /\ SameStake(f[c], M[c])
    <3>1. M[c] = IF c = a THEN q ELSE f[c]
      BY <1>1, <1>4
    <3>2. CASE c = a
      BY <1>3, <3>1, <3>2
    <3>3. CASE c # a
      BY <1>1, <3>1, <3>3 DEF SameStake
    <3>. QED  BY <3>2, <3>3
  <2>3. ASSUME NEW c \in Accounts
        PROVE  /\ G[c].referrer = M[c].referrer /\ G[c].banished = M[c].banished
               /\ G[c].active = M[c].active /\ G[c].status = M[c].status
               /\ SameStake(M[c], G[c])
               /\ G[c].referrals = IF c = n THEN M[c].referrals \cup {a}
                                   ELSE IF c = p THEN M[c].referrals \ {a} ELSE M[c].referrals
               /\ G[c].activeReferrals =
                    IF c = n THEN M[c].activeReferrals \cup E.rise
                    ELSE IF c = p THEN M[c].activeReferrals \ L.fall ELSE M[c].activeReferrals
    <3> DEFINE r == M[c]
    <3>1. r \in Records
      BY <2>2
    <3>2. G[c] = IF c = n THEN Linked(r, E) ELSE IF c = p THEN Linked(r, L) ELSE r
      BY <1>6
    <3>. HIDE DEF r, s
    <3>3. /\ Linked(r, E).referrals = (r.referrals \ E.leave) \cup E.join
          /\ Linked(r, E).activeReferrals = (r.activeReferrals \ E.fall) \cup E.rise
          /\ Linked(r, E).referrer = r.referrer /\ Linked(r, E).active = r.active
          /\ Linked(r, E).banished = r.banished /\ Linked(r, E).lines = r.lines
          /\ Linked(r, E).status = r.status
      BY <1>5, <3>1, LinkedRecord
    <3>4. /\ Linked(r, L).referrals = (r.referrals \ L.leave) \cup L.join
          /\ Linked(r, L).activeReferrals = (r.activeReferrals \ L.fall) \cup L.rise
          /\ Linked(r, L).referrer = r.referrer /\ Linked(r, L).active = r.active
          /\ Linked(r, L).banished = r.banished /\ Linked(r, L).lines = r.lines
          /\ Linked(r, L).status = r.status
      BY <1>5, <3>1, LinkedRecord
    <3>5. CASE c = n
      <4>1. /\ Linked(r, E).referrals = r.referrals \cup {a}
            /\ Linked(r, E).activeReferrals = r.activeReferrals \cup E.rise
        BY <1>5, <3>3
      <4>. QED  BY <3>2, <3>3, <3>5, <4>1 DEF SameStake, r
    <3>6. CASE c # n /\ c = p
      <4>1. /\ Linked(r, L).referrals = r.referrals \ {a}
            /\ Linked(r, L).activeReferrals = r.activeReferrals \ L.fall
        BY <1>5, <3>4
      <4>. QED  BY <3>2, <3>4, <3>6, <4>1 DEF SameStake, r
    <3>7. CASE c # n /\ c # p
      BY <3>2, <3>7 DEF SameStake, r
    <3>. QED  BY <3>5, <3>6, <3>7
  <2>4. ASSUME NEW c \in Accounts
        PROVE  /\ g[c].referrer = (IF c = a THEN n ELSE f[c].referrer)
               /\ g[c].banished = f[c].banished /\ g[c].active = f[c].active
               /\ SameStake(f[c], g[c]) /\ (IsEmpty(g[c]) => IsEmpty(f[c]))
               /\ g[c].referrals = IF c = n THEN f[c].referrals \cup {a}
                                   ELSE IF c = p THEN f[c].referrals \ {a} ELSE f[c].referrals
               /\ g[c].activeReferrals =
                    IF c = n THEN f[c].activeReferrals \cup E.rise
                    ELSE IF c = p THEN f[c].activeReferrals \ L.fall ELSE f[c].activeReferrals
    <3>1. SamePlace(G[c], g[c]) /\ SameStake(G[c], g[c])
      BY <2>1 DEF Alike
    <3> DEFINE r == f[c]
    <3>2. /\ M[c].referrer = (IF c = a THEN n ELSE r.referrer)
          /\ M[c].banished = r.banished /\ M[c].active = r.active
          /\ M[c].referrals = r.referrals
          /\ M[c].activeReferrals = r.activeReferrals
          /\ M[c].status = r.status /\ SameStake(r, M[c])
      BY <2>2
    <3>3. /\ G[c].referrer = M[c].referrer /\ G[c].banished = M[c].banished
          /\ G[c].active = M[c].active /\ G[c].status = M[c].status
          /\ SameStake(M[c], G[c])
      BY <2>3
    <3>4. /\ G[c].referrals = IF c = n THEN M[c].referrals \cup {a}
                              ELSE IF c = p THEN M[c].referrals \ {a} ELSE M[c].referrals
          /\ G[c].activeReferrals =
               IF c = n THEN M[c].activeReferrals \cup E.rise
               ELSE IF c = p THEN M[c].activeReferrals \ L.fall ELSE M[c].activeReferrals
      BY <2>3
    <3>. HIDE DEF r
    <3>5. SameStake(r, g[c])
      BY <3>1, <3>2, <3>3 DEF SameStake
    <3>6. IsEmpty(g[c]) => IsEmpty(r)
      BY <3>1, <3>2, <3>3 DEF SamePlace, IsEmpty
    <3>7. /\ g[c].referrer = (IF c = a THEN n ELSE r.referrer)
          /\ g[c].banished = r.banished /\ g[c].active = r.active
      BY <3>1, <3>2, <3>3 DEF SamePlace
    <3>8. g[c].referrals = G[c].referrals /\ g[c].activeReferrals = G[c].activeReferrals
      BY <3>1 DEF SamePlace
    <3>9. /\ g[c].referrals = IF c = n THEN r.referrals \cup {a}
                              ELSE IF c = p THEN r.referrals \ {a} ELSE r.referrals
          /\ g[c].activeReferrals =
               IF c = n THEN r.activeReferrals \cup E.rise
               ELSE IF c = p THEN r.activeReferrals \ L.fall ELSE r.activeReferrals
      BY <3>2, <3>4, <3>8
    <3>. QED  BY <3>5, <3>6, <3>7, <3>9 DEF r
  <2>5. /\ \A c \in Accounts : f[c].referrals = {b \in Accounts : ~f[b].banished /\ f[b].referrer = c}
        /\ \A c \in Accounts : f[c].activeReferrals = {b \in Accounts : f[b].active /\ f[b].referrer = c}
    BY <1>1 DEF Tree
  <2>6. p # a
    <3>1. {a} \in SUBSET DOMAIN Referred(f) /\ {a} # {}
      BY DEF Referred
    <3>2. \E b \in {a} : Referred(f)[b] \notin {a}
      BY <1>1, <3>1 DEF Acyclic, Tree
    <3>. QED  BY <3>2 DEF Referred
  <2>7. Listed(f, g, a)
    <3>1. ASSUME NEW c \in Accounts
          PROVE  /\ g[c].referrals = (f[c].referrals \ {a}) \cup
                      (IF ~g[a].banished /\ g[a].referrer = c THEN {a} ELSE {})
                 /\ g[c].activeReferrals = (f[c].activeReferrals \ {a}) \cup
                      (IF g[a].active /\ g[a].referrer = c THEN {a} ELSE {})
      <4>1. g[a].referrer = n /\ ~g[a].banished /\ g[a].active = s.active
        <5>1. ~f[a].banished
          BY <2>5
        <5>2. g[a].referrer = n /\ g[a].banished = f[a].banished /\ g[a].active = f[a].active
          BY <2>4
        <5>. QED  BY <5>1, <5>2
      <4>2. /\ a \in f[c].referrals => c = p
            /\ a \in f[c].activeReferrals => c = p /\ s.active
        BY <2>5
      <4>3. /\ g[c].referrals = IF c = n THEN f[c].referrals \cup {a}
                                ELSE IF c = p THEN f[c].referrals \ {a} ELSE f[c].referrals
            /\ g[c].activeReferrals =
                 IF c = n THEN f[c].activeReferrals \cup E.rise
                 ELSE IF c = p THEN f[c].activeReferrals \ L.fall ELSE f[c].activeReferrals
        BY <2>4
      <4> DEFINE R == f[c].referrals
                 A == f[c].activeReferrals
                 on == s.active
      <4>4. /\ g[c].referrals = IF c = n THEN R \cup {a} ELSE IF c = p THEN R \ {a} ELSE R
            /\ a \in R => c = p
        BY <4>2, <4>3
      <4>5. /\ g[c].activeReferrals =
                 IF c = n THEN A \cup (IF on THEN {a} ELSE {})
                 ELSE IF c = p THEN A \ (IF on THEN {a} ELSE {}) ELSE A
            /\ a \in A => c = p /\ on
        BY <1>5, <4>2, <4>3
      <4>. HIDE DEF R, A, on
      <4>6. g[c].referrals = (R \ {a}) \cup (IF n = c THEN {a} ELSE {})
        BY <4>4
      <4>7. g[c].activeReferrals = (A \ {a}) \cup (IF on /\ n = c THEN {a} ELSE {})
        <5>1. CASE c = n
          BY <4>5, <5>1
        <5>2. CASE c = p
          BY <4>5, <5>2
        <5>3. CASE c # n /\ c # p
          BY <4>5, <5>3
        <5>. QED  BY <5>1, <5>2, <5>3
      <4>. QED  BY <4>1, <4>6, <4>7 DEF R, A, on
    <3>. QED  BY <3>1 DEF Listed
  <2>8. Tree(g)
    <3> DEFINE C == Over(f, n)
    <3>1. HasParents(f) /\ Acyclic(Referred(f)) /\ n \in Parents /\ n # None
      BY <1>1, InfoFields, Constants DEF HasParents, Records, Tree, Parents
    <3>2. C \in SUBSET Accounts /\ n \in C /\ \A b \in C : f[b].referrer \in C \cup {None}
      BY <3>1, OverClosed
    <3>3. a \notin C
      OBVIOUS
    <3>4. g[a].referrer = n
      BY <2>4
    <3>5. ~IsEmpty(g[n])
      BY <1>2, <1>9 DEF g
    <3>6. \A c \in Accounts : IsEmpty(g[c]) => IsEmpty(f[c])
      BY <2>4
    <3>7. \A c \in Accounts \ {a} : /\ g[c].referrer = f[c].referrer
                                     /\ g[c].banished = f[c].banished
                                     /\ g[c].active = f[c].active
      BY <2>4
    <3>8. g[a].banished => ~g[a].active
      <4>1. f[a].banished => ~f[a].active
        BY <1>1 DEF Tree
      <4>. QED  BY <2>4, <4>1
    <3>. HIDE DEF f, C
    <3>. QED  BY <1>1, <2>1, <2>7, <3>2, <3>3, <3>4, <3>5, <3>6, <3>7, <3>8, OneMoves
  <2>9. \A c \in Accounts : Wealthy(g[c])
    BY <1>1, <2>4 DEF SameStake, Wealthy
  <2>10. Stay(f, g) /\ Banished(g) = Banished(f)
    <3>1. \A c \in Accounts : /\ g[c].referrer = (IF c = a THEN n ELSE f[c].referrer)
                              /\ g[c].banished = f[c].banished
                              /\ IsEmpty(g[c]) => IsEmpty(f[c])
      BY <2>4
    <3>2. n # None
      BY Constants
    <3>. HIDE DEF f
    <3>. QED  BY <3>1, <3>2 DEF Stay, Banished
  <2>11. SameStakes(w, v)
    BY <2>4 DEF SameStakes, g, f
  <2>. QED  BY <1>4, <1>7, <1>9, <2>8, <2>9, <2>10, <2>11 DEF Keeps, Ends, Sound, Good, g, v
<1>. QED  BY <1>8, <1>9

-----------------------------------------------------------------------------
(* The genesis file.                                                       *)

LEMMA OrderType ==
    ASSUME NEW S \in SUBSET Accounts
    PROVE  /\ Lists!SetToSeq(S) \in [1..Cardinality(S) -> S] /\ Cardinality(S) \in Nat
           /\ Len(Lists!SetToSeq(S)) = Cardinality(S)
           /\ \A a \in S : \E k \in 1..Cardinality(S) : Lists!SetToSeq(S)[k] = a
<1> DEFINE n == Cardinality(S)
<1>1. IsFiniteSet(S)
  BY ReferralAssumption, FS_Subset
<1>2. n \in Nat /\ \E f : f \in Bijection(1..n, S)
  BY <1>1, FS_CardinalityType DEF ExistsBijection
<1>3. \E f \in [1..n -> S] : Lists!IsInjective(f)
  BY <1>2 DEF Bijection, Injection, IsInjective, Lists!IsInjective
<1>4. Lists!Cardinality(S) = n
  BY DEF Lists!Cardinality, Cardinality
<1>5. Lists!SetToSeq(S) = CHOOSE f \in [1..n -> S] : Lists!IsInjective(f)
  BY <1>4 DEF Lists!SetToSeq
<1>. HIDE DEF n
<1>6. Lists!SetToSeq(S) \in [1..n -> S] /\ Lists!IsInjective(Lists!SetToSeq(S))
  BY <1>3, <1>5
<1>7. Len(Lists!SetToSeq(S)) = n
  BY <1>2, <1>6
<1>8. \A a \in S : \E k \in 1..n : Lists!SetToSeq(S)[k] = a
  <2> DEFINE f == Lists!SetToSeq(S)
  <2>1. f \in Injection(1..n, S)
    BY <1>6 DEF Injection, IsInjective, Lists!IsInjective
  <2>. HIDE DEF f
  <2>2. IsFiniteSet(1..n) /\ Cardinality(1..n) = n
    BY <1>2, FS_Interval
  <2>3. f \in Surjection(1..n, S)
    BY <1>1, <2>1, <2>2, FS_Injection DEF n
  <2>4. \A a \in S : \E k \in 1..n : f[k] = a
    BY <2>3 DEF Surjection
  <2>. QED  BY <2>4 DEF f
<1>. QED  BY <1>2, <1>6, <1>7, <1>8 DEF n

\* A loop over S in the order given: the worlds from w to v.
Trail(after, order, L, S, w, v) ==
    /\ L \in Nat /\ order \in [1..L -> S] /\ \A a \in S : \E k \in 1..L : order[k] = a
    /\ after[0] = w /\ v = after[L] /\ \A k \in 0..L : Keeps(w, after[k])

\* The import passes on balances one after the other.
FundedBy(w, own) ==
    \E after, order, L :
       /\ Trail(after, order, L, {a \in Accounts : own[a] # Nothing}, w, Funded(w, own))
       /\ \A k \in 1..L : after[k] = OnBalanceChanged(after[k - 1], order[k], own[order[k]])

(***************************************************************************)
(* The balances of the genesis file.                                       *)
(***************************************************************************)
LEMMA FundedSteps ==
    ASSUME now \in Nat, NEW w, Sound(w), NEW own,
           \A a \in Accounts : /\ own[a] \in [coins : Int, delegated : Int]
                              /\ 0 <= own[a].delegated /\ own[a].delegated <= own[a].coins
    PROVE  FundedBy(w, own)
<1> DEFINE S == {a \in Accounts : own[a] # Nothing}
           order == Lists!SetToSeq(S)
           L == Len(order)
           V == {v \in Worlds : Keeps(w, v)}
           step(k, v) == OnBalanceChanged(v, order[k], own[order[k]])
           F == [x \in (1..L) \X V |-> step(x[1], x[2])]
           Def(g) == g = [k \in 0..L |-> IF k = 0 THEN w ELSE step(k, g[k - 1])]
           after == CHOOSE g : Def(g)
<1>1. /\ L \in Nat /\ order \in [1..L -> S] /\ S \subseteq Accounts
      /\ \A a \in S : \E k \in 1..L : order[k] = a
  <2>1. S \in SUBSET Accounts
    OBVIOUS
  <2>. HIDE DEF S
  <2>. QED  BY <2>1, OrderType
<1>2. Funded(w, own) = after[L]
  BY DEF Funded, ForEach
<1>3. w \in V
  BY KeepsReflexive, SoundFields
<1>4. ASSUME NEW k \in 1..L, NEW v \in V PROVE step(k, v) \in V
  <2> DEFINE a == order[k]
             u == OnBalanceChanged(v, a, own[a])
  <2>1. a \in Accounts /\ Keeps(w, v) /\ Sound(v)
    <3>1. a \in Accounts
      <4>. HIDE DEF S, order, L
      <4>. QED  BY <1>1
    <3>. QED  BY <3>1 DEF Keeps, Ends
  <2>. HIDE DEF a
  <2>2. Keeps(v, u)
    BY <2>1, BalanceChangedKeeps
  <2>. HIDE DEF u
  <2>3. Keeps(w, u) /\ u \in Worlds
    BY <2>1, <2>2, KeepsTransitive DEF Keeps, Ends, Sound
  <2>. QED  BY <2>3 DEF u, a
<1>. HIDE DEF step
<1>5. F \in [(1..L) \X V -> V]
  <2>1. ASSUME NEW x \in (1..L) \X V PROVE step(x[1], x[2]) \in V
    <3>1. x[1] \in 1..L /\ x[2] \in V
      OBVIOUS
    <3>. HIDE DEF V, L
    <3>. QED  BY <1>4, <3>1
  <2>. HIDE DEF V, L
  <2>. QED  BY <2>1
<1>. HIDE DEF L
<1>6. PICK g \in [0..L -> V] : Recursion(g, L, w, F)
  <2>. HIDE DEF F, V
  <2>. QED  BY <1>1, <1>3, <1>5, RecursionExists
<1>7. Def(g)
  <2>. HIDE DEF V
  <2>1. ASSUME NEW k \in 0..L
        PROVE  g[k] = IF k = 0 THEN w ELSE step(k, g[k - 1])
    <3>1. g[k] = IF k = 0 THEN w ELSE F[<<k, g[k - 1]>>]
      BY <1>6 DEF Recursion
    <3>2. CASE k # 0
      <4>1. k \in 1..L /\ k - 1 \in 0..L
        BY <1>1, <3>2
      <4>. QED  BY <3>1, <4>1
    <3>. QED  BY <3>1, <3>2
  <2>. QED  BY <2>1
<1>8. Def(after)
  <2>. HIDE DEF Def
  <2>. QED  BY <1>7
<1>. HIDE DEF after, V
<1>9. after[0] = w /\ \A k \in 1..L : after[k] = step(k, after[k - 1])
  BY <1>1, <1>8
<1> DEFINE A == {k \in 0..L : after[k] \in V}
<1>10. 0 \in A
  BY <1>1, <1>3, <1>9
<1>11. ASSUME NEW k \in 1..L, k - 1 \in A PROVE k \in A
  <2>1. k \in 0..L /\ after[k - 1] \in V /\ after[k] = step(k, after[k - 1])
    BY <1>1, <1>9, <1>11
  <2>2. step(k, after[k - 1]) \in V
    <3> DEFINE v == after[k - 1]
    <3>1. v \in V
      BY <2>1
    <3>. HIDE DEF v
    <3>2. step(k, v) \in V
      BY <1>4, <3>1
    <3>. QED  BY <3>2 DEF v
  <2>. QED  BY <2>1, <2>2
<1>. HIDE DEF A
<1>12. \A k \in 0..L : k \in A
  BY <1>1, <1>10, <1>11, UpTo
<1>13. \A k \in 0..L : Keeps(w, after[k])
  BY <1>12 DEF A, V
<1>14. Trail(after, order, L, S, w, Funded(w, own))
  BY <1>1, <1>2, <1>9, <1>13 DEF Trail
<1>15. \A k \in 1..L : after[k] = OnBalanceChanged(after[k - 1], order[k], own[order[k]])
  BY <1>9 DEF step
<1>. HIDE DEF step, order, S
<1>16. \E f, o, n : Trail(f, o, n, S, w, Funded(w, own)) /\ \A k \in 1..n : f[k] = OnBalanceChanged(f[k - 1], o[k], own[o[k]])
  BY <1>14, <1>15
<1>. QED  BY <1>16 DEF S, FundedBy

LEMMA FundedKeeps ==
    ASSUME now \in Nat, NEW w, Sound(w), NEW own,
           \A a \in Accounts : /\ own[a] \in [coins : Int, delegated : Int]
                              /\ 0 <= own[a].delegated /\ own[a].delegated <= own[a].coins
    PROVE  Keeps(w, Funded(w, own))
<1>1. PICK after, order, L : Trail(after, order, L, {a \in Accounts : own[a] # Nothing}, w, Funded(w, own))
  BY FundedSteps DEF FundedBy
<1>. QED  BY <1>1 DEF Trail

\* The import sets the active accounts active one after the other.
RevivedBy(w, active) ==
    \E after, order, L :
       /\ Trail(after, order, L, active, w, Revived(w, active))
       /\ \A k \in 1..L : after[k] = SetActive(after[k - 1], order[k], TRUE, FALSE)

(***************************************************************************)
(* The active accounts of the genesis file.                                *)
(***************************************************************************)
LEMMA RevivedSteps ==
    ASSUME now \in Nat, NEW w, Sound(w), NEW active \in SUBSET Accounts,
           w.broken \/ active \cap Banished(w.infos) = {}
    PROVE  RevivedBy(w, active)
<1> DEFINE S == active
           order == Lists!SetToSeq(S)
           L == Len(order)
           V == {v \in Worlds : Keeps(w, v)}
           step(k, v) == SetActive(v, order[k], TRUE, FALSE)
           F == [x \in (1..L) \X V |-> step(x[1], x[2])]
           Def(g) == g = [k \in 0..L |-> IF k = 0 THEN w ELSE step(k, g[k - 1])]
           after == CHOOSE g : Def(g)
<1>1. /\ L \in Nat /\ order \in [1..L -> S] /\ S \subseteq Accounts
      /\ \A a \in S : \E k \in 1..L : order[k] = a
  <2>1. S \in SUBSET Accounts
    OBVIOUS
  <2>. HIDE DEF S
  <2>. QED  BY <2>1, OrderType
<1>2. Revived(w, active) = after[L]
  BY DEF Revived, ForEach
<1>3. w \in V
  BY KeepsReflexive, SoundFields
<1>4. ASSUME NEW k \in 1..L, NEW v \in V PROVE step(k, v) \in V
  <2> DEFINE a == order[k]
             u == SetActive(v, a, TRUE, FALSE)
  <2>1. a \in Accounts /\ a \in active /\ Keeps(w, v) /\ Sound(v)
    <3>1. a \in Accounts /\ a \in active
      <4>. HIDE DEF order, L
      <4>. QED  BY <1>1
    <3>. QED  BY <3>1 DEF Keeps, Ends
  <2>. HIDE DEF a
  <2>2. ~v.broken => ~v.infos[a].banished
    BY <2>1 DEF Keeps, Ends, Banished
  <2>3. Keeps(v, u)
    BY <2>1, <2>2, SetActiveKeeps
  <2>. HIDE DEF u
  <2>4. Keeps(w, u) /\ u \in Worlds
    BY <2>1, <2>3, KeepsTransitive DEF Keeps, Ends, Sound
  <2>. QED  BY <2>4 DEF u, a
<1>. HIDE DEF step
<1>5. F \in [(1..L) \X V -> V]
  <2>1. ASSUME NEW x \in (1..L) \X V PROVE step(x[1], x[2]) \in V
    <3>1. x[1] \in 1..L /\ x[2] \in V
      OBVIOUS
    <3>. HIDE DEF V, L
    <3>. QED  BY <1>4, <3>1
  <2>. HIDE DEF V, L
  <2>. QED  BY <2>1
<1>. HIDE DEF L
<1>6. PICK g \in [0..L -> V] : Recursion(g, L, w, F)
  <2>. HIDE DEF F, V
  <2>. QED  BY <1>1, <1>3, <1>5, RecursionExists
<1>7. Def(g)
  <2>. HIDE DEF V
  <2>1. ASSUME NEW k \in 0..L
        PROVE  g[k] = IF k = 0 THEN w ELSE step(k, g[k - 1])
    <3>1. g[k] = IF k = 0 THEN w ELSE F[<<k, g[k - 1]>>]
      BY <1>6 DEF Recursion
    <3>2. CASE k # 0
      <4>1. k \in 1..L /\ k - 1 \in 0..L
        BY <1>1, <3>2
      <4>. QED  BY <3>1, <4>1
    <3>. QED  BY <3>1, <3>2
  <2>. QED  BY <2>1
<1>8. Def(after)
  <2>. HIDE DEF Def
  <2>. QED  BY <1>7
<1>. HIDE DEF after, V
<1>9. after[0] = w /\ \A k \in 1..L : after[k] = step(k, after[k - 1])
  BY <1>1, <1>8
<1> DEFINE A == {k \in 0..L : after[k] \in V}
<1>10. 0 \in A
  BY <1>1, <1>3, <1>9
<1>11. ASSUME NEW k \in 1..L, k - 1 \in A PROVE k \in A
  <2>1. k \in 0..L /\ after[k - 1] \in V /\ after[k] = step(k, after[k - 1])
    BY <1>1, <1>9, <1>11
  <2>2. step(k, after[k - 1]) \in V
    <3> DEFINE v == after[k - 1]
    <3>1. v \in V
      BY <2>1
    <3>. HIDE DEF v
    <3>2. step(k, v) \in V
      BY <1>4, <3>1
    <3>. QED  BY <3>2 DEF v
  <2>. QED  BY <2>1, <2>2
<1>. HIDE DEF A
<1>12. \A k \in 0..L : k \in A
  BY <1>1, <1>10, <1>11, UpTo
<1>13. \A k \in 0..L : Keeps(w, after[k])
  BY <1>12 DEF A, V
<1>14. Trail(after, order, L, S, w, Revived(w, active))
  BY <1>1, <1>2, <1>9, <1>13 DEF Trail
<1>15. \A k \in 1..L : after[k] = SetActive(after[k - 1], order[k], TRUE, FALSE)
  BY <1>9 DEF step
<1>. HIDE DEF step, order
<1>. QED  BY <1>14, <1>15 DEF S, RevivedBy

LEMMA RevivedKeeps ==
    ASSUME now \in Nat, NEW w, Sound(w), NEW active \in SUBSET Accounts,
           w.broken \/ active \cap Banished(w.infos) = {}
    PROVE  Keeps(w, Revived(w, active))
<1>1. PICK after, order, L : Trail(after, order, L, active, w, Revived(w, active))
  BY RevivedSteps DEF RevivedBy
<1>. QED  BY <1>1 DEF Trail

\* The import checks the status of everyone, one after the other.
IteratedBy(w) ==
    \E after, order, L :
       /\ Trail(after, order, L, {a \in Accounts : Exists(w.infos, a)}, w, Iterated(w))
       /\ \A k \in 1..L : after[k] = Checked(after[k - 1], order[k], after[k - 1].infos[order[k]])

(***************************************************************************)
(* The statuses after the import.                                          *)
(***************************************************************************)
LEMMA IteratedSteps ==
    ASSUME now \in Nat, NEW w, Sound(w)
    PROVE  IteratedBy(w)
<1> DEFINE S == {a \in Accounts : Exists(w.infos, a)}
           order == Lists!SetToSeq(S)
           L == Len(order)
           V == {v \in Worlds : Keeps(w, v)}
           step(k, v) == Checked(v, order[k], v.infos[order[k]])
           F == [x \in (1..L) \X V |-> step(x[1], x[2])]
           Def(g) == g = [k \in 0..L |-> IF k = 0 THEN w ELSE step(k, g[k - 1])]
           after == CHOOSE g : Def(g)
<1>1. /\ L \in Nat /\ order \in [1..L -> S] /\ S \subseteq Accounts
      /\ \A a \in S : \E k \in 1..L : order[k] = a
  <2>1. S \in SUBSET Accounts
    OBVIOUS
  <2>. HIDE DEF S
  <2>. QED  BY <2>1, OrderType
<1>2. Iterated(w) = after[L]
  BY DEF Iterated, ForEach
<1>3. w \in V
  BY KeepsReflexive, SoundFields
<1>4. ASSUME NEW k \in 1..L, NEW v \in V PROVE step(k, v) \in V
  <2> DEFINE a == order[k]
             r == v.infos[a]
             u == Checked(v, a, r)
  <2>1. a \in Accounts /\ Keeps(w, v) /\ Sound(v)
    <3>1. a \in Accounts
      <4>. HIDE DEF S, order, L
      <4>. QED  BY <1>1
    <3>. QED  BY <3>1 DEF Keeps, Ends
  <2>2. r \in Records /\ SameStake(r, r)
    <3>. HIDE DEF a
    <3>1. v.infos \in [Accounts -> Records]
      BY <2>1, SoundFields
    <3>. QED  BY <2>1, <3>1 DEF SameStake
  <2>. HIDE DEF a
  <2>3. Keeps(v, u)
    BY <2>1, <2>2, CheckedKeeps
  <2>. HIDE DEF u
  <2>4. Keeps(w, u) /\ u \in Worlds
    BY <2>1, <2>3, KeepsTransitive DEF Keeps, Ends, Sound
  <2>. QED  BY <2>4 DEF u, r, a
<1>. HIDE DEF step
<1>5. F \in [(1..L) \X V -> V]
  <2>1. ASSUME NEW x \in (1..L) \X V PROVE step(x[1], x[2]) \in V
    <3>1. x[1] \in 1..L /\ x[2] \in V
      OBVIOUS
    <3>. HIDE DEF V, L
    <3>. QED  BY <1>4, <3>1
  <2>. HIDE DEF V, L
  <2>. QED  BY <2>1
<1>. HIDE DEF L
<1>6. PICK g \in [0..L -> V] : Recursion(g, L, w, F)
  <2>. HIDE DEF F, V
  <2>. QED  BY <1>1, <1>3, <1>5, RecursionExists
<1>7. Def(g)
  <2>. HIDE DEF V
  <2>1. ASSUME NEW k \in 0..L
        PROVE  g[k] = IF k = 0 THEN w ELSE step(k, g[k - 1])
    <3>1. g[k] = IF k = 0 THEN w ELSE F[<<k, g[k - 1]>>]
      BY <1>6 DEF Recursion
    <3>2. CASE k # 0
      <4>1. k \in 1..L /\ k - 1 \in 0..L
        BY <1>1, <3>2
      <4>. QED  BY <3>1, <4>1
    <3>. QED  BY <3>1, <3>2
  <2>. QED  BY <2>1
<1>8. Def(after)
  <2>. HIDE DEF Def
  <2>. QED  BY <1>7
<1>. HIDE DEF after, V
<1>9. after[0] = w /\ \A k \in 1..L : after[k] = step(k, after[k - 1])
  BY <1>1, <1>8
<1> DEFINE A == {k \in 0..L : after[k] \in V}
<1>10. 0 \in A
  BY <1>1, <1>3, <1>9
<1>11. ASSUME NEW k \in 1..L, k - 1 \in A PROVE k \in A
  <2>1. k \in 0..L /\ after[k - 1] \in V /\ after[k] = step(k, after[k - 1])
    BY <1>1, <1>9, <1>11
  <2>2. step(k, after[k - 1]) \in V
    <3> DEFINE v == after[k - 1]
    <3>1. v \in V
      BY <2>1
    <3>. HIDE DEF v
    <3>2. step(k, v) \in V
      BY <1>4, <3>1
    <3>. QED  BY <3>2 DEF v
  <2>. QED  BY <2>1, <2>2
<1>. HIDE DEF A
<1>12. \A k \in 0..L : k \in A
  BY <1>1, <1>10, <1>11, UpTo
<1>13. \A k \in 0..L : Keeps(w, after[k])
  BY <1>12 DEF A, V
<1>14. Trail(after, order, L, S, w, Iterated(w))
  BY <1>1, <1>2, <1>9, <1>13 DEF Trail
<1>15. \A k \in 1..L : after[k] = Checked(after[k - 1], order[k], after[k - 1].infos[order[k]])
  BY <1>9 DEF step
<1>. HIDE DEF step, order, S
<1>16. \E f, o, n : Trail(f, o, n, S, w, Iterated(w)) /\ \A k \in 1..n : f[k] = Checked(f[k - 1], o[k], f[k - 1].infos[o[k]])
  BY <1>14, <1>15
<1>. QED  BY <1>16 DEF S, IteratedBy

LEMMA IteratedKeeps ==
    ASSUME now \in Nat, NEW w, Sound(w)
    PROVE  Keeps(w, Iterated(w))
<1>1. PICK after, order, L : Trail(after, order, L, {a \in Accounts : Exists(w.infos, a)}, w, Iterated(w))
  BY IteratedSteps DEF IteratedBy
<1>. QED  BY <1>1 DEF Trail

\* What a genesis file says: a tree, in which nobody has coins or is active yet.
Stated(file) ==
    /\ file \in [Accounts -> Records] /\ Acyclic(Referred(file))
    /\ \A a \in Accounts :
         /\ ~file[a].active /\ file[a].activeReferrals = {} /\ Wealthy(file[a])
         /\ file[a] = Empty => file[a].referrer = None
         /\ file[a].referrer # None => ~IsEmpty(file[file[a].referrer])

LEMMA PlantedSound ==
    ASSUME NEW file, Stated(file), NEW store \in SUBSET Task(Handlers, Accounts)
    PROVE  LET w == Planted(file, store)
           IN  /\ Sound(w) /\ ~w.broken
               /\ Banished(w.infos) = Banished(file) /\ Stay(file, w.infos)
<1> DEFINE R(a) == {b \in Accounts :
                      file[b] # Empty /\ ~file[b].banished /\ file[b].referrer = a}
           f == [a \in Accounts |-> [file[a] EXCEPT !.referrals = R(a)]]
           i == {<<file[a].status, a>> : a \in {b \in Accounts : file[b].status >= MinIndexed}}
           w == Planted(file, store)
<1>1. w = [infos |-> f, tasks |-> store, index |-> i, broken |-> FALSE]
  BY DEF Planted
<1>2. \A a \in Accounts : file[a] \in Records
  BY DEF Stated
<1>3. \A a \in Accounts : R(a) = {b \in Accounts : ~file[b].banished /\ file[b].referrer = a}
  BY Constants DEF Stated
<1>4. \A a \in Accounts : R(a) \in SUBSET Accounts
  OBVIOUS
<1>. HIDE DEF R
<1>5. ASSUME NEW a \in Accounts
      PROVE  f[a] \in Records /\ f[a].referrals = R(a) /\ Alike(file[a], [f[a] EXCEPT !.referrals = file[a].referrals])
  <2> DEFINE r == file[a]
             S == R(a)
             q == [r EXCEPT !.referrals = S]
  <2>1. r \in Records /\ S \in SUBSET Accounts /\ f[a] = q
    BY <1>2, <1>4
  <2>. HIDE DEF r, S
  <2>2. /\ q \in Records /\ q.referrals = S /\ [q EXCEPT !.referrals = r.referrals] = r
    BY <2>1 DEF Records, Info
  <2>. QED  BY <2>1, <2>2, AlikeReflexive DEF r, S
<1>6. ASSUME NEW a \in Accounts
      PROVE  /\ f[a].referrer = file[a].referrer /\ f[a].activeReferrals = file[a].activeReferrals
             /\ f[a].active = file[a].active /\ f[a].banished = file[a].banished
             /\ f[a].status = file[a].status /\ f[a].lines = file[a].lines
  <2> DEFINE r == file[a]
             S == R(a)
  <2>1. r \in Records
    BY <1>2
  <2>2. f[a] = [r EXCEPT !.referrals = S]
    OBVIOUS
  <2>. HIDE DEF r, S
  <2>3. /\ [r EXCEPT !.referrals = S].referrer = r.referrer
        /\ [r EXCEPT !.referrals = S].activeReferrals = r.activeReferrals
        /\ [r EXCEPT !.referrals = S].active = r.active
        /\ [r EXCEPT !.referrals = S].banished = r.banished
        /\ [r EXCEPT !.referrals = S].status = r.status
        /\ [r EXCEPT !.referrals = S].lines = r.lines
    BY <2>1 DEF Records, Info
  <2>. QED  BY <2>2, <2>3 DEF r
<1>7. f \in [Accounts -> Records]
  BY <1>5
<1>8. i \in SUBSET ((0..MaxStatus) \X Accounts)
  BY <1>2 DEF Records, Info
<1>. HIDE DEF i, f
<1>9. w \in Worlds /\ w.infos = f /\ ~w.broken
  <2>. HIDE DEF w
  <2>. QED  BY <1>1, <1>7, <1>8 DEF Worlds
<1>10. Banished(f) = Banished(file) /\ Stay(file, f) /\ Referred(f) = Referred(file)
  BY <1>6 DEF Banished, Stay, Referred, IsEmpty
<1>11. Good(f)
  <2>1. Acyclic(Referred(f))
    BY <1>10 DEF Stated
  <2>2. ASSUME NEW a \in Accounts
        PROVE  /\ f[a].referrals = {b \in Accounts : ~f[b].banished /\ f[b].referrer = a}
               /\ f[a].activeReferrals = {b \in Accounts : f[b].active /\ f[b].referrer = a}
               /\ f[a].banished => ~f[a].active
               /\ f[a].referrer # None => ~IsEmpty(f[f[a].referrer])
               /\ Wealthy(f[a])
    <3>1. f[a].referrals = {b \in Accounts : ~f[b].banished /\ f[b].referrer = a}
      <4>1. \A b \in Accounts : f[b].banished = file[b].banished /\ f[b].referrer = file[b].referrer
        BY <1>6
      <4>2. f[a].referrals = {b \in Accounts : ~file[b].banished /\ file[b].referrer = a}
        BY <1>3, <1>5
      <4>. QED  BY <4>1, <4>2
    <3>2. f[a].activeReferrals = {b \in Accounts : f[b].active /\ f[b].referrer = a}
      BY <1>6 DEF Stated
    <3>3. f[a].banished => ~f[a].active
      BY <1>6 DEF Stated
    <3>4. ASSUME f[a].referrer # None PROVE ~IsEmpty(f[f[a].referrer])
      <4> DEFINE p == f[a].referrer
      <4>1. p \in Accounts /\ ~IsEmpty(file[p])
        <5>1. file[a] \in Info /\ p = file[a].referrer
          BY <1>2, <1>6 DEF Records
        <5>2. p \in Parents
          BY <5>1, InfoFields
        <5>. QED  BY <3>4, <5>1, <5>2 DEF Parents, Stated
      <4>. HIDE DEF p
      <4>2. ~IsEmpty(f[p])
        BY <1>6, <4>1 DEF IsEmpty
      <4>. QED  BY <4>2 DEF p
    <3>5. Wealthy(f[a])
      BY <1>6 DEF Stated, Wealthy
    <3>. QED  BY <3>1, <3>2, <3>3, <3>4, <3>5
  <2>. QED  BY <2>1, <2>2 DEF Good, Tree
<1>. QED  BY <1>9, <1>10, <1>11 DEF Sound

(***************************************************************************)
(* The import of a genesis file.                                           *)
(***************************************************************************)
LEMMA InitGenesisKeeps ==
    ASSUME now \in Nat, NEW file, Stated(file), NEW store \in SUBSET Task(Handlers, Accounts),
           NEW own, NEW active \in SUBSET Accounts, active \cap Banished(file) = {},
           \A a \in Accounts : /\ own[a] \in [coins : Int, delegated : Int]
                              /\ 0 <= own[a].delegated /\ own[a].delegated <= own[a].coins
    PROVE  LET w == InitGenesis(file, store, own, active)
           IN  Sound(w) /\ (w.broken \/ Stay(file, w.infos))
<1> DEFINE w0 == Planted(file, store)
           w1 == Funded(w0, own)
           w2 == Revived(w1, active)
           w3 == Iterated(w2)
<1>1. /\ Sound(w0) /\ ~w0.broken
      /\ Banished(w0.infos) = Banished(file) /\ Stay(file, w0.infos)
  BY PlantedSound
<1>2. InitGenesis(file, store, own, active) = w3
  BY DEF InitGenesis
<1>. HIDE DEF w0
<1>3. Keeps(w0, w1)
  BY <1>1, FundedKeeps
<1>. HIDE DEF w1
<1>4. Keeps(w1, w2)
  <2>1. Sound(w1) /\ (w1.broken \/ Banished(w1.infos) \subseteq Banished(w0.infos))
    BY <1>3 DEF Keeps, Ends
  <2>2. w1.broken \/ active \cap Banished(w1.infos) = {}
    BY <1>1, <2>1
  <2>. QED  BY <2>1, <2>2, RevivedKeeps
<1>. HIDE DEF w2
<1>5. Keeps(w2, w3)
  BY <1>4, IteratedKeeps DEF Keeps, Ends
<1>. HIDE DEF w3
<1>6. Keeps(w0, w3)
  BY <1>3, <1>4, <1>5, KeepsTransitive
<1>. QED  BY <1>1, <1>2, <1>6 DEF Keeps, Ends, Stay

LEMMA EmptyRecord ==
    /\ Empty \in Records /\ Empty.referrer = None /\ ~Empty.banished /\ ~Empty.active
    /\ Empty.activeReferrals = {} /\ IsEmpty(Empty) /\ Wealthy(Empty)
    /\ Empty.downgradeAt = NoTime /\ Empty.lines["coins"][0] = 0
    /\ Empty.lines["delegated"][0] = 0
<1> DEFINE lines == [f \in Sums |-> [i \in Lines |-> 0]]
<1>1. lines \in LineSums /\ lines["coins"][0] = 0 /\ lines["delegated"][0] = 0
  BY Constants DEF LineSums, Sums
<1>2. Empty = [status |-> 0, referrer |-> None, referrals |-> {}, activeReferrals |-> {},
               lines |-> lines, active |-> FALSE,
               banished |-> FALSE, transition |-> None, compressionAt |-> NoTime,
               banishmentAt |-> NoTime, downgradeAt |-> NoTime]
  BY DEF Empty
<1>. HIDE DEF lines
<1>3. Empty \in Info
  BY <1>1, <1>2, Constants DEF Info, LineSums, Moments
<1>4. /\ Empty.referrer = None /\ ~Empty.banished /\ ~Empty.active /\ Empty.lines = lines
      /\ Empty.activeReferrals = {} /\ Empty.status = 0 /\ Empty.downgradeAt = NoTime
  BY <1>2
<1>. QED  BY <1>1, <1>3, <1>4 DEF IsEmpty, Wealthy, Records

\* The genesis file of a new chain.
Late(g) == {a \in DOMAIN g.referrer : a \notin g.active /\ g.referrer[a] # None}
FirstRecord(g, a) ==
    [NewInfo(g.referrer[a], Nothing) EXCEPT
       !.compressionAt = IF a \in Late(g) THEN CompressionPeriod ELSE NoTime]
FirstFile(g) ==
    [a \in Accounts |-> IF a \notin DOMAIN g.referrer THEN Empty ELSE FirstRecord(g, a)]
FirstStore(g) == {Timer(CompressionPeriod, "compression", a) : a \in Late(g)}
FirstOwn(g) == [a \in Accounts |-> IF a \in DOMAIN g.referrer THEN g.own[a] ELSE Nothing]

LEMMA NewChainParts ==
    ASSUME NEW g \in Genesis
    PROVE  /\ NewChain(g) = InitGenesis(FirstFile(g), FirstStore(g), FirstOwn(g), g.active)
           /\ FirstStore(g) \in SUBSET Task(Handlers, Accounts)
           /\ \A a \in Accounts : FirstOwn(g)[a] \in Holding
           /\ DOMAIN g.referrer \subseteq Accounts /\ g.active \subseteq DOMAIN g.referrer
<1> DEFINE here == DOMAIN g.referrer
<1>1. /\ here \subseteq Accounts /\ g.active \subseteq here
      /\ \A a \in here : g.own[a] \in Holding
  BY GenesisAssumption
<1>2. NewChain(g) = InitGenesis(FirstFile(g), FirstStore(g), FirstOwn(g), g.active)
  BY DEF NewChain, FirstFile, FirstRecord, FirstStore, FirstOwn, Late
<1>3. CompressionPeriod \in Nat
  BY Constants DEF CompressionPeriod
<1>4. Nothing \in Holding
  BY DEF Nothing, Holding
<1>5. FirstStore(g) \in SUBSET Task(Handlers, Accounts)
  <2>1. \A a \in Late(g) : Timer(CompressionPeriod, "compression", a) \in Task(Handlers, Accounts)
    BY <1>1, <1>3 DEF Timer, Task, Handlers, Late
  <2>. QED  BY <2>1 DEF FirstStore
<1>6. \A a \in Accounts : FirstOwn(g)[a] \in Holding
  BY <1>1, <1>4 DEF FirstOwn
<1>. QED  BY <1>1, <1>2, <1>5, <1>6

(***************************************************************************)
(* The genesis file of a new chain states a tree.                          *)
(***************************************************************************)
LEMMA FirstFileStated ==
    ASSUME NEW g \in Genesis
    PROVE  /\ Stated(FirstFile(g)) /\ g.active \cap Banished(FirstFile(g)) = {}
           /\ \A a \in DOMAIN g.referrer : FirstFile(g)[a] = FirstRecord(g, a)
           /\ \A a \in DOMAIN g.referrer : NewRecord(FirstRecord(g, a), g.referrer[a], Nothing)
           /\ \A a \in Accounts \ DOMAIN g.referrer : FirstFile(g)[a] = Empty
<1> DEFINE here == DOMAIN g.referrer
           N(a) == FirstRecord(g, a)
           file == FirstFile(g)
<1>1. /\ here \subseteq Accounts /\ g.active \subseteq here /\ Acyclic(g.referrer)
      /\ \A a \in here : g.referrer[a] \in here \cup {None}
  BY GenesisAssumption
<1>3. CompressionPeriod \in Nat
  BY Constants DEF CompressionPeriod
<1>4. Nothing \in Holding /\ Nothing.coins = 0 /\ Nothing.delegated = 0
  BY DEF Nothing, Holding
<1>5. ASSUME NEW a \in here PROVE NewRecord(N(a), g.referrer[a], Nothing)
  <2> DEFINE p == g.referrer[a]
             t == IF a \in Late(g) THEN CompressionPeriod ELSE NoTime
  <2>1. p \in Parents /\ t \in Moments
    BY <1>1, <1>3 DEF Parents, Moments
  <2>2. N(a) = [NewInfo(p, Nothing) EXCEPT !.compressionAt = t]
    BY DEF FirstRecord
  <2>. HIDE DEF p, t, N
  <2>3. NewRecord(N(a), p, Nothing)
    BY <1>4, <2>1, <2>2, NewInfoRecord
  <2>. QED  BY <2>3 DEF p
<1>. HIDE DEF N
<1>2. /\ file = [a \in Accounts |-> IF a \notin here THEN Empty ELSE N(a)]
      /\ \A a \in here : file[a] = N(a)
  BY <1>1 DEF FirstFile, N
<1>. HIDE DEF file
<1>6. Stated(file)
  <2>1. ASSUME NEW a \in here
        PROVE  /\ file[a] \in Records /\ ~file[a].active /\ file[a].activeReferrals = {}
               /\ Wealthy(file[a]) /\ file[a].referrer = g.referrer[a]
               /\ ~IsEmpty(file[a]) /\ file[a] # Empty /\ ~file[a].banished
    <3>1. file[a] = N(a)
      BY <1>1, <1>2
    <3>. HIDE DEF here
    <3>2. ~IsEmpty(N(a)) /\ Wealthy(N(a))
      BY <1>4, <1>5 DEF NewRecord, IsEmpty, Wealthy
    <3>. QED  BY <1>5, <3>1, <3>2, EmptyRecord DEF NewRecord
  <2>2. \A a \in Accounts : a \notin here => file[a] = Empty
    BY <1>2
  <2>3. DOMAIN file = Accounts /\ file = [a \in Accounts |-> file[a]]
    BY <1>2
  <2>4. \A a \in Accounts : file[a] \in Records
    BY <2>1, <2>2, EmptyRecord
  <2>5. ASSUME NEW a \in Accounts
        PROVE  /\ ~file[a].active /\ file[a].activeReferrals = {} /\ Wealthy(file[a])
               /\ file[a] = Empty => file[a].referrer = None
               /\ file[a].referrer # None => ~IsEmpty(file[file[a].referrer])
    <3>1. CASE a \in here
      <4>1. file[a].referrer \in here \cup {None}
        BY <1>1, <2>1, <3>1
      <4>. HIDE DEF here
      <4>. QED  BY <2>1, <3>1, <4>1
    <3>2. CASE a \notin here
      BY <2>2, <3>2, EmptyRecord
    <3>. QED  BY <3>1, <3>2
  <2>6. Acyclic(Referred(file))
    <3>1. ASSUME NEW S \in SUBSET Accounts, S # {} PROVE \E a \in S : file[a].referrer \notin S
      <4>1. CASE S \subseteq here
        <5>1. PICK a \in S : g.referrer[a] \notin S
          BY <1>1, <3>1, <4>1 DEF Acyclic
        <5>. QED  BY <2>1, <4>1, <5>1
      <4>2. CASE ~(S \subseteq here)
        <5>1. PICK a \in S : a \notin here
          BY <4>2
        <5>2. file[a].referrer = None
          BY <2>2, <5>1, EmptyRecord
        <5>. QED  BY <5>2, Constants
      <4>. QED  BY <4>1, <4>2
    <3>. QED  BY <3>1 DEF Acyclic, Referred
  <2>. QED  BY <2>3, <2>4, <2>5, <2>6 DEF Stated
<1>7. g.active \cap Banished(file) = {}
  <2>1. \A a \in here : ~file[a].banished
    BY <1>2, <1>5 DEF NewRecord
  <2>. QED  BY <1>1, <2>1 DEF Banished
<1>. QED  BY <1>2, <1>5, <1>6, <1>7 DEF file, N

LEMMA NewChainKeeps ==
    ASSUME now \in Nat, NEW g \in Genesis
    PROVE  Sound(NewChain(g)) /\ (NewChain(g).broken \/ Stay(FirstFile(g), NewChain(g).infos))
<1>1. Stated(FirstFile(g)) /\ g.active \cap Banished(FirstFile(g)) = {}
  BY FirstFileStated
<1>2. \A a \in Accounts : /\ FirstOwn(g)[a] \in [coins : Int, delegated : Int]
                          /\ 0 <= FirstOwn(g)[a].delegated
                          /\ FirstOwn(g)[a].delegated <= FirstOwn(g)[a].coins
  BY NewChainParts DEF Holding
<1>3. g.active \in SUBSET Accounts
  BY NewChainParts
<1>. QED  BY <1>1, <1>2, <1>3, NewChainParts, InitGenesisKeeps

(***************************************************************************)
(* So does an exported one, the same as that of the chain.                 *)
(***************************************************************************)
LEMMA ExportedStated ==
    ASSUME NEW f \in [Accounts -> Records], Good(f), NEW S
    PROVE  LET file == [a \in Accounts |-> Exported(f[a], a \in S)]
           IN  Stated(file) /\ Banished(file) = Banished(f) /\ Stay(f, file)
<1> DEFINE file == [a \in Accounts |-> Exported(f[a], a \in S)]
<1>1. ASSUME NEW r \in Records, NEW stored \in BOOLEAN
      PROVE  LET q == Exported(r, stored)
             IN  /\ q \in Records /\ q.referrer = r.referrer /\ q.banished = r.banished
                 /\ ~q.active /\ q.activeReferrals = {} /\ Wealthy(q)
                 /\ IsEmpty(q) => IsEmpty(r)
  <2> DEFINE e == Empty
             q == Exported(r, stored)
  <2>1. CASE r = Empty /\ ~stored
    <3>1. q = Empty
      BY <2>1, EmptyRecord DEF Exported
    <3>. QED  BY <2>1, <3>1, EmptyRecord
  <2>2. CASE r.banished
    <3>1. q = [e EXCEPT !.referrer = r.referrer, !.banished = TRUE]
      BY <2>2, EmptyRecord DEF Exported
    <3>2. e \in Records /\ ~e.active /\ e.activeReferrals = {} /\ Wealthy(e)
      BY EmptyRecord
    <3>3. r.referrer \in Accounts \cup {None}
      BY InfoFields DEF Records, Parents
    <3>. HIDE DEF e, q
    <3>4. /\ q \in Records /\ q.referrer = r.referrer /\ q.banished /\ ~q.active
          /\ q.activeReferrals = {} /\ q.lines = e.lines
      BY <3>1, <3>2, <3>3 DEF Records, Info
    <3>. QED  BY <2>2, <3>2, <3>4 DEF Wealthy, IsEmpty, q
  <2>3. CASE ~(r = Empty /\ ~stored) /\ ~r.banished
    <3> DEFINE p == r.referrer
               t == r.compressionAt
               n == [NewInfo(p, Nothing) EXCEPT !.compressionAt = t]
               s == IF r.downgradeAt = NoTime THEN 1 ELSE r.status
    <3>1. q = [NewInfo(p, Nothing) EXCEPT
                 !.status = s, !.compressionAt = t, !.banishmentAt = r.banishmentAt,
                 !.downgradeAt = r.downgradeAt, !.transition = r.transition]
      BY <2>3 DEF Exported
    <3>2. r \in Info /\ p \in Parents /\ t \in Moments
      BY InfoFields DEF Records
    <3>3. Nothing \in Holding /\ Nothing.coins = 0 /\ Nothing.delegated = 0
      BY DEF Nothing, Holding
    <3>4. NewRecord(n, p, Nothing)
      BY <3>2, <3>3, NewInfoRecord
    <3>5. q = [n EXCEPT !.status = s, !.banishmentAt = r.banishmentAt,
                        !.downgradeAt = r.downgradeAt, !.transition = r.transition]
      BY <3>1 DEF NewInfo
    <3>6. s \in 1..MaxStatus
      BY <3>2, Constants DEF Records, Info
    <3>. HIDE DEF q, n, s
    <3>7. n \in Info
      BY <3>4 DEF NewRecord, Records
    <3>8. /\ q \in Info /\ q.status = s /\ q.referrer = n.referrer /\ q.banished = n.banished
          /\ q.active = n.active /\ q.activeReferrals = n.activeReferrals /\ q.lines = n.lines
      <4>1. /\ s \in 0..MaxStatus /\ r.banishmentAt \in Moments /\ r.downgradeAt \in Moments
            /\ r.transition \in Accounts \cup {None}
        BY <3>2, <3>6, InfoFields DEF Parents
      <4>. QED  BY <3>5, <3>7, <4>1 DEF Info
    <3>9. Wealthy(q)
      BY <3>3, <3>4, <3>8 DEF Wealthy, NewRecord
    <3>10. q \in Records /\ ~IsEmpty(q)
      BY <3>6, <3>8 DEF Records, IsEmpty
    <3>11. q.banished = r.banished /\ ~q.active /\ q.activeReferrals = {} /\ q.referrer = p
      <4>1. r.banished = FALSE /\ q.banished = FALSE
        <5>1. r.banished \in BOOLEAN /\ q.banished \in BOOLEAN /\ ~q.banished
          BY <3>2, <3>4, <3>8 DEF NewRecord, Info
        <5>. QED  BY <2>3, <5>1
      <4>. QED  BY <3>4, <3>8, <4>1 DEF NewRecord
    <3>. QED  BY <3>9, <3>10, <3>11 DEF q
  <2>. QED  BY <2>1, <2>2, <2>3
<1>2. \A a \in Accounts : (a \in S) \in BOOLEAN /\ file[a] = Exported(f[a], a \in S)
  OBVIOUS
<1>3. \A a \in Accounts :
        /\ file[a] \in Records /\ file[a].referrer = f[a].referrer
        /\ file[a].banished = f[a].banished
        /\ ~file[a].active /\ file[a].activeReferrals = {} /\ Wealthy(file[a])
        /\ IsEmpty(file[a]) => IsEmpty(f[a])
  BY <1>1, <1>2
<1>4. file = [a \in Accounts |-> file[a]]
  OBVIOUS
<1>. HIDE DEF file
<1>5. Banished(file) = Banished(f) /\ Stay(f, file) /\ Referred(file) = Referred(f)
  BY <1>3 DEF Banished, Stay, Referred
<1>6. ASSUME NEW a \in Accounts, file[a].referrer # None
      PROVE  ~IsEmpty(file[file[a].referrer])
  <2> DEFINE p == f[a].referrer
  <2>1. file[a].referrer = p /\ p \in Accounts
    BY <1>3, <1>6 DEF Records, Info
  <2>2. ~IsEmpty(f[p])
    BY <1>3, <1>6 DEF Good, Tree
  <2>. HIDE DEF p
  <2>. QED  BY <1>3, <2>1, <2>2
<1>7. Stated(file)
  BY <1>3, <1>4, <1>5, <1>6, EmptyRecord DEF Stated, Good, Tree
<1>. QED  BY <1>5, <1>7 DEF file

-----------------------------------------------------------------------------
(* The inductive invariant, and what a step may do to it.                  *)

\* Types.
Stores ==
    /\ info \in [Accounts -> Records] /\ Good(info)
    /\ tasks \subseteq Task(Handlers, Accounts)
    /\ index \subseteq (0..MaxStatus) \X Accounts

\* Types, the tree with its lists, and that nobody has delegated what he has not.
IInv ==
    /\ Stores
    /\ now \in Nat /\ phase \in {"genesis", "begin", "pass", "txs"}
    /\ due \subseteq Task(Handlers, Accounts)
    /\ profiles \subseteq Accounts /\ strangers \subseteq Accounts /\ txs \in 0..MaxTxs

\* A step keeps the invariant and leaves everyone his referrer.
Kept == IInv' /\ Stay(info, info')

LEMMA WorldSound ==
    ASSUME IInv
    PROVE  Sound(World) /\ ~World.broken /\ World.infos = info /\ now \in Nat
<1>1. World \in Worlds
  BY DEF World, Worlds, IInv, Stores
<1>. QED  BY <1>1 DEF Sound, World, IInv, Stores

LEMMA EndsStores ==
    ASSUME IInv, NEW w, Ends(World, w)
    PROVE  /\ w.tasks \subseteq Task(Handlers, Accounts)
           /\ w.index \subseteq (0..MaxStatus) \X Accounts
           /\ w.broken \/ /\ w.infos \in [Accounts -> Records] /\ Good(w.infos)
                          /\ Stay(info, w.infos)
<1>1. Sound(w) /\ (w.broken \/ Stay(info, w.infos))
  BY WorldSound DEF Ends
<1>. QED  BY <1>1, WorldFields DEF Sound

LEMMA HookStores ==
    ASSUME IInv, NEW w, Ends(World, w), Hook(w)
    PROVE  Stores' /\ Stay(info, info')
<1>1. /\ info' = IF w.broken THEN info ELSE w.infos
      /\ tasks' = w.tasks /\ index' = w.index
  BY DEF Hook
<1>2. /\ w.tasks \subseteq Task(Handlers, Accounts)
      /\ w.index \subseteq (0..MaxStatus) \X Accounts
      /\ w.broken \/ /\ w.infos \in [Accounts -> Records] /\ Good(w.infos)
                     /\ Stay(info, w.infos)
  BY EndsStores
<1>3. info \in [Accounts -> Records] /\ Good(info)
  BY DEF IInv, Stores
<1>4. info' \in [Accounts -> Records] /\ Good(info') /\ Stay(info, info')
  <2>1. CASE w.broken
    <3>1. info' = info
      BY <1>1, <2>1
    <3>. QED  BY <1>3, <3>1 DEF Stay
  <2>2. CASE ~w.broken
    <3>1. info' = w.infos
      BY <1>1, <2>2
    <3>. QED  BY <1>2, <2>2, <3>1
  <2>. QED  BY <2>1, <2>2
<1>5. Good(info)' /\ Stay(info, info')
  BY <1>4 DEF Good, Tree, Stay, Referred
<1>. QED  BY <1>1, <1>2, <1>4, <1>5 DEF Stores

LEMMA TxStores ==
    ASSUME IInv, NEW w, Ends(World, w), Tx(w)
    PROVE  Stores' /\ Stay(info, info')
<1>1. ~w.broken /\ info' = w.infos /\ tasks' = w.tasks /\ index' = w.index
  BY DEF Tx
<1>2. Hook(w)
  BY <1>1 DEF Hook
<1>. QED  BY <1>2, HookStores

LEMMA ScheduledEnds ==
    ASSUME NEW w, NEW v, Ends(w, v), NEW time \in Nat, NEW h \in Handlers, NEW a \in Accounts
    PROVE  Ends(w, Scheduled(v, time, h, a))
<1>1. v \in Worlds
  BY DEF Ends, Sound
<1>. QED  BY <1>1, ScheduledWorld DEF Ends, Sound

\* What a call of another module leaves alone.
LEMMA CallKept ==
    ASSUME IInv, Call, Stores', Stay(info, info'),
           profiles' \subseteq Accounts, strangers' \subseteq Accounts
    PROVE  Kept
<1>1. /\ now' = now /\ phase' = phase /\ due' = due
      /\ txs' = txs + 1 /\ txs < MaxTxs /\ txs \in 0..MaxTxs /\ MaxTxs \in Nat
  BY ReferralAssumption DEF Call, IInv
<1>2. txs' \in 0..MaxTxs
  BY <1>1
<1>. QED  BY <1>1, <1>2 DEF IInv, Kept

(***************************************************************************)
(* The transactions and the calls of other modules.                        *)
(***************************************************************************)
LEMMA CreateAccountKept ==
    ASSUME IInv, NEW p \in Accounts, NEW a \in Accounts, NEW h \in Holdings, CreateAccount(p, a, h)
    PROVE  Kept
<1> DEFINE v == AppendChild(World, p, a, h)
           w == Scheduled(v, now + CompressionPeriod, "compression", a)
<1>1. Call /\ a # p /\ ~Exists(info, a) /\ Tx(w) /\ profiles' = profiles \cup {a} /\ strangers' = strangers
  BY DEF CreateAccount
<1>2. Keeps(World, v)
  <2> DEFINE u == World
  <2>1. Sound(u) /\ ~u.broken /\ u.infos = info /\ now \in Nat
    BY WorldSound
  <2>2. h \in Holding
    BY Constants
  <2>. HIDE DEF u
  <2>. QED  BY <1>1, <2>1, <2>2, AppendChildKeeps DEF u
<1>. HIDE DEF v
<1>3. Ends(World, w)
  <2>1. now + CompressionPeriod \in Nat /\ "compression" \in Handlers
    BY Constants DEF IInv, CompressionPeriod, Handlers
  <2>. QED  BY <1>2, <2>1, ScheduledEnds DEF Keeps
<1>. HIDE DEF w
<1>4. Stores' /\ Stay(info, info')
  BY <1>1, <1>3, TxStores
<1>. QED  BY <1>1, <1>4, CallKept DEF IInv

LEMMA PayTariffKept ==
    ASSUME IInv, NEW a \in Accounts, PayTariff(a)
    PROVE  Kept
<1> DEFINE back == IF info[a].banished THEN ComeBack(World, a) ELSE World
           paid == Paid(back, a, Tariff)
           w == SetActive(paid, a, TRUE, TRUE)
<1>1. Call /\ Free(info[a]) >= Tariff /\ Tx(w) /\ profiles' = profiles /\ strangers' = strangers
  BY DEF PayTariff
<1>2. /\ Keeps(World, back) /\ SameStakes(World, back)
      /\ back.broken \/ ~back.infos[a].banished
  <2> DEFINE u == World
  <2>1. Sound(u) /\ ~u.broken /\ u.infos = info /\ now \in Nat
    BY WorldSound
  <2>2. CASE info[a].banished
    <3>1. back = ComeBack(u, a)
      BY <2>2
    <3>. HIDE DEF u, back
    <3>2. /\ Keeps(u, back) /\ SameStakes(u, back) /\ (back.broken \/ ~back.infos[a].banished)
      BY <2>1, <2>2, <3>1, ComeBackKeeps
    <3>. QED  BY <3>2 DEF u
  <2>3. CASE ~info[a].banished
    <3>1. back = u
      BY <2>3
    <3>. HIDE DEF u, back
    <3>2. Keeps(u, u) /\ SameStakes(u, u)
      BY <2>1, KeepsReflexive
    <3>. QED  BY <2>1, <2>3, <3>1, <3>2 DEF u
  <2>. QED  BY <2>2, <2>3
<1>. HIDE DEF back
<1>3. Sound(back) /\ now \in Nat /\ Tariff \in Nat
  BY <1>2, WorldSound, Constants DEF Keeps, Ends
<1>4. ~back.broken => back.infos[a].lines["coins"][0] - back.infos[a].lines["delegated"][0] >= Tariff
  <2>1. ~back.broken => SameStake(info[a], back.infos[a])
    BY <1>2, WorldSound DEF SameStakes
  <2>. QED  BY <1>1, <2>1 DEF SameStake, Free
<1>5. Keeps(back, paid)
  BY <1>3, <1>4, PaidKeeps
<1>. HIDE DEF paid
<1>6. Keeps(paid, w)
  <2>1. Sound(paid)
    BY <1>5 DEF Keeps, Ends
  <2>2. ~paid.broken => ~paid.infos[a].banished
    BY <1>2, <1>5 DEF Keeps, Ends, Banished
  <2>. QED  BY <1>3, <2>1, <2>2, SetActiveKeeps
<1>. HIDE DEF w
<1>7. Ends(World, w)
  <2>1. Keeps(World, paid)
    BY <1>2, <1>5, KeepsTransitive
  <2>2. Keeps(World, w)
    BY <1>6, <2>1, KeepsTransitive
  <2>. QED  BY <2>2 DEF Keeps
<1>8. Stores' /\ Stay(info, info')
  BY <1>1, <1>7, TxStores
<1>. QED  BY <1>1, <1>8, CallKept DEF IInv

LEMMA MonthOverKept ==
    ASSUME IInv, NEW a \in Accounts, MonthOver(a)
    PROVE  Kept
<1> DEFINE w == SetActive(World, a, FALSE, TRUE)
<1>1. Call /\ Hook(w) /\ profiles' = profiles /\ strangers' = strangers
  BY DEF MonthOver
<1>2. Keeps(World, w)
  BY WorldSound, SetActiveKeeps
<1>. HIDE DEF w
<1>3. Stores' /\ Stay(info, info')
  BY <1>1, <1>2, HookStores DEF Keeps
<1>. QED  BY <1>1, <1>3, CallKept DEF IInv

LEMMA BalanceChangeKept ==
    ASSUME IInv, NEW a \in Accounts, NEW h \in Holdings, BalanceChange(a, h)
    PROVE  Kept
<1> DEFINE w == OnBalanceChanged(World, a, h)
<1>1. Call /\ (Tx(w) \/ Hook(w)) /\ profiles' = profiles /\ strangers' = strangers
  BY DEF BalanceChange
<1>2. /\ h \in [coins : Int, delegated : Int]
      /\ 0 <= h.delegated /\ h.delegated <= h.coins
  BY Constants DEF Holding
<1>3. Keeps(World, w)
  BY <1>2, WorldSound, BalanceChangedKeeps
<1>. HIDE DEF w
<1>4. Stores' /\ Stay(info, info')
  BY <1>1, <1>3, TxStores, HookStores DEF Keeps
<1>. QED  BY <1>1, <1>4, CallKept DEF IInv

\* A stranger's payment is no change of a record.
LEMMA StrangerPays ==
    ASSUME NEW w, NEW a, IsEmpty(w.infos[a]), NEW x
    PROVE  Paid(w, a, x) = w
BY DEF Paid, OnBalanceChanged

LEMMA RequestTransitionKept ==
    ASSUME IInv, NEW a \in Accounts, NEW n \in Accounts, RequestTransition(a, n)
    PROVE  Kept
<1> DEFINE paid == Paid(World, a, Price)
           asked == [paid EXCEPT !.infos[a].transition = n]
           w == Scheduled(asked, now + Day, "transition-timeout", a)
<1>1. Call /\ (IsEmpty(info[a]) \/ Free(info[a]) >= Price) /\ Tx(w) /\ profiles' = profiles
  BY DEF RequestTransition
<1>2. Keeps(World, paid)
  <2> DEFINE u == World
  <2>1. Sound(u) /\ ~u.broken /\ u.infos = info /\ now \in Nat
    BY WorldSound
  <2>2. CASE IsEmpty(info[a])
    <3>1. paid = u
      BY <2>1, <2>2, StrangerPays
    <3>. QED  BY <2>1, <3>1, KeepsReflexive
  <2>3. CASE Free(info[a]) >= Price
    <3>1. u.infos[a].lines["coins"][0] - u.infos[a].lines["delegated"][0] >= Price
      BY <2>1, <2>3 DEF Free
    <3>2. Price \in Nat
      BY Constants
    <3>. HIDE DEF u
    <3>. QED  BY <2>1, <3>1, <3>2, PaidKeeps DEF u
  <2>. QED  BY <1>1, <2>2, <2>3
<1>. HIDE DEF paid
<1>3. Keeps(paid, asked)
  BY <1>2, TransitionSet DEF Keeps, Ends, Parents
<1>. HIDE DEF asked
<1>4. Ends(World, w)
  <2>1. Keeps(World, asked)
    BY <1>2, <1>3, KeepsTransitive
  <2>2. now + Day \in Nat /\ "transition-timeout" \in Handlers
    BY Constants DEF IInv, Handlers
  <2>. QED  BY <2>1, <2>2, ScheduledEnds DEF Keeps
<1>. HIDE DEF w
<1>5. Stores' /\ Stay(info, info')
  BY <1>1, <1>4, TxStores
<1>6. profiles' \subseteq Accounts /\ strangers' \subseteq Accounts
  BY DEF RequestTransition, IInv
<1>. QED  BY <1>1, <1>5, <1>6, CallKept

LEMMA CancelEnds ==
    ASSUME IInv, NEW a \in Accounts PROVE Ends(World, CancelTransition(World, a))
BY WorldSound, TransitionSet DEF CancelTransition, Parents, Keeps

LEMMA ResolveTransitionKept ==
    ASSUME IInv, NEW a \in Accounts, NEW approved \in BOOLEAN, ResolveTransition(a, approved)
    PROVE  Kept
<1>1. /\ Call /\ profiles' = profiles /\ strangers' = strangers
      /\ info[a].referrer # None /\ info[a].transition # None
  BY DEF ResolveTransition
<1>2. CASE approved
  <2> DEFINE p == info[a].referrer
             n == info[a].transition
             u == World
             w == AffirmTransition(u, a)
  <2>1. ValidTransition(a, n, FALSE) /\ a \in info[p].referrals /\ Tx(w)
    BY <1>2 DEF ResolveTransition
  <2>2. /\ Sound(u) /\ ~u.broken /\ u.infos = info /\ now \in Nat
    BY WorldSound
  <2>3. p \in Accounts /\ n \in Accounts
    BY <1>1, InfoFields DEF Records, Parents, IInv, Stores
  <2>4. a # n /\ p # n /\ a \notin Over(info, n)
    BY <2>1 DEF ValidTransition, Over
  <2>5. p = u.infos[a].referrer /\ n = u.infos[a].transition
    BY <2>2
  <2>. HIDE DEF p, n, u
  <2>6. Keeps(u, w)
    <3>1. a \notin Over(u.infos, n) /\ a \in u.infos[p].referrals
      BY <2>1, <2>2, <2>4
    <3>. QED  BY <2>2, <2>3, <2>4, <2>5, <3>1, AffirmKeeps
  <2>. HIDE DEF w
  <2>7. Stores' /\ Stay(info, info')
    BY <2>1, <2>6, TxStores DEF Keeps, u
  <2>. QED  BY <1>1, <2>7, CallKept DEF IInv
<1>3. CASE ~approved
  <2> DEFINE w == CancelTransition(World, a)
  <2>1. Tx(w)
    BY <1>3 DEF ResolveTransition
  <2>2. Ends(World, w)
    BY CancelEnds
  <2>. HIDE DEF w
  <2>3. Stores' /\ Stay(info, info')
    BY <2>1, <2>2, TxStores
  <2>. QED  BY <1>1, <2>3, CallKept DEF IInv
<1>. QED  BY <1>2, <1>3

(***************************************************************************)
(* The blocks.                                                             *)
(***************************************************************************)
LEMMA PerformTaskKept ==
    ASSUME IInv, PerformTask PROVE Kept
<1>1. PICK t \in due :
        /\ due' = due \ {t}
        /\ \/ Hook(PerformCompression(World, t.data))
           \/ Hook(Banish(World, t.data))
           \/ Hook(PerformDowngrade(World, t.data))
           \/ Hook(CancelTransition(World, t.data))
  BY DEF PerformTask
<1> DEFINE a == t.data
<1>2. a \in Accounts
  BY DEF IInv, Task
<1>. HIDE DEF a
<1>3. /\ Ends(World, PerformCompression(World, a)) /\ Ends(World, Banish(World, a))
      /\ Ends(World, PerformDowngrade(World, a)) /\ Ends(World, CancelTransition(World, a))
  BY <1>2, WorldSound, PerformCompressionKeeps, BanishEnds, PerformDowngradeKeeps, CancelEnds
     DEF Keeps
<1>4. Stores' /\ Stay(info, info')
  BY <1>1, <1>3, HookStores DEF a
<1>5. now' = now /\ phase' = phase /\ profiles' = profiles /\ strangers' = strangers /\ txs' = txs
  BY DEF PerformTask
<1>. QED  BY <1>1, <1>4, <1>5 DEF Kept, IInv

LEMMA BlocksKept ==
    ASSUME IInv, BeginBlock \/ StartPass \/ EndPass \/ UNCHANGED vars PROVE Kept
<1>1. /\ info' = info /\ index' = index /\ profiles' = profiles /\ strangers' = strangers /\ txs' = txs
      /\ tasks' \subseteq tasks /\ due' \subseteq due \cup tasks
      /\ now' \in Nat /\ phase' \in {"genesis", "begin", "pass", "txs"}
  <2>1. CASE BeginBlock
    <3>1. now' \in Nat
      <4>1. \A gap \in 1..MaxGap : now + gap \in Nat
        BY DEF IInv
      <4>. QED  BY <2>1, <4>1 DEF BeginBlock, IInv
    <3>. QED  BY <2>1, <3>1 DEF BeginBlock
  <2>2. CASE StartPass
    BY <2>2 DEF StartPass, DueAt, IInv
  <2>3. CASE EndPass
    BY <2>3 DEF EndPass, IInv
  <2>4. CASE UNCHANGED vars
    BY <2>4 DEF vars, IInv
  <2>. QED  BY <2>1, <2>2, <2>3, <2>4
<1>2. Stores' /\ Stay(info, info')
  BY <1>1 DEF Stores, IInv, Good, Tree, Stay, Referred
<1>3. profiles' \subseteq Accounts /\ strangers' \subseteq Accounts /\ txs' \in 0..MaxTxs
  BY <1>1 DEF IInv
<1>4. due' \subseteq Task(Handlers, Accounts)
  BY <1>1 DEF IInv, Stores
<1>. QED  BY <1>1, <1>2, <1>3, <1>4 DEF IInv, Kept

LEMMA RestartKept ==
    ASSUME IInv, Restart PROVE Kept
<1> DEFINE file == [a \in Accounts |-> Exported(info[a], a \in strangers)]
           own == [a \in Accounts |-> [coins |-> info[a].lines["coins"][0],
                                       delegated |-> info[a].lines["delegated"][0]]]
           active == {a \in Accounts : info[a].active}
           w == InitGenesis(file, tasks, own, active)
<1>1. /\ Tx(w) /\ phase' = "genesis" /\ txs < MaxTxs /\ txs' = txs + 1
      /\ now' = now /\ due' = due /\ profiles' = profiles /\ strangers' = strangers
  BY DEF Restart
<1>2. info \in [Accounts -> Records] /\ Good(info)
  BY DEF IInv, Stores
<1>3. Stated(file) /\ Banished(file) = Banished(info) /\ Stay(info, file)
  BY <1>2, ExportedStated
<1>. HIDE DEF file
<1>4. active \in SUBSET Accounts /\ active \cap Banished(file) = {}
  BY <1>2, <1>3 DEF Good, Tree, Banished
<1>5. \A a \in Accounts : /\ own[a] \in [coins : Int, delegated : Int]
                         /\ 0 <= own[a].delegated /\ own[a].delegated <= own[a].coins
  <2>1. ASSUME NEW a \in Accounts
        PROVE  /\ info[a].lines["coins"][0] \in Int /\ info[a].lines["delegated"][0] \in Int
               /\ Wealthy(info[a])
    BY <1>2, InfoFields, Constants DEF Records, Good
  <2>. QED  BY <2>1 DEF Wealthy
<1>. HIDE DEF own, active
<1>6. Sound(w) /\ (w.broken \/ Stay(info, w.infos))
  <2>1. tasks \in SUBSET Task(Handlers, Accounts) /\ now \in Nat
    BY DEF IInv, Stores
  <2>2. Sound(w) /\ (w.broken \/ Stay(file, w.infos))
    BY <1>3, <1>4, <1>5, <2>1, InitGenesisKeeps
  <2>. QED  BY <1>3, <2>2 DEF Stay
<1>. HIDE DEF w
<1>7. Ends(World, w)
  BY <1>6, WorldSound DEF Ends
<1>8. Stores' /\ Stay(info, info')
  BY <1>1, <1>7, TxStores
<1>9. txs' \in 0..MaxTxs
  BY <1>1, ReferralAssumption DEF IInv
<1>. QED  BY <1>1, <1>8, <1>9 DEF IInv, Kept

LEMMA InitInv == Init => IInv
<1>. SUFFICES ASSUME Init PROVE IInv
  OBVIOUS
<1>1. now = 0 /\ phase = "genesis" /\ due = {} /\ strangers = {} /\ txs = 0
  BY DEF Init
<1>2. PICK g \in Genesis :
        \E w \in {NewChain(g)} :
          /\ ~w.broken /\ info = w.infos /\ tasks = w.tasks /\ index = w.index
          /\ profiles = DOMAIN g.referrer
  BY DEF Init
<1> DEFINE w == NewChain(g)
<1>3. ~w.broken /\ info = w.infos /\ tasks = w.tasks /\ index = w.index
  BY <1>2
<1>4. Sound(w)
  BY <1>1, NewChainKeeps
<1>5. profiles \subseteq Accounts
  BY <1>2, GenesisAssumption
<1>. HIDE DEF w
<1>6. Stores
  BY <1>3, <1>4, SoundFields, WorldFields DEF Stores
<1>7. txs \in 0..MaxTxs
  BY <1>1, ReferralAssumption
<1>. QED  BY <1>1, <1>5, <1>6, <1>7 DEF IInv

LEMMA StepKept == IInv /\ [Next]_vars => Kept
<1>. SUFFICES ASSUME IInv, [Next]_vars PROVE Kept
  OBVIOUS
<1>1. CASE \E p, a \in Accounts, h \in Holdings : CreateAccount(p, a, h)
  BY <1>1, CreateAccountKept
<1>2. CASE \E a \in Accounts : PayTariff(a)
  BY <1>2, PayTariffKept
<1>3. CASE \E a \in Accounts : MonthOver(a)
  BY <1>3, MonthOverKept
<1>4. CASE \E a \in Accounts, h \in Holdings : BalanceChange(a, h)
  BY <1>4, BalanceChangeKept
<1>5. CASE \E a, n \in Accounts : RequestTransition(a, n)
  BY <1>5, RequestTransitionKept
<1>6. CASE \E a \in Accounts, approved \in BOOLEAN : ResolveTransition(a, approved)
  BY <1>6, ResolveTransitionKept
<1>7. CASE PerformTask
  BY <1>7, PerformTaskKept
<1>8. CASE BeginBlock \/ StartPass \/ EndPass \/ UNCHANGED vars
  BY <1>8, BlocksKept
<1>9. CASE Restart
  BY <1>9, RestartKept
<1>. QED  BY <1>1, <1>2, <1>3, <1>4, <1>5, <1>6, <1>7, <1>8, <1>9 DEF Next

(***************************************************************************)
(* The types, and that nobody has delegated more than he owns.             *)
(***************************************************************************)
THEOREM ReferralTypeCorrect == Spec => []TypeOK
<1>1. IInv /\ [Next]_vars => IInv'
  BY StepKept DEF Kept
<1>2. IInv => TypeOK
  <2>. SUFFICES ASSUME IInv PROVE TypeOK
    OBVIOUS
  <2>1. \A a \in Accounts : info[a] \in Info /\ Wealthy(info[a])
    BY DEF IInv, Stores, Good, Records
  <2>2. \A a \in Accounts : info[a].lines["coins"][0] >= info[a].lines["delegated"][0]
    BY <2>1, InfoFields, Constants DEF Wealthy
  <2>3. info \in [Accounts -> Info]
    BY DEF IInv, Stores, Records
  <2>. QED  BY <2>2, <2>3 DEF IInv, Stores, TypeOK
<1>. QED  BY InitInv, <1>1, <1>2, PTL DEF Spec

(***************************************************************************)
(* Whoever comes back finds a referrer: the loops along ancestors, the     *)
(* compressions and the restarts cut nobody off the tree.                  *)
(***************************************************************************)
THEOREM NobodyCutOff == Spec => NeverCutOff
<1>1. IInv /\ [Next]_vars => IInv'
  BY StepKept DEF Kept
<1>2. IInv /\ [Next]_vars
        => [\A a \in Accounts : info[a].referrer # None => info'[a].referrer # None]_vars
  BY StepKept DEF Kept, Stay
<1>. QED  BY InitInv, <1>1, <1>2, PTL DEF Spec, NeverCutOff

-----------------------------------------------------------------------------
(* The forest.                                                             *)

(***************************************************************************)
(* The walk upwards, as Above takes it, i lines at once for everyone.      *)
(***************************************************************************)
Walk(up, D, ref, i) ==
    /\ up \in [0..i -> [D -> Parents]]
    /\ \A b \in D : up[0][b] = b
    /\ \A k \in 1..i : \A b \in D :
         up[k][b] = IF up[k - 1][b] \in D THEN ref[up[k - 1][b]] ELSE None

LEMMA AboveValue ==
    ASSUME NEW D \in SUBSET Accounts, NEW ref \in [D -> Parents], NEW i \in Nat
    PROVE  \E up : Walk(up, D, ref, i) /\ Above(ref, i) = up[i]
<1> DEFINE V == [D -> Parents]
           start == [b \in D |-> b]
           step(below) == [b \in D |-> IF below[b] \in D THEN ref[below[b]] ELSE None]
           F == [x \in (1..i) \X V |-> step(x[2])]
           Def(g) == g = [k \in 0..i |-> IF k = 0 THEN start ELSE step(g[k - 1])]
           up == CHOOSE g : Def(g)
<1>1. Above(ref, i) = up[i]
  <2>1. DOMAIN ref = D
    OBVIOUS
  <2>2. Above(ref, i) =
          LET u[k \in 0..i] ==
                IF k = 0 THEN [b \in D |-> b]
                ELSE LET below == u[k - 1]
                     IN  [b \in D |-> IF below[b] \in D THEN ref[below[b]] ELSE None]
          IN  u[i]
    BY <2>1 DEF Above
  <2>. QED  BY <2>2
<1>2. start \in V
  BY DEF Parents
<1>3. \A below \in V : step(below) \in V
  BY DEF Parents
<1>. HIDE DEF step, start, V
<1>4. F \in [(1..i) \X V -> V]
  BY <1>3
<1>5. PICK g \in [0..i -> V] : Recursion(g, i, start, F)
  <2>. HIDE DEF F
  <2>. QED  BY <1>2, <1>4, RecursionExists
<1>6. Def(g)
  <2>1. ASSUME NEW k \in 0..i
        PROVE  g[k] = IF k = 0 THEN start ELSE step(g[k - 1])
    <3>1. g[k] = IF k = 0 THEN start ELSE F[<<k, g[k - 1]>>]
      BY <1>5 DEF Recursion
    <3>2. CASE k # 0
      <4>1. k \in 1..i /\ k - 1 \in 0..i
        BY <3>2
      <4>. QED  BY <3>1, <4>1
    <3>. QED  BY <3>1, <3>2
  <2>. QED  BY <2>1
<1>7. Def(up)
  <2>. HIDE DEF Def
  <2>. QED  BY <1>6
<1>. HIDE DEF up
<1>8. up[0] = start /\ \A k \in 1..i : up[k] = step(up[k - 1])
  BY <1>7
<1> DEFINE A == {k \in 0..i : up[k] \in V}
<1>9. 0 \in A
  BY <1>2, <1>8
<1>10. ASSUME NEW k \in 1..i, k - 1 \in A PROVE k \in A
  BY <1>3, <1>8, <1>10
<1>. HIDE DEF A
<1>11. \A k \in 0..i : k \in A
  BY <1>9, <1>10, UpTo
<1>12. \A k \in 0..i : up[k] \in V
  BY <1>11 DEF A
<1>13. DOMAIN up = 0..i
  BY <1>7
<1>14. up \in [0..i -> V]
  BY <1>7, <1>12, <1>13
<1>15. \A b \in D : up[0][b] = b
  BY <1>8 DEF start
<1>16. ASSUME NEW k \in 1..i, NEW b \in D
       PROVE  up[k][b] = IF up[k - 1][b] \in D THEN ref[up[k - 1][b]] ELSE None
  <2>1. up[k] = step(up[k - 1])
    BY <1>8
  <2>. QED  BY <2>1 DEF step
<1>17. Walk(up, D, ref, i)
  BY <1>14, <1>15, <1>16 DEF Walk, V
<1>. QED  BY <1>1, <1>17

(***************************************************************************)
(* In a forest nobody is below another by as many lines as there are       *)
(* accounts: the path between them would be too long.                      *)
(***************************************************************************)
LEMMA LinesEnd ==
    ASSUME NEW f, HasParents(f), Acyclic(Referred(f)), NEW D \in SUBSET Accounts,
           NEW a \in Accounts
    PROVE  Line([b \in D |-> f[b].referrer], a, Cardinality(Accounts)) = {}
<1> DEFINE ref == [b \in D |-> f[b].referrer]
           N == Cardinality(Accounts)
<1>1. N \in Nat
  BY AccountsCount
<1>2. ref \in [D -> Parents] /\ DOMAIN ref = D
  BY DEF HasParents
<1>3. \A b \in D : ref[b] = f[b].referrer
  OBVIOUS
<1>. HIDE DEF ref, N
<1>0. PICK up : Walk(up, D, ref, N) /\ Above(ref, N) = up[N]
  BY <1>1, <1>2, AboveValue
<1>4. /\ \A b \in D : up[0][b] = b
      /\ \A k \in 0..N : \A b \in D : up[k][b] \in Parents
      /\ \A k \in 1..N : \A b \in D :
           up[k][b] = IF up[k - 1][b] \in D THEN ref[up[k - 1][b]] ELSE None
  BY <1>0 DEF Walk
<1>5. ASSUME NEW b \in D, up[N][b] = a PROVE FALSE
  <2>1. ASSUME NEW k \in 1..N, up[k][b] \in Accounts PROVE up[k - 1][b] \in D
    BY <1>4, <2>1, Constants
  <2> DEFINE A == {k \in 0..N : up[N - k][b] \in Accounts}
  <2>2. 0 \in A
    BY <1>1, <1>5
  <2>3. ASSUME NEW k \in 1..N, k - 1 \in A PROVE k \in A
    <3>1. N - k \in 0..N /\ N - (k - 1) \in 1..N /\ (N - (k - 1)) - 1 = N - k
      BY <1>1
    <3>2. up[N - (k - 1)][b] \in Accounts
      BY <2>3
    <3>3. up[(N - (k - 1)) - 1][b] \in D
      BY <2>1, <3>1, <3>2
    <3>. QED  BY <3>1, <3>3
  <2>. HIDE DEF A
  <2>4. \A k \in 0..N : k \in A
    BY <1>1, <2>2, <2>3, UpTo
  <2>5. ASSUME NEW k \in 0..N PROVE up[k][b] \in Accounts
    <3>1. N - k \in 0..N /\ N - (N - k) = k
      BY <1>1
    <3>2. N - k \in A
      BY <2>4, <3>1
    <3>. QED  BY <3>1, <3>2 DEF A
  <2> DEFINE c == [k \in 1..(N + 1) |-> up[k - 1][b]]
  <2>6. c \in [1..(N + 1) -> Accounts]
    <3>1. \A k \in 1..(N + 1) : k - 1 \in 0..N
      BY <1>1
    <3>. QED  BY <2>5, <3>1
  <2>7. ASSUME NEW k \in 1..((N + 1) - 1) PROVE Referred(f)[c[k]] = c[k + 1]
    <3>1. k \in 1..N /\ k - 1 \in 0..N /\ k \in 1..(N + 1) /\ k + 1 \in 1..(N + 1) /\ (k + 1) - 1 = k
      BY <1>1
    <3>2. c[k] = up[k - 1][b] /\ c[k + 1] = up[k][b]
      BY <3>1
    <3>3. up[k - 1][b] \in D /\ up[k][b] = f[up[k - 1][b]].referrer
      BY <1>3, <1>4, <2>1, <2>5, <3>1
    <3>. QED  BY <3>2, <3>3 DEF Referred
  <2>. HIDE DEF c
  <2>8. N + 1 \in Nat /\ Upwards(Referred(f), N + 1, c)
    BY <1>1, <2>6, <2>7 DEF Upwards
  <2>9. N + 1 <= N
    BY <2>8, ReferredType, PathShort DEF N
  <2>. QED  BY <1>1, <2>9
<1>6. Line(ref, a, N) = {b \in D : up[N][b] = a}
  BY <1>0, <1>2 DEF Line
<1>. QED  BY <1>5, <1>6 DEF ref, N

(***************************************************************************)
(* The referrers make up a forest, and the lists of referrals and of       *)
(* active ones agree with it.                                              *)
(***************************************************************************)
THEOREM ReferralsForest == Spec => []Forest
<1>1. IInv /\ [Next]_vars => IInv'
  BY StepKept DEF Kept
<1>2. IInv => Forest
  <2>. SUFFICES ASSUME IInv PROVE Forest
    OBVIOUS
  <2>1. info \in [Accounts -> Records] /\ Tree(info)
    BY DEF IInv, Stores, Good
  <2>2. \A b \in Accounts : info[b].referrer \in Parents
    BY <2>1, InfoFields DEF Records
  <2>3. \A b \in Accounts : Exists(info, b) \/ (info[b].referrer = None /\ ~info[b].active)
    BY EmptyRecord DEF Exists
  <2>4. ASSUME NEW a \in Accounts
        PROVE  Line(Referrers, a, Cardinality(Accounts)) = {}
    <3>1. Members \in SUBSET Accounts
      BY DEF Members
    <3>2. HasParents(info) /\ Acyclic(Referred(info))
      BY <2>1, <2>2 DEF HasParents, Tree
    <3>. QED  BY <3>1, <3>2, LinesEnd DEF Referrers
  <2>5. ASSUME NEW a \in Accounts
        PROVE  /\ info[a].referrals = {b \in Members : info[b].referrer = a}
               /\ info[a].activeReferrals = {b \in info[a].referrals : info[b].active}
               /\ info[a].banished => ~info[a].active
    BY <2>1, <2>3, Constants DEF Tree, Members
  <2>. QED  BY <2>4, <2>5 DEF Forest
<1>. QED  BY InitInv, <1>1, <1>2, PTL DEF Spec

-----------------------------------------------------------------------------
(* Checks.                                                                 *)

\* Every status above LUCKY asks for active referrals, as each of
\* status_requirements.go does: a compressed account has none, and falls to LUCKY.
Earned == \A s \in 2..MaxStatus : Requirement[s].count >= 1 \/ Requirement[s].teams >= 1

\* A time has its task in P.
Armed(P, time, handler, a) == time # NoTime => Timer(time, handler, a) \in P

\* The index holds the statuses of f.
IndexFits(idx, f) ==
    \A s \in 0..MaxStatus : \A a \in Accounts :
       <<s, a>> \in idx <=> s = f[a].status /\ s >= MinIndexed

\* A check of r has made it q.
Judged(a, r, q, P) ==
    /\ q.referrer = r.referrer /\ q.referrals = r.referrals
    /\ q.activeReferrals = r.activeReferrals /\ q.lines = r.lines
    /\ q.active = r.active /\ q.banished = r.banished /\ q.transition = r.transition
    /\ q.compressionAt = r.compressionAt /\ q.banishmentAt = r.banishmentAt
    /\ ~r.banished => q.status >= 1
    /\ r.banished /\ r.status = 0 => q.status = 0 /\ q.downgradeAt = NoTime
    /\ Earned /\ r.activeReferrals = {} /\ r.status <= 1 => q.status <= 1
    /\ q.downgradeAt = r.downgradeAt \/ Armed(P, q.downgradeAt, "downgrade", a)

\* New tasks of a check.
Grown(w, v) ==
    /\ w.tasks \subseteq v.tasks
    /\ \A t \in v.tasks : t \in w.tasks \/ (t.handler = "downgrade" /\ t.time > now)

\* v is w, with the record r of a checked.
Judges(w, v, a, r) ==
    /\ v \in Worlds /\ ~v.broken /\ Grown(w, v)
    /\ v.infos = [w.infos EXCEPT ![a] = v.infos[a]] /\ Judged(a, r, v.infos[a], v.tasks)
    /\ IndexFits(w.index, [w.infos EXCEPT ![a] = r]) => IndexFits(v.index, v.infos)

(***************************************************************************)
(* setStatus keeps the index.                                              *)
(***************************************************************************)
LEMMA SetIndexFits ==
    ASSUME NEW w \in Worlds, NEW a \in Accounts, NEW new \in 0..MaxStatus, NEW f, NEW g,
           IndexFits(w.index, f), g[a].status = new,
           \A c \in Accounts \ {a} : g[c].status = f[c].status
    PROVE  IndexFits(SetIndex(w, a, f[a].status, new).index, g)
<1> DEFINE old == f[a].status
           i == (w.index \ {<<old, a>>}) \cup (IF new >= MinIndexed THEN {<<new, a>>} ELSE {})
<1>1. SetIndex(w, a, old, new).index = i
  BY DEF SetIndex, Worlds
<1>2. ASSUME NEW s \in 0..MaxStatus, NEW c \in Accounts
      PROVE  <<s, c>> \in i <=> s = g[c].status /\ s >= MinIndexed
  <2>1. <<s, c>> \in w.index <=> s = f[c].status /\ s >= MinIndexed
    BY DEF IndexFits
  <2>2. CASE c = a
    <3>1. <<s, a>> \in w.index \ {<<old, a>>} <=> FALSE
      BY <2>1, <2>2
    <3>2. <<s, a>> \in i <=> s = new /\ new >= MinIndexed
      BY <3>1
    <3>. QED  BY <2>2, <3>2
  <2>3. CASE c # a
    <3>1. <<s, c>> \in i <=> <<s, c>> \in w.index
      BY <2>3
    <3>. QED  BY <2>1, <2>3, <3>1
  <2>. QED  BY <2>2, <2>3
<1>. HIDE DEF i
<1>. QED  BY <1>1, <1>2 DEF IndexFits, old

(***************************************************************************)
(* Without active referrals nobody rises above LUCKY.                      *)
(***************************************************************************)
LEMMA ReachedAlone ==
    ASSUME Earned, NEW infos, NEW r \in Records, r.activeReferrals = {}, r.status <= 1
    PROVE  Reached(infos, r) <= 1
<1> DEFINE S == {s \in r.status..MaxStatus :
                   \A t \in (r.status + 1)..s : Fulfilled(infos, r, t)}
<1>1. r.status \in 0..MaxStatus /\ MaxStatus \in Nat \ {0}
  BY InfoFields, Constants DEF Records
<1>2. r.status \in S /\ S \subseteq r.status..MaxStatus
  BY <1>1
<1>3. IsFiniteSet(S) /\ \A n \in S : n \in Int
  <2>1. IsFiniteSet(r.status..MaxStatus)
    BY <1>1, FS_Interval
  <2>2. IsFiniteSet(S)
    <3>. HIDE DEF S
    <3>. QED  BY <1>2, <2>1, FS_Subset
  <2>. QED  BY <2>2, <1>1
<1>4. ASSUME NEW s \in S, s >= 2 PROVE FALSE
  <2>1. 2 \in (r.status + 1)..s /\ 2 \in 2..MaxStatus
    BY <1>1, <1>4
  <2>2. Fulfilled(infos, r, 2)
    BY <2>1
  <2> DEFINE q == Requirement[2]
             B == {c \in r.activeReferrals : infos[c].lines["counts"][1] >= q.size}
             C == {c \in r.activeReferrals : TeamOf(infos[c], q.leg)}
  <2>3. Cardinality(B) >= q.count /\ Cardinality(C) >= q.teams
    BY <2>2 DEF Fulfilled
  <2>4. B = {} /\ C = {}
    OBVIOUS
  <2>5. Cardinality(B) = 0 /\ Cardinality(C) = 0
    <3>. HIDE DEF B, C
    <3>. QED  BY <2>4, FS_EmptySet
  <2>6. q.count \in Nat /\ q.teams \in Nat
    BY <2>1, ReferralAssumption
  <2>7. q.count >= 1 \/ q.teams >= 1
    BY <2>1 DEF Earned
  <2>. HIDE DEF q, B, C
  <2>. QED  BY <2>3, <2>5, <2>6, <2>7
<1>5. Reached(infos, r) = Max(S)
  BY DEF Reached
<1>. HIDE DEF S
<1>6. Max(S) \in S /\ Max(S) \in Int
  BY <1>2, <1>3, MaxOfFinite
<1>. QED  BY <1>4, <1>5, <1>6

(***************************************************************************)
(* A banished account keeps the status that is none.                       *)
(***************************************************************************)
LEMMA ReachedBanished ==
    ASSUME NEW infos, NEW r \in Records, r.banished, r.status = 0
    PROVE  Reached(infos, r) = 0
<1> DEFINE S == {s \in r.status..MaxStatus :
                   \A t \in (r.status + 1)..s : Fulfilled(infos, r, t)}
<1>1. MaxStatus \in Nat \ {0}
  BY Constants
<1>2. S = {0}
  <2>1. 0 \in S
    BY <1>1
  <2>2. ASSUME NEW s \in S, s # 0 PROVE FALSE
    <3>1. 1 \in (r.status + 1)..s
      BY <1>1, <2>2
    <3>2. Fulfilled(infos, r, 1)
      BY <3>1
    <3>. QED  BY <3>2 DEF Fulfilled
  <2>. HIDE DEF S
  <2>. QED  BY <2>1, <2>2
<1>3. Reached(infos, r) = Max(S)
  BY DEF Reached
<1>. HIDE DEF S
<1>4. Max(S) \in S
  <2>1. IsFiniteSet(S)
    BY <1>2, FS_Singleton
  <2>2. \A n \in S : n \in Int
    BY <1>2
  <2>. QED  BY <1>2, <2>1, <2>2, MaxOfFinite
<1>. QED  BY <1>2, <1>3, <1>4

\* What the writes to one store leave of the others.
LEMMA UpdateStores ==
    ASSUME NEW w \in Worlds, NEW a, NEW r
    PROVE  Update(w, a, r).tasks = w.tasks /\ Update(w, a, r).index = w.index
BY DEF Update, Worlds

LEMMA SetIndexStores ==
    ASSUME NEW w \in Worlds, NEW a, NEW old, NEW new
    PROVE  SetIndex(w, a, old, new).tasks = w.tasks
BY DEF SetIndex, Worlds

LEMMA ScheduledStores ==
    ASSUME NEW w \in Worlds, NEW time, NEW h, NEW a
    PROVE  /\ Scheduled(w, time, h, a).tasks = w.tasks \cup {Timer(time, h, a)}
           /\ Scheduled(w, time, h, a).index = w.index
BY DEF Scheduled, Put, Worlds

LEMMA WithdrawnStores ==
    ASSUME NEW w \in Worlds, NEW time, NEW h, NEW a
    PROVE  /\ Withdrawn(w, time, h, a).tasks = Remove(w.tasks, time, h, a)
           /\ Withdrawn(w, time, h, a).index = w.index
BY DEF Withdrawn, Worlds

LEMMA JudgedSame ==
    ASSUME NEW a, NEW r \in Records, NEW P, ~r.banished => r.status >= 1,
           r.banished /\ r.status = 0 => r.downgradeAt = NoTime
    PROVE  Judged(a, r, r, P)
BY DEF Judged

(***************************************************************************)
(* What a check leaves of a record, of the tasks and of the index.         *)
(***************************************************************************)
LEMMA CheckJudges ==
    ASSUME now \in Nat, NEW w \in Worlds, ~w.broken, NEW a \in Accounts, NEW r \in Records
    PROVE  Judges(w, Check(w, a, r), a, r)
<1>1. /\ r.status \in 0..MaxStatus /\ r \in Info /\ MaxStatus \in Nat
      /\ r.downgradeAt # NoTime => r.status >= 1
      /\ w.infos \in [Accounts -> Records]
  BY InfoFields, Constants, WorldFields DEF Records
<1> DEFINE f == [w.infos EXCEPT ![a] = r]
<1>2. f[a] = r /\ \A c \in Accounts \ {a} : f[c] = w.infos[c]
  BY <1>1
<1>. HIDE DEF f
<1>3. CASE Fulfilled(w.infos, r, r.status)
  <2> DEFINE s == Reached(w.infos, r)
             q == [r EXCEPT !.status = s, !.downgradeAt = NoTime]
             i == SetIndex(w, a, r.status, s)
             v == Update(i, a, q)
  <2>1. s \in r.status..MaxStatus /\ (~r.banished => s >= 1)
    BY ReachedStatus
  <2>2. Check(w, a, r) = v
    BY <1>3 DEF Check
  <2>3. Earned /\ r.activeReferrals = {} /\ r.status <= 1 => s <= 1
    BY ReachedAlone
  <2>4. r.banished /\ r.status = 0 => s = 0
    BY ReachedBanished
  <2>. HIDE DEF s
  <2>5. s \in 0..MaxStatus
    BY <1>1, <2>1
  <2>6. q \in Records
    BY <1>1, <2>5 DEF Records, Info, Moments
  <2>7. q = [r EXCEPT !.status = s, !.downgradeAt = NoTime] /\ q.status = s
        /\ q.downgradeAt = NoTime
    BY <1>1 DEF Info
  <2>8. \A P : Judged(a, r, q, P)
    BY <1>1, <2>1, <2>3, <2>4, <2>7 DEF Judged, Info, Armed
  <2>9. i \in Worlds /\ i.infos = w.infos /\ i.broken = w.broken /\ i.tasks = w.tasks
    BY <2>5, SetIndexWorld, SetIndexStores
  <2>10. ASSUME IndexFits(w.index, f) PROVE IndexFits(i.index, [w.infos EXCEPT ![a] = q])
    <3> DEFINE g == [w.infos EXCEPT ![a] = q]
    <3>1. g[a].status = s /\ \A c \in Accounts \ {a} : g[c].status = f[c].status
      BY <1>1, <1>2, <2>7
    <3>2. r.status = f[a].status
      BY <1>2
    <3>. HIDE DEF g
    <3>3. IndexFits(SetIndex(w, a, f[a].status, s).index, g)
      BY <2>5, <2>10, <3>1, SetIndexFits
    <3>. QED  BY <3>2, <3>3 DEF g
  <2>. HIDE DEF i, q
  <2>11. /\ v \in Worlds /\ ~v.broken /\ v.infos = [w.infos EXCEPT ![a] = q]
         /\ v.tasks = w.tasks /\ v.index = i.index
    BY <2>6, <2>9, UpdateWorld, UpdateStores
  <2>. HIDE DEF v
  <2>12. v.infos[a] = q
    BY <1>1, <2>11
  <2>13. Grown(w, v)
    BY <2>11 DEF Grown
  <2>. QED  BY <2>2, <2>8, <2>10, <2>11, <2>12, <2>13 DEF Judges, f
<1>4. CASE ~Fulfilled(w.infos, r, r.status)
  <2>1. r.status >= 1
    BY <1>1, <1>4 DEF Fulfilled
  <2>2. ASSUME NEW q \in Records, q.status = r.status, IndexFits(w.index, f)
        PROVE  IndexFits(w.index, [w.infos EXCEPT ![a] = q])
    <3>1. \A c \in Accounts : [w.infos EXCEPT ![a] = q][c].status = f[c].status
      BY <1>1, <1>2, <2>2
    <3>. QED  BY <2>2, <3>1 DEF IndexFits
  <2>3. CASE r.downgradeAt = NoTime
    <3> DEFINE time == now + StatusDowngradeAfter
               q == [r EXCEPT !.downgradeAt = time]
               u == Update(w, a, q)
               v == Scheduled(u, time, "downgrade", a)
    <3>1. Check(w, a, r) = v
      BY <1>4, <2>3 DEF Check
    <3>2. time \in Nat /\ time > now
      BY Constants DEF StatusDowngradeAfter
    <3>. HIDE DEF time
    <3>3. q \in Records
      BY <1>1, <2>1, <3>2 DEF Records, Info, Moments
    <3>4. q.status = r.status /\ q.downgradeAt = time
      BY <1>1 DEF Info
    <3>5. \A P : Timer(time, "downgrade", a) \in P => Judged(a, r, q, P)
      BY <1>1, <2>1, <3>4 DEF Judged, Info, Armed
    <3>. HIDE DEF q
    <3>6. /\ u \in Worlds /\ u.infos = [w.infos EXCEPT ![a] = q] /\ u.broken = w.broken
          /\ u.tasks = w.tasks /\ u.index = w.index
      BY <3>3, UpdateWorld, UpdateStores
    <3>. HIDE DEF u
    <3>7. "downgrade" \in Handlers
      BY DEF Handlers
    <3>8. /\ v \in Worlds /\ ~v.broken /\ v.infos = [w.infos EXCEPT ![a] = q]
          /\ v.tasks = w.tasks \cup {Timer(time, "downgrade", a)} /\ v.index = w.index
      BY <3>2, <3>6, <3>7, ScheduledWorld, ScheduledStores
    <3>. HIDE DEF v
    <3>9. v.infos[a] = q
      BY <1>1, <3>8
    <3>10. Grown(w, v)
      <4>1. Timer(time, "downgrade", a).handler = "downgrade" /\ Timer(time, "downgrade", a).time = time
        BY DEF Timer
      <4>. QED  BY <3>2, <3>8, <4>1 DEF Grown
    <3>. QED  BY <2>2, <3>1, <3>3, <3>4, <3>5, <3>8, <3>9, <3>10 DEF Judges, f
  <2>4. CASE r.downgradeAt # NoTime
    <3> DEFINE v == Update(w, a, r)
    <3>1. Check(w, a, r) = v
      BY <1>4, <2>4 DEF Check
    <3>2. /\ v \in Worlds /\ ~v.broken /\ v.infos = [w.infos EXCEPT ![a] = r]
          /\ v.tasks = w.tasks /\ v.index = w.index
      BY UpdateWorld, UpdateStores
    <3>. HIDE DEF v
    <3>3. v.infos[a] = r
      BY <1>1, <3>2
    <3>4. Judged(a, r, r, v.tasks)
      BY <1>1, <2>1, JudgedSame
    <3>5. Grown(w, v)
      BY <3>2 DEF Grown
    <3>. QED  BY <2>2, <3>1, <3>2, <3>3, <3>4, <3>5 DEF Judges, f
  <2>. QED  BY <2>3, <2>4
<1>. QED  BY <1>3, <1>4

LEMMA CheckedJudges ==
    ASSUME now \in Nat, NEW w \in Worlds, NEW a \in Accounts, NEW r \in Records,
           ~Checked(w, a, r).broken
    PROVE  ~w.broken /\ Judges(w, Checked(w, a, r), a, r)
<1>1. [w EXCEPT !.broken = TRUE].broken
  BY DEF Worlds
<1>2. ~w.broken /\ Checked(w, a, r) = Check(w, a, r)
  BY <1>1 DEF Checked
<1>. QED  BY <1>2, CheckJudges

-----------------------------------------------------------------------------
(* Climbs.                                                                 *)

\* The record of the ancestor at level k of a chain, with what it gains.
Gained(v, s, link, gain, k) ==
    Adjust(IF k = 1 THEN Linked(v.infos[s[k]], link) ELSE v.infos[s[k]], gain[k])

\* The worlds of a climb, level by level.
Steps(after, check, w, s, link, gain) ==
    /\ after[0] = w
    /\ \A k \in 1..Len(s) :
         after[k] = Written(check, after[k - 1], s[k], Gained(after[k - 1], s, link, gain, k))

\* q says what r says, but for the lists and the sums.
SameTerms(r, q) ==
    /\ q.status = r.status /\ q.referrer = r.referrer /\ q.active = r.active
    /\ q.banished = r.banished /\ q.transition = r.transition
    /\ q.compressionAt = r.compressionAt /\ q.banishmentAt = r.banishmentAt
    /\ q.downgradeAt = r.downgradeAt

LEMMA WorldParents ==
    ASSUME NEW w \in Worlds
    PROVE  w.infos \in [Accounts -> Records] /\ HasParents(w.infos)
<1>1. w.infos \in [Accounts -> Records]
  BY WorldFields
<1>2. ASSUME NEW c \in Accounts PROVE w.infos[c].referrer \in Parents
  BY <1>1, InfoFields DEF Records
<1>. QED  BY <1>1, <1>2 DEF HasParents

LEMMA ChainFields ==
    ASSUME NEW f, HasParents(f), NEW p \in Parents, NEW n \in 1..Depth
    PROVE  LET s == Ancestors(f, p, n)
           IN  /\ IsChain(f, p, n, s) /\ n \in Nat
               /\ Len(s) \in Nat /\ Len(s) <= Depth /\ Len(s) <= n
               /\ s \in [1..Len(s) -> Accounts]
               /\ (Len(s) = 0 => p = None) /\ (Len(s) # 0 => s[1] = p)
<1> DEFINE s == Ancestors(f, p, n)
<1>0. n \in Nat /\ n >= 1 /\ n <= Depth /\ Depth \in Nat
  BY Constants
<1>1. IsChain(f, p, n, s)
  BY <1>0, AncestorsValue
<1>. HIDE DEF s
<1>2. s \in Seq(Accounts) /\ Len(s) <= n
  BY <1>1 DEF IsChain
<1>3. (s = <<>> => p = None) /\ (s # <<>> => s[1] = p)
  BY <1>0, <1>1 DEF IsChain
<1>4. s = <<>> <=> Len(s) = 0
  BY <1>2
<1>5. Len(s) \in Nat /\ s \in [1..Len(s) -> Accounts]
  BY <1>2
<1>. QED  BY <1>0, <1>1, <1>2, <1>3, <1>4, <1>5 DEF s

LEMMA GainedRecord ==
    ASSUME NEW v \in Worlds, NEW s, NEW link \in Links, NEW gain \in Gains, NEW k \in 1..Depth,
           s[k] \in Accounts
    PROVE  /\ Gained(v, s, link, gain, k) \in Records
           /\ SameTerms(v.infos[s[k]], Gained(v, s, link, gain, k))
           /\ gain[k] \in LineSums
<1> DEFINE r == v.infos[s[k]]
           d == gain[k]
           g == Gained(v, s, link, gain, k)
<1>1. r \in Records
  BY WorldFields
<1>2. d \in LineSums
  BY DEF Gains
<1>3. g = Adjust(IF k = 1 THEN Linked(r, link) ELSE r, d)
  BY DEF Gained
<1>. HIDE DEF r, d, g
<1>4. Linked(r, link) \in Records /\ SameTerms(r, Linked(r, link))
  BY <1>1, LinkedRecord DEF Linked, SameTerms, Records, Info
<1>5. ASSUME NEW q \in Records, SameTerms(r, q)
      PROVE  Adjust(q, d) \in Records /\ SameTerms(r, Adjust(q, d))
  <2>1. Adjust(q, d) \in Records /\ Adjust(q, d) = [q EXCEPT !.lines = Adjust(q, d).lines]
    BY <1>2, AdjustRecord
  <2> DEFINE l == Adjust(q, d).lines
             u == Adjust(q, d)
  <2>2. u = [q EXCEPT !.lines = l] /\ q \in Info
    BY <2>1 DEF Records
  <2>. HIDE DEF l, u
  <2>3. SameTerms(r, u)
    BY <1>5, <2>2 DEF SameTerms, Info
  <2>. QED  BY <2>1, <2>3 DEF u
<1>6. SameTerms(r, r)
  BY DEF SameTerms
<1>7. g \in Records /\ SameTerms(r, g)
  BY <1>1, <1>3, <1>4, <1>5, <1>6
<1>. QED  BY <1>2, <1>7 DEF r, d, g

(***************************************************************************)
(* A climb is its steps.                                                   *)
(***************************************************************************)
LEMMA ClimbSteps ==
    ASSUME now \in Nat, NEW w \in Worlds, NEW p \in Parents, NEW n \in 1..Depth,
           NEW link \in Links, NEW gain \in Gains, NEW check \in BOOLEAN
    PROVE  LET s == Ancestors(w.infos, p, n)
           IN  \E after : /\ Steps(after, check, w, s, link, gain)
                          /\ \A k \in 0..Len(s) : after[k] \in Worlds
                          /\ ClimbIf(check, w, p, n, link, gain) = after[Len(s)]
<1> DEFINE s == Ancestors(w.infos, p, n)
           L == Len(s)
           V == Worlds
           step(k, v) == Written(check, v, s[k], Gained(v, s, link, gain, k))
           F == [x \in (1..L) \X V |-> step(x[1], x[2])]
           Def(g) == g = [k \in 0..L |-> IF k = 0 THEN w ELSE step(k, g[k - 1])]
           after == CHOOSE g : Def(g)
<1>1. HasParents(w.infos)
  BY WorldParents
<1>2. /\ L \in Nat /\ L <= Depth /\ s \in [1..L -> Accounts] /\ Depth \in Nat
  BY <1>1, ChainFields, Constants
<1>3. ClimbIf(check, w, p, n, link, gain) = after[L]
  BY DEF ClimbIf, Gained
<1>. HIDE DEF s, L
<1>4. ASSUME NEW k \in 1..L, NEW v \in Worlds
      PROVE  step(k, v) \in Worlds
  <2>1. k \in 1..Depth /\ s[k] \in Accounts
    BY <1>2
  <2>2. Gained(v, s, link, gain, k) \in Records
    BY <2>1, GainedRecord
  <2> DEFINE r == Gained(v, s, link, gain, k)
  <2>. HIDE DEF r
  <2>3. LET u == Written(check, v, s[k], r) IN Writes(v, u, s[k], r)
    BY <2>1, <2>2, WrittenWrites DEF r
  <2>. QED  BY <2>3 DEF Writes, r
<1>. HIDE DEF step
<1>5. F \in [(1..L) \X V -> V]
  <2>1. ASSUME NEW x \in (1..L) \X V PROVE step(x[1], x[2]) \in V
    <3>1. x[1] \in 1..L /\ x[2] \in Worlds
      OBVIOUS
    <3>. QED  BY <3>1, <1>4
  <2>. HIDE DEF V
  <2>. QED  BY <2>1
<1>6. ASSUME NEW g \in [0..L -> V], Recursion(g, L, w, F) PROVE Def(g)
  <2>. HIDE DEF V
  <2>1. ASSUME NEW k \in 0..L
        PROVE  g[k] = IF k = 0 THEN w ELSE step(k, g[k - 1])
    <3>1. g[k] = IF k = 0 THEN w ELSE F[<<k, g[k - 1]>>]
      BY <1>6 DEF Recursion
    <3>2. CASE k # 0
      <4>1. k \in 1..L /\ k - 1 \in 0..L
        BY <1>2, <3>2
      <4>. QED  BY <3>1, <4>1
    <3>. QED  BY <3>1, <3>2
  <2>. QED  BY <2>1
<1>7. Def(after)
  <2>1. PICK g \in [0..L -> V] : Recursion(g, L, w, F)
    <3>. HIDE DEF F
    <3>. QED  BY <1>2, <1>5, RecursionExists
  <2>2. \E h : Def(h)
    BY <1>6, <2>1
  <2>. HIDE DEF Def
  <2>. QED  BY <2>2
<1>. HIDE DEF after
<1>8. after[0] = w /\ \A k \in 1..L : after[k] = step(k, after[k - 1])
  BY <1>2, <1>7
<1> DEFINE A == {k \in 0..L : after[k] \in Worlds}
<1>9. 0 \in A
  BY <1>2, <1>8
<1>10. ASSUME NEW k \in 1..L, k - 1 \in A PROVE k \in A
  <2>1. after[k] \in Worlds
    BY <1>4, <1>8, <1>10
  <2>. QED  BY <1>2, <2>1
<1>. HIDE DEF A
<1>11. \A k \in 0..L : k \in A
  BY <1>2, <1>9, <1>10, UpTo
<1>12. \A k \in 0..L : after[k] \in Worlds
  BY <1>11 DEF A
<1>13. Steps(after, check, w, s, link, gain)
  BY <1>8 DEF Steps, step, L
<1>. QED  BY <1>3, <1>12, <1>13 DEF s, L

\* What the ancestors gain when a is compressed.
Risings(r) ==
    [k \in 1..Depth |-> [f \in Sums |-> [i \in Lines |-> Popped(r.lines[f], k, i)]]]
Promotions(r) == [NoLink EXCEPT !.join = r.referrals, !.rise = r.activeReferrals]

LEMMA RisingsGains ==
    ASSUME NEW r \in Records
    PROVE  Risings(r) \in Gains /\ Promotions(r) \in Links
<1> DEFINE gain == Risings(r)
<1>1. ASSUME NEW k \in 1..Depth, NEW l \in Sums, NEW j \in Lines
      PROVE  Popped(r.lines[l], k, j) \in Int /\ (j = 0 => Popped(r.lines[l], k, j) = 0)
  <2> DEFINE u == r.lines[l]
  <2>1. u \in [Lines -> Int]
    BY InfoFields DEF Records, LineSums
  <2>. HIDE DEF u
  <2>2. 1 \in Lines
    BY Constants DEF Lines
  <2>3. j > k /\ j < Depth => j - k + 1 \in Lines /\ j - k \in Lines
    BY Constants DEF Lines
  <2>4. Popped(u, k, j) \in Int
    BY <2>1, <2>2, <2>3 DEF Popped
  <2>5. j = 0 => Popped(u, k, j) = 0
    BY Constants DEF Popped
  <2>. QED  BY <2>4, <2>5 DEF u
<1>2. ASSUME NEW k \in 1..Depth PROVE gain[k] \in LineSums
  BY <1>1 DEF LineSums, Risings
<1>3. ASSUME NEW k \in 1..Depth PROVE gain[k]["coins"][0] = 0 /\ gain[k]["delegated"][0] = 0
  <2>1. 0 \in Lines /\ "coins" \in Sums /\ "delegated" \in Sums
    BY Constants DEF Sums
  <2>. QED  BY <1>1, <2>1 DEF Risings
<1>4. gain = [k \in 1..Depth |-> gain[k]]
  BY DEF Risings
<1>5. Promotions(r) \in Links
  <2>1. r.referrals \in SUBSET Accounts /\ r.activeReferrals \in SUBSET Accounts
    BY InfoFields DEF Records
  <2>. QED  BY <2>1 DEF Promotions, NoLink, Links
<1>. HIDE DEF gain
<1>. QED  BY <1>2, <1>3, <1>4, <1>5 DEF Gains, gain

-----------------------------------------------------------------------------
(* Sums over lines.                                                        *)

\* Counters agree up to the width of their type, coins exactly.
Eqv(s, x, y) ==
    IF s = "counts" THEN \E k \in Int : x = y + k * CountLimit ELSE x = y

LEMMA EqvReflexive == ASSUME NEW s, NEW x \in Int PROVE Eqv(s, x, x)
<1>1. CountLimit \in Int
  BY Constants
<1>2. 0 \in Int /\ x = x + 0 * CountLimit
  BY <1>1
<1>. QED  BY <1>2 DEF Eqv

\* Sums of equal sums are equal.
LEMMA EqvPlus ==
    ASSUME NEW s, NEW x \in Int, NEW y \in Int, NEW z \in Int, NEW t \in Int,
           Eqv(s, x, y), Eqv(s, z, t)
    PROVE  Eqv(s, x + z, y + t) /\ Eqv(s, x - z, y - t)
<1>1. CASE s = "counts"
  <2>1. PICK k \in Int : x = y + k * CountLimit
    BY <1>1 DEF Eqv
  <2>2. PICK m \in Int : z = t + m * CountLimit
    BY <1>1 DEF Eqv
  <2>3. CountLimit \in Int
    BY Constants
  <2>4. k + m \in Int /\ k - m \in Int
    OBVIOUS
  <2>5. x + z = y + t + (k + m) * CountLimit /\ x - z = y - t + (k - m) * CountLimit
    BY <2>1, <2>2, <2>3
  <2>. QED  BY <1>1, <2>4, <2>5 DEF Eqv
<1>2. CASE s # "counts"
  BY <1>2 DEF Eqv
<1>. QED  BY <1>1, <1>2

LEMMA EqvTransitive ==
    ASSUME NEW s, NEW x \in Int, NEW y \in Int, NEW z \in Int, Eqv(s, x, y), Eqv(s, y, z)
    PROVE  Eqv(s, x, z)
<1>1. Eqv(s, x + y, y + z)
  BY EqvPlus
<1>2. Eqv(s, y, y)
  BY EqvReflexive
<1>3. Eqv(s, (x + y) - y, (y + z) - y)
  <2> DEFINE u == x + y
             v == y + z
  <2>1. u \in Int /\ v \in Int
    OBVIOUS
  <2>. HIDE DEF u, v
  <2>. QED  BY <1>1, <1>2, <2>1, EqvPlus DEF u, v
<1>4. (x + y) - y = x /\ (y + z) - y = z
  OBVIOUS
<1>. QED  BY <1>3, <1>4

LEMMA EqvSymmetric ==
    ASSUME NEW s, NEW x \in Int, NEW y \in Int, Eqv(s, x, y) PROVE Eqv(s, y, x)
<1>4. CASE s = "counts"
  <2>1. PICK k \in Int : x = y + k * CountLimit
    BY <1>4 DEF Eqv
  <2>2. CountLimit \in Int /\ -k \in Int
    BY Constants
  <2>3. y = x + (-k) * CountLimit
    BY <2>1, <2>2
  <2>. QED  BY <1>4, <2>2, <2>3 DEF Eqv
<1>5. CASE s # "counts"
  BY <1>5 DEF Eqv
<1>. QED  BY <1>4, <1>5

\* What is stored of x.
LEMMA EqvStored ==
    ASSUME NEW s, NEW x \in Int
    PROVE  /\ Stored(s, x) \in Int /\ Eqv(s, Stored(s, x), x)
           /\ s = "counts" => Stored(s, x) \in 0..(CountLimit - 1)
<1>1. CASE s = "counts"
  <2>1. CountLimit \in Positive /\ CountLimit \in Int
    BY Constants DEF Positive
  <2> DEFINE q == x \div CountLimit
             m == x % CountLimit
  <2>2. x = CountLimit * q + m /\ q \in Int /\ m \in Int /\ 0 <= m /\ m < CountLimit
    BY <2>1, DivMod
  <2>3. Stored(s, x) = m
    BY <1>1 DEF Stored
  <2>. HIDE DEF q, m
  <2>4. m = x + (-q) * CountLimit /\ -q \in Int
    BY <2>1, <2>2
  <2>5. m \in 0..(CountLimit - 1)
    BY <2>1, <2>2
  <2>. QED  BY <1>1, <2>2, <2>3, <2>4, <2>5 DEF Eqv
<1>2. CASE s # "counts"
  BY <1>2 DEF Stored, Eqv
<1>. QED  BY <1>1, <1>2

\* Numbers in range that agree are equal.
LEMMA EqvInRange ==
    ASSUME NEW s, NEW x \in Int, NEW y \in Int, Eqv(s, x, y),
           s = "counts" => x \in 0..(CountLimit - 1) /\ y \in 0..(CountLimit - 1)
    PROVE  x = y
<1>1. CASE s = "counts"
  <2>1. PICK k \in Int : x = y + k * CountLimit
    BY <1>1 DEF Eqv
  <2>2. CountLimit \in Int /\ CountLimit >= 1
    BY Constants
  <2>3. CASE k >= 1
    <3>1. k * CountLimit >= CountLimit
      BY <2>2, <2>3
    <3>. QED  BY <1>1, <2>1, <2>2, <3>1
  <2>4. CASE k <= -1
    <3>1. k * CountLimit <= -CountLimit
      <4>1. (-k) * CountLimit >= CountLimit
        BY <2>2, <2>4
      <4>2. (-k) * CountLimit = -(k * CountLimit)
        BY <2>2
      <4>. QED  BY <2>2, <4>1, <4>2
    <3>. QED  BY <1>1, <2>1, <2>2, <3>1
  <2>5. CASE k = 0
    BY <2>1, <2>2, <2>5
  <2>. QED  BY <2>3, <2>4, <2>5
<1>2. CASE s # "counts"
  BY <1>2 DEF Eqv
<1>. QED  BY <1>1, <1>2

\* And so is what is summed over a set.
LEMMA EqvSum ==
    ASSUME NEW s, NEW S, IsFiniteSet(S), NEW f, NEW e,
           \A x \in S : f[x] \in Int /\ e[x] \in Int /\ Eqv(s, f[x], e[x])
    PROVE  Eqv(s, SumOver(f, S), SumOver(e, S))
<1> DEFINE A == {T \in SUBSET S : Eqv(s, SumOver(f, T), SumOver(e, T))}
<1>1. {} \in A
  <2>1. SumOver(f, {}) = 0 /\ SumOver(e, {}) = 0
    BY SumEmpty
  <2>. QED  BY <2>1, EqvReflexive
<1>2. ASSUME NEW T \in SUBSET S, NEW x \in S \ T, T \in A PROVE T \cup {x} \in A
  <2>1. IsFiniteSet(T)
    BY FS_Subset
  <2>2. SumOver(f, T) \in Int /\ SumOver(e, T) \in Int
    BY <2>1, SumType
  <2>3. SumOver(f, T \cup {x}) = SumOver(f, T) + f[x]
    BY <2>1, SumAdd
  <2>4. SumOver(e, T \cup {x}) = SumOver(e, T) + e[x]
    BY <2>1, SumAdd
  <2>5. Eqv(s, SumOver(f, T), SumOver(e, T)) /\ Eqv(s, f[x], e[x]) /\ f[x] \in Int /\ e[x] \in Int
    BY <1>2
  <2>6. Eqv(s, SumOver(f, T) + f[x], SumOver(e, T) + e[x])
    BY <2>2, <2>5, EqvPlus
  <2>. QED  BY <2>3, <2>4, <2>6
<1>3. S \in A
  <2>. HIDE DEF A
  <2>. QED  BY <1>1, <1>2, ElementByElement
<1>. QED  BY <1>3

LEMMA SumZero ==
    ASSUME NEW S, IsFiniteSet(S), NEW f, \A x \in S : f[x] = 0
    PROVE  SumOver(f, S) = 0
<1> DEFINE A == {T \in SUBSET S : SumOver(f, T) = 0}
<1>1. {} \in A
  BY SumEmpty
<1>2. ASSUME NEW T \in SUBSET S, NEW x \in S \ T, T \in A PROVE T \cup {x} \in A
  <2>1. IsFiniteSet(T)
    BY FS_Subset
  <2>2. SumOver(f, T \cup {x}) = SumOver(f, T) + f[x]
    BY <2>1, SumAdd
  <2>. QED  BY <1>2, <2>2
<1>3. S \in A
  <2>. HIDE DEF A
  <2>. QED  BY <1>1, <1>2, ElementByElement
<1>. QED  BY <1>3

\* A sum of ones and zeros.
LEMMA SumOfFlags ==
    ASSUME NEW S, IsFiniteSet(S), NEW f, \A x \in S : f[x] \in 0..1
    PROVE  SumOver(f, S) \in 0..Cardinality(S)
<1>0. \A x \in S : f[x] \in Int
  OBVIOUS
<1> DEFINE A == {T \in SUBSET S : SumOver(f, T) \in 0..Cardinality(T)}
<1>1. {} \in A
  BY SumEmpty, FS_EmptySet
<1>2. ASSUME NEW T \in SUBSET S, NEW x \in S \ T, T \in A PROVE T \cup {x} \in A
  <2>1. IsFiniteSet(T)
    BY FS_Subset
  <2>2. SumOver(f, T \cup {x}) = SumOver(f, T) + f[x]
    BY <1>0, <2>1, SumAdd
  <2>3. Cardinality(T \cup {x}) = Cardinality(T) + 1 /\ Cardinality(T) \in Nat
    BY <1>2, <2>1, FS_AddElement, FS_CardinalityType
  <2>. QED  BY <1>2, <2>2, <2>3
<1>3. S \in A
  <2>. HIDE DEF A
  <2>. QED  BY <1>1, <1>2, ElementByElement
<1>. QED  BY <1>3

(***************************************************************************)
(* The sum over a union of disjoint sets is the sum of their sums.         *)
(***************************************************************************)
LEMMA SumFamily ==
    ASSUME NEW K, IsFiniteSet(K), NEW S, IsFiniteSet(S), NEW team, NEW f, NEW e,
           \A c \in K : team[c] \subseteq S /\ e[c] = SumOver(f, team[c]),
           \A c, d \in K : c # d => team[c] \cap team[d] = {},
           \A x \in S : f[x] \in Int
    PROVE  SumOver(f, UNION {team[c] : c \in K}) = SumOver(e, K)
<1> DEFINE U(T) == UNION {team[c] : c \in T}
           A == {T \in SUBSET K : SumOver(f, U(T)) = SumOver(e, T)}
<1>1. {} \in A
  <2>1. U({}) = {}
    OBVIOUS
  <2>. QED  BY <2>1, SumEmpty
<1>2. ASSUME NEW T \in SUBSET K, NEW x \in K \ T, T \in A PROVE T \cup {x} \in A
  <2>1. IsFiniteSet(T) /\ U(T) \subseteq S /\ team[x] \subseteq S
    BY FS_Subset
  <2>2. IsFiniteSet(U(T)) /\ IsFiniteSet(team[x])
    BY <2>1, FS_Subset
  <2>3. U(T \cup {x}) = U(T) \cup team[x] /\ U(T) \cap team[x] = {}
    OBVIOUS
  <2>4. SumOver(f, U(T \cup {x})) = SumOver(f, U(T)) + SumOver(f, team[x])
    <3> DEFINE P == U(T)
               Q == team[x]
    <3>1. \A y \in P \cup Q : f[y] \in Int
      BY <2>1
    <3>2. IsFiniteSet(P) /\ IsFiniteSet(Q) /\ P \cap Q = {}
      BY <2>2, <2>3
    <3>. HIDE DEF P, Q
    <3>3. SumOver(f, P \cup Q) = SumOver(f, P) + SumOver(f, Q)
      BY <3>1, <3>2, SumUnion
    <3>. HIDE DEF U
    <3>. QED  BY <2>3, <3>3 DEF P, Q
  <2>5. \A c \in T \cup {x} : e[c] \in Int
    <3>1. ASSUME NEW c \in K PROVE SumOver(f, team[c]) \in Int
      <4>1. IsFiniteSet(team[c]) /\ \A y \in team[c] : f[y] \in Int
        BY FS_Subset
      <4>. QED  BY <4>1, SumType
    <3>. QED  BY <3>1
  <2>6. SumOver(e, T \cup {x}) = SumOver(e, T) + e[x]
    <3>. HIDE DEF U, A
    <3>. QED  BY <2>1, <2>5, SumAdd
  <2>7. SumOver(f, U(T)) = SumOver(e, T) /\ e[x] = SumOver(f, team[x])
    BY <1>2
  <2>8. SumOver(f, U(T \cup {x})) = SumOver(e, T \cup {x})
    <3>. HIDE DEF U, A
    <3>. QED  BY <2>4, <2>6, <2>7
  <2>. QED  BY <2>8
<1>3. K \in A
  <2>. HIDE DEF A
  <2>. QED  BY <1>1, <1>2, ElementByElement
<1>. QED  BY <1>3

\* The lines that are kept exactly, but for the account's own.
Inner == 1..(Depth - 1)

\* The referrals of c, and line i of everyone.
Kids(f, c) == {b \in Accounts : ~f[b].banished /\ f[b].referrer = c}
LineAt(f, s, i) == [b \in Accounts |-> f[b].lines[s][i]]

\* What the referrals of c have in line i - 1, it should have in line i.
Below(f, c, s, i) == SumOver(LineAt(f, s, i - 1), Kids(f, c))

\* Every inner line of everyone is the sum over his referrals, one line closer.
Fit(f) ==
    \A c \in Accounts, s \in Sums, i \in Inner : Eqv(s, f[c].lines[s][i], Below(f, c, s, i))

\* The lines of p lack d.
FitBut(f, p, d) ==
    \A c \in Accounts, s \in Sums, i \in Inner :
      Eqv(s, f[c].lines[s][i] + (IF c = p THEN d[s][i] ELSE 0), Below(f, c, s, i))

\* A path upwards from p, to the top or as long as lines are counted.
Path(f, p, chain) ==
    /\ chain \in Seq(Accounts) /\ Len(chain) <= Depth
    /\ p # None => chain # <<>> /\ chain[1] = p
    /\ p = None => chain = <<>>
    /\ \A k \in 1..(Len(chain) - 1) : f[chain[k]].referrer = chain[k + 1]
    /\ chain # <<>> /\ Len(chain) < Depth => f[chain[Len(chain)]].referrer = None
    /\ \A k, m \in 1..Len(chain) : chain[k] = chain[m] => k = m
    /\ \A k \in 1..Len(chain) : ~f[chain[k]].banished

\* What comes to an ancestor comes to the next one a line further.
Shifts(gain) ==
    /\ gain \in [1..Depth -> LineSums]
    /\ \A s \in Sums, k \in 1..Depth, i \in 0..(Depth - 1) : i < k => gain[k][s][i] = 0
    /\ \A s \in Sums, k \in 1..(Depth - 1), i \in Inner : gain[k + 1][s][i] = gain[k][s][i - 1]

\* The tree is the same.
SamePlaces(f, g) ==
    \A c \in Accounts : g[c].referrer = f[c].referrer /\ g[c].banished = f[c].banished

\* In g the accounts of the path have gained, and nobody else.
LinesGained(f, g, chain, gain) ==
    \A s \in Sums, i \in Lines :
      /\ \A k \in 1..Len(chain) :
           Eqv(s, g[chain[k]].lines[s][i], f[chain[k]].lines[s][i] + gain[k][s][i])
      /\ \A c \in Accounts \ Range(chain) : Eqv(s, g[c].lines[s][i], f[c].lines[s][i])

LEMMA LineFields ==
    ASSUME NEW f \in [Accounts -> Records], NEW c \in Accounts, NEW s \in Sums, NEW i \in Lines
    PROVE  f[c].lines[s][i] \in Int /\ LineAt(f, s, i)[c] = f[c].lines[s][i]
BY InfoFields DEF Records, LineSums, LineAt

LEMMA KidsFinite == ASSUME NEW f, NEW c PROVE IsFiniteSet(Kids(f, c)) /\ Kids(f, c) \subseteq Accounts
BY ReferralAssumption, FS_Subset DEF Kids

LEMMA BelowType ==
    ASSUME NEW f \in [Accounts -> Records], NEW c, NEW s \in Sums, NEW i \in Inner
    PROVE  Below(f, c, s, i) \in Int /\ i - 1 \in Lines /\ i \in Lines
<1>1. i - 1 \in Lines /\ i \in Lines
  BY Constants DEF Inner, Lines
<1>2. \A x \in Kids(f, c) : LineAt(f, s, i - 1)[x] \in Int
  BY <1>1, LineFields, KidsFinite
<1>. QED  BY <1>1, <1>2, KidsFinite, SumType DEF Below

\* Lines that agree have sums that agree.
LEMMA BelowAgree ==
    ASSUME NEW f \in [Accounts -> Records], NEW g \in [Accounts -> Records],
           NEW c, NEW s \in Sums, NEW i \in Inner, Kids(f, c) = Kids(g, c),
           \A x \in Kids(f, c) : Eqv(s, g[x].lines[s][i - 1], f[x].lines[s][i - 1])
    PROVE  Eqv(s, Below(g, c, s, i), Below(f, c, s, i))
<1> DEFINE G == LineAt(g, s, i - 1)
           F == LineAt(f, s, i - 1)
           K == Kids(f, c)
<1>1. i - 1 \in Lines
  BY BelowType
<1>2. \A x \in K : G[x] \in Int /\ F[x] \in Int /\ Eqv(s, G[x], F[x])
  BY <1>1, LineFields, KidsFinite
<1>3. Below(g, c, s, i) = SumOver(G, K) /\ Below(f, c, s, i) = SumOver(F, K) /\ IsFiniteSet(K)
  BY KidsFinite DEF Below
<1>. HIDE DEF G, F, K
<1>. QED  BY <1>2, <1>3, EqvSum

\* One referral's line has changed by d.
LEMMA BelowChange ==
    ASSUME NEW f \in [Accounts -> Records], NEW g \in [Accounts -> Records],
           NEW c, NEW s \in Sums, NEW i \in Inner, Kids(f, c) = Kids(g, c),
           NEW b \in Kids(f, c), NEW d \in Int,
           \A x \in Kids(f, c) \ {b} : Eqv(s, g[x].lines[s][i - 1], f[x].lines[s][i - 1]),
           Eqv(s, g[b].lines[s][i - 1], f[b].lines[s][i - 1] + d)
    PROVE  Eqv(s, Below(g, c, s, i), Below(f, c, s, i) + d)
<1> DEFINE G == LineAt(g, s, i - 1)
           F == LineAt(f, s, i - 1)
           K == Kids(f, c)
           H == [x \in Accounts |-> IF x = b THEN F[x] + d ELSE F[x]]
<1>1. i - 1 \in Lines /\ K \subseteq Accounts /\ b \in K /\ IsFiniteSet(K)
  BY BelowType, KidsFinite
<1>2. \A x \in K : /\ G[x] \in Int /\ F[x] \in Int
                   /\ G[x] = g[x].lines[s][i - 1] /\ F[x] = f[x].lines[s][i - 1]
  BY <1>1, LineFields
<1>3. Below(g, c, s, i) = SumOver(G, K) /\ Below(f, c, s, i) = SumOver(F, K)
  BY DEF Below
<1>4. \A x \in K : H[x] = IF x = b THEN F[x] + d ELSE F[x]
  BY <1>1
<1>. HIDE DEF G, F, K, H
<1>5. \A x \in K : G[x] \in Int /\ H[x] \in Int /\ Eqv(s, G[x], H[x])
  BY <1>2, <1>4 DEF K
<1>6. Eqv(s, SumOver(G, K), SumOver(H, K))
  BY <1>1, <1>5, EqvSum
<1>7. SumOver(H, K) = SumOver(F, K) + H[b] - F[b]
  <2>1. \A x \in K : x # b => H[x] = F[x]
    BY <1>4
  <2>. QED  BY <1>1, <1>2, <1>5, <2>1, SumChange
<1>8. H[b] = F[b] + d /\ F[b] \in Int /\ SumOver(F, K) \in Int
  BY <1>1, <1>2, <1>4, SumType
<1>9. SumOver(H, K) = SumOver(F, K) + d
  BY <1>7, <1>8
<1>. QED  BY <1>3, <1>6, <1>9

\* A referral of c that is not the account before c on the path keeps what counts.
LEMMA KidUnmoved ==
    ASSUME NEW f \in [Accounts -> Records], NEW g \in [Accounts -> Records],
           NEW p, NEW chain, NEW gain, Path(f, p, chain), Shifts(gain),
           LinesGained(f, g, chain, gain),
           NEW c \in Accounts, NEW s \in Sums, NEW i \in Inner, NEW x \in Kids(f, c),
           \A k \in 2..Len(chain) : chain[k] = c => chain[k - 1] # x
    PROVE  Eqv(s, g[x].lines[s][i - 1], f[x].lines[s][i - 1])
<1>1. i - 1 \in Lines /\ x \in Accounts /\ f[x].referrer = c /\ i - 1 \in 0..(Depth - 1)
  <2>1. i - 1 \in Lines
    BY BelowType
  <2>2. x \in Accounts /\ f[x].referrer = c
    BY DEF Kids
  <2>3. i - 1 \in 0..(Depth - 1)
    BY Constants DEF Inner
  <2>. QED  BY <2>1, <2>2, <2>3
<1>2. Len(chain) \in Nat /\ chain \in Seq(Accounts) /\ Range(chain) = {chain[k] : k \in 1..Len(chain)}
  <2>1. chain \in Seq(Accounts)
    BY DEF Path
  <2>. QED  BY <2>1 DEF Range
<1>3. CASE x \notin Range(chain)
  BY <1>1, <1>3 DEF LinesGained
<1>4. CASE x \in Range(chain)
  <2>1. PICK m \in 1..Len(chain) : x = chain[m]
    BY <1>2, <1>4
  <2>2. m = Len(chain)
    <3>1. ASSUME m # Len(chain) PROVE FALSE
      <4>1. m \in 1..(Len(chain) - 1) /\ m + 1 \in 2..Len(chain) /\ (m + 1) - 1 = m
        BY <1>2, <3>1
      <4>2. chain[m + 1] = c
        BY <1>1, <2>1, <4>1 DEF Path
      <4>. QED  BY <2>1, <4>1, <4>2
    <3>. QED  BY <3>1
  <2>3. Len(chain) = Depth
    <3>1. chain # <<>>
      BY <1>2, <2>1
    <3>2. f[x].referrer # None
      BY <1>1, Constants
    <3>3. Len(chain) <= Depth /\ ~(Len(chain) < Depth)
      BY <2>1, <2>2, <3>1, <3>2 DEF Path
    <3>. QED  BY <1>2, <3>3, Constants
  <2>4. gain[m][s][i - 1] = 0
    <3>1. m \in 1..Depth /\ i - 1 < m
      BY <1>1, <2>1, <2>2, <2>3, Constants
    <3>. QED  BY <1>1, <3>1 DEF Shifts
  <2>5. Eqv(s, g[x].lines[s][i - 1], f[x].lines[s][i - 1] + 0)
    BY <1>1, <2>1, <2>4 DEF LinesGained
  <2>6. f[x].lines[s][i - 1] + 0 = f[x].lines[s][i - 1]
    BY <1>1, LineFields
  <2>. QED  BY <2>5, <2>6
<1>. QED  BY <1>3, <1>4

(***************************************************************************)
(* What the lines of p lack is made up by a gain along the path from p.    *)
(***************************************************************************)
LEMMA ChainFits ==
    ASSUME NEW f \in [Accounts -> Records], NEW g \in [Accounts -> Records],
           NEW p, NEW chain, NEW gain, Path(f, p, chain), Shifts(gain),
           SamePlaces(f, g), LinesGained(f, g, chain, gain), FitBut(f, p, gain[1])
    PROVE  Fit(g)
<1>. SUFFICES ASSUME NEW c \in Accounts, NEW s \in Sums, NEW i \in Inner
              PROVE  Eqv(s, g[c].lines[s][i], Below(g, c, s, i))
  BY DEF Fit
<1>1. /\ Kids(f, c) = Kids(g, c) /\ i \in Lines /\ i - 1 \in Lines
      /\ Below(f, c, s, i) \in Int /\ Below(g, c, s, i) \in Int
      /\ f[c].lines[s][i] \in Int /\ g[c].lines[s][i] \in Int
  BY BelowType, LineFields DEF Kids, SamePlaces
<1>2. Len(chain) \in Nat /\ chain \in Seq(Accounts) /\ Range(chain) = {chain[k] : k \in 1..Len(chain)}
  <2>1. chain \in Seq(Accounts)
    BY DEF Path
  <2>. QED  BY <2>1 DEF Range
<1>3. Eqv(s, f[c].lines[s][i] + (IF c = p THEN gain[1][s][i] ELSE 0), Below(f, c, s, i))
  BY DEF FitBut
<1>4. CASE \E k \in 2..Len(chain) : chain[k] = c
  <2>1. PICK k \in 2..Len(chain) : chain[k] = c
    BY <1>4
  <2>2. k \in 1..Len(chain) /\ k - 1 \in 1..(Len(chain) - 1) /\ (k - 1) + 1 = k
        /\ k - 1 \in 1..(Depth - 1) /\ k - 1 \in 1..Depth /\ k \in 1..Depth /\ 1 \in 1..Len(chain)
    BY <1>2, <2>1, Constants DEF Path
  <2> DEFINE b == chain[k - 1]
             d == gain[k - 1][s][i - 1]
  <2>3. b \in Kids(f, c)
    <3>1. b \in Accounts /\ f[b].referrer = c /\ ~f[b].banished
      BY <1>2, <2>1, <2>2 DEF Path
    <3>. QED  BY <3>1 DEF Kids
  <2>4. c # p
    <3>1. p # None
      BY <2>2 DEF Path
    <3>2. chain[1] = p /\ (chain[1] = chain[k] => 1 = k)
      BY <2>2, <3>1 DEF Path
    <3>. QED  BY <2>1, <3>2
  <2>5. gain[k][s][i] = d /\ d \in Int
    <3>1. d \in Int
      BY <1>1, <2>2 DEF Shifts, LineSums
    <3>2. gain[(k - 1) + 1][s][i] = d
      BY <2>2 DEF Shifts
    <3>. QED  BY <2>2, <3>1, <3>2
  <2>6. Eqv(s, g[c].lines[s][i], f[c].lines[s][i] + d)
    BY <1>1, <2>1, <2>2, <2>5 DEF LinesGained
  <2>7. Eqv(s, g[b].lines[s][i - 1], f[b].lines[s][i - 1] + d)
    <3>1. k - 1 \in 1..Len(chain)
      BY <1>2, <2>2
    <3>. QED  BY <1>1, <3>1 DEF LinesGained
  <2>8. \A x \in Kids(f, c) \ {b} : Eqv(s, g[x].lines[s][i - 1], f[x].lines[s][i - 1])
    <3>1. ASSUME NEW x \in Kids(f, c) \ {b}, NEW m \in 2..Len(chain), chain[m] = c
          PROVE  chain[m - 1] # x
      <4>1. m = k
        BY <2>1, <2>2, <3>1 DEF Path
      <4>. QED  BY <3>1, <4>1
    <3>. QED  BY <3>1, KidUnmoved
  <2>9. Eqv(s, Below(g, c, s, i), Below(f, c, s, i) + d)
    <3>. HIDE DEF b, d
    <3>. QED  BY <1>1, <2>3, <2>5, <2>7, <2>8, BelowChange
  <2>. HIDE DEF d
  <2>10. Eqv(s, f[c].lines[s][i] + d, Below(f, c, s, i) + d)
    <3>1. Eqv(s, f[c].lines[s][i] + 0, Below(f, c, s, i))
      BY <1>3, <2>4
    <3>2. f[c].lines[s][i] + 0 = f[c].lines[s][i] /\ Eqv(s, d, d)
      BY <1>1, <2>5, EqvReflexive
    <3>. QED  BY <1>1, <2>5, <3>1, <3>2, EqvPlus
  <2>11. f[c].lines[s][i] + d \in Int /\ Below(f, c, s, i) + d \in Int
    BY <1>1, <2>5
  <2>12. Eqv(s, g[c].lines[s][i], Below(f, c, s, i) + d)
    BY <1>1, <2>6, <2>10, <2>11, EqvTransitive
  <2>13. Eqv(s, Below(f, c, s, i) + d, Below(g, c, s, i))
    BY <1>1, <2>9, <2>11, EqvSymmetric
  <2>. QED  BY <1>1, <2>11, <2>12, <2>13, EqvTransitive
<1>5. CASE ~ \E k \in 2..Len(chain) : chain[k] = c
  <2> DEFINE d == IF c = p THEN gain[1][s][i] ELSE 0
  <2>1. Eqv(s, Below(g, c, s, i), Below(f, c, s, i))
    <3>1. \A x \in Kids(f, c) : Eqv(s, g[x].lines[s][i - 1], f[x].lines[s][i - 1])
      BY <1>5, KidUnmoved
    <3>. QED  BY <1>1, <3>1, BelowAgree
  <2>2. d \in Int
    BY <1>1, Constants DEF Shifts, LineSums
  <2>3. Eqv(s, g[c].lines[s][i], f[c].lines[s][i] + d)
    <3>1. CASE c = p
      <4>1. chain # <<>> /\ chain[1] = p
        BY <3>1, Constants DEF Path
      <4>2. 1 \in 1..Len(chain)
        BY <1>2, <4>1
      <4>. QED  BY <1>1, <3>1, <4>1, <4>2 DEF LinesGained
    <3>2. CASE c # p
      <4>1. c \notin Range(chain)
        <5>1. ASSUME NEW m \in 1..Len(chain), chain[m] = c PROVE FALSE
          <6>1. m = 1
            BY <1>2, <1>5, <5>1
          <6>2. p # None /\ chain[1] = p
            BY <5>1 DEF Path
          <6>. QED  BY <3>2, <5>1, <6>1, <6>2
        <5>. QED  BY <1>2, <5>1
      <4>2. Eqv(s, g[c].lines[s][i], f[c].lines[s][i])
        BY <1>1, <4>1 DEF LinesGained
      <4>3. d = 0 /\ f[c].lines[s][i] + 0 = f[c].lines[s][i]
        BY <1>1, <3>2
      <4>. QED  BY <4>2, <4>3
    <3>. QED  BY <3>1, <3>2
  <2>4. Eqv(s, f[c].lines[s][i] + d, Below(f, c, s, i))
    BY <1>3
  <2>. HIDE DEF d
  <2>5. f[c].lines[s][i] + d \in Int
    BY <1>1, <2>2
  <2>6. Eqv(s, g[c].lines[s][i], Below(f, c, s, i))
    BY <1>1, <2>3, <2>4, <2>5, EqvTransitive
  <2>7. Eqv(s, Below(f, c, s, i), Below(g, c, s, i))
    BY <1>1, <2>1, EqvSymmetric
  <2>. QED  BY <1>1, <2>6, <2>7, EqvTransitive
<1>. QED  BY <1>4, <1>5

\* Counters as they are stored; the account's own one says whether it is active.
Ranged(r) == \A i \in Lines : r.lines["counts"][i] \in 0..(CountLimit - 1)
Flag(r) == IF r.active THEN 1 ELSE 0
Counted(r) == Ranged(r) /\ r.lines["counts"][0] = Flag(r)

\* The account stays where it is, and as active.
SameSeat(r, q) ==
    q.referrer = r.referrer /\ q.banished = r.banished /\ q.active = r.active

\* The records f have become g, and their lines have gained.
Comes(f, g, gained) ==
    \A c \in Accounts :
      /\ SameSeat(f[c], g[c]) /\ (Ranged(f[c]) => Ranged(g[c]))
      /\ \A s \in Sums, i \in Lines :
           Eqv(s, g[c].lines[s][i], f[c].lines[s][i] + gained[c][s][i])

\* What a step of a climb makes of the lines of a record.
LEMMA AdjustLines ==
    ASSUME NEW r \in Records, NEW d \in LineSums
    PROVE  /\ Ranged(Adjust(r, d))
           /\ \A s \in Sums, i \in Lines :
                Eqv(s, Adjust(r, d).lines[s][i], r.lines[s][i] + d[s][i])
<1>1. ASSUME NEW s \in Sums, NEW i \in Lines
      PROVE  /\ Adjust(r, d).lines[s][i] = Stored(s, r.lines[s][i] + d[s][i])
             /\ r.lines[s][i] + d[s][i] \in Int
  <2>1. Adjust(r, d).lines = [t \in Sums |-> [j \in Lines |-> Stored(t, r.lines[t][j] + d[t][j])]]
    BY DEF Adjust, Records, Info
  <2>2. r.lines[s][i] \in Int /\ d[s][i] \in Int
    BY InfoFields DEF Records, LineSums
  <2>. QED  BY <2>1, <2>2
<1>2. "counts" \in Sums
  BY DEF Sums
<1>. QED  BY <1>1, <1>2, EqvStored DEF Ranged

LEMMA WrittenLines ==
    ASSUME now \in Nat, NEW check \in BOOLEAN, NEW w \in Worlds, NEW a \in Accounts,
           NEW r \in Records, ~Written(check, w, a, r).broken
    PROVE  LET v == Written(check, w, a, r)
           IN  /\ ~w.broken /\ v.infos = [w.infos EXCEPT ![a] = v.infos[a]]
               /\ SameSeat(r, v.infos[a]) /\ v.infos[a].lines = r.lines
<1>1. CASE check
  <2> DEFINE v == Checked(w, a, r)
  <2>1. Written(check, w, a, r) = v
    BY <1>1 DEF Written
  <2>2. ~w.broken /\ Judges(w, v, a, r)
    BY <2>1, CheckedJudges
  <2>. HIDE DEF v
  <2>. QED  BY <2>1, <2>2 DEF Judges, Judged, SameSeat
<1>2. CASE ~check
  <2> DEFINE v == Update(w, a, r)
  <2>1. Written(check, w, a, r) = v
    BY <1>2 DEF Written
  <2>2. v.infos = [w.infos EXCEPT ![a] = r] /\ v.broken = w.broken
    BY UpdateWorld
  <2>3. w.infos \in [Accounts -> Records]
    BY WorldFields
  <2>. HIDE DEF v
  <2>. QED  BY <2>1, <2>2, <2>3 DEF SameSeat
<1>. QED  BY <1>1, <1>2

\* a gains d more.
StepGains(more, gained, a, d) ==
    \A c \in Accounts, s \in Sums, i \in Lines :
      /\ gained[c][s][i] \in Int /\ d[s][i] \in Int
      /\ more[c][s][i] = gained[c][s][i] + (IF c = a THEN d[s][i] ELSE 0)

LEMMA WrittenComes ==
    ASSUME now \in Nat, NEW check \in BOOLEAN, NEW f \in [Accounts -> Records],
           NEW u \in Worlds, NEW gained, NEW more, NEW a \in Accounts, NEW d,
           u.broken \/ Comes(f, u.infos, gained), StepGains(more, gained, a, d),
           NEW r \in Records, SameSeat(u.infos[a], r), Ranged(r),
           \A s \in Sums, i \in Lines : Eqv(s, r.lines[s][i], u.infos[a].lines[s][i] + d[s][i])
    PROVE  LET v == Written(check, u, a, r) IN v.broken \/ Comes(f, v.infos, more)
<1> DEFINE v == Written(check, u, a, r)
<1>. SUFFICES ASSUME ~v.broken PROVE Comes(f, v.infos, more)
  OBVIOUS
<1>1. /\ ~u.broken /\ v.infos = [u.infos EXCEPT ![a] = v.infos[a]]
      /\ SameSeat(r, v.infos[a]) /\ v.infos[a].lines = r.lines
  BY WrittenLines
<1>2. Comes(f, u.infos, gained) /\ u.infos \in [Accounts -> Records]
  BY <1>1, WorldFields
<1>. HIDE DEF v
<1>3. ASSUME NEW c \in Accounts, NEW s \in Sums, NEW i \in Lines
      PROVE  Eqv(s, v.infos[c].lines[s][i], f[c].lines[s][i] + more[c][s][i])
  <2> DEFINE z == f[c].lines[s][i]
             y == u.infos[c].lines[s][i]
             e == gained[c][s][i]
             b == d[s][i]
             x == r.lines[s][i]
  <2>1. z \in Int /\ y \in Int /\ e \in Int /\ b \in Int /\ x \in Int
    <3>1. x \in Int
      BY InfoFields DEF Records, LineSums
    <3>. QED  BY <1>2, <3>1, LineFields DEF StepGains
  <2>2. Eqv(s, y, z + e)
    BY <1>2 DEF Comes
  <2>3. CASE c = a
    <3>1. v.infos[c].lines[s][i] = x /\ more[c][s][i] = e + b
      BY <1>1, <2>3 DEF StepGains
    <3>2. Eqv(s, x, y + b)
      BY <2>3
    <3>. HIDE DEF z, y, e, b, x
    <3>3. Eqv(s, y + b, (z + e) + b)
      <4>1. Eqv(s, b, b) /\ z + e \in Int
        BY <2>1, EqvReflexive
      <4>. QED  BY <2>1, <2>2, <4>1, EqvPlus
    <3>4. y + b \in Int /\ (z + e) + b \in Int /\ (z + e) + b = z + (e + b)
      BY <2>1
    <3>5. Eqv(s, x, (z + e) + b)
      BY <2>1, <3>2, <3>3, <3>4, EqvTransitive
    <3>. QED  BY <3>1, <3>4, <3>5 DEF z
  <2>4. CASE c # a
    <3>1. v.infos[c] = u.infos[c]
      BY <1>1, <1>2, <2>4
    <3>2. more[c][s][i] = e
      <4>1. more[c][s][i] = e + 0
        BY <2>4 DEF StepGains
      <4>. HIDE DEF e
      <4>. QED  BY <2>1, <4>1
    <3>. QED  BY <2>2, <3>1, <3>2
  <2>. QED  BY <2>3, <2>4
<1>4. ASSUME NEW c \in Accounts
      PROVE  SameSeat(f[c], v.infos[c]) /\ (Ranged(f[c]) => Ranged(v.infos[c]))
  <2>1. SameSeat(f[c], u.infos[c]) /\ (Ranged(f[c]) => Ranged(u.infos[c]))
    BY <1>2 DEF Comes
  <2>2. CASE c = a
    BY <1>1, <2>1, <2>2 DEF SameSeat, Ranged
  <2>3. CASE c # a
    BY <1>1, <1>2, <2>1, <2>3
  <2>. QED  BY <2>2, <2>3
<1>. QED  BY <1>3, <1>4 DEF Comes

\* A chain of accounts, nobody twice.
Distinct(chain) ==
    /\ Len(chain) \in Nat /\ Len(chain) <= Depth /\ chain \in [1..Len(chain) -> Accounts]
    /\ \A k, m \in 1..Len(chain) : chain[k] = chain[m] => k = m

\* What the accounts of a chain gain at its first k levels.
Reaches(chain, c, k) == \E j \in 1..k : j <= Len(chain) /\ chain[j] = c
Level(chain, c) == CHOOSE j \in 1..Len(chain) : chain[j] = c
Shares(chain, gain, k) ==
    [c \in Accounts |-> [s \in Sums |-> [i \in Lines |->
       IF Reaches(chain, c, k) THEN gain[Level(chain, c)][s][i] ELSE 0]]]

LEMMA LevelOf ==
    ASSUME NEW chain, Distinct(chain), NEW k \in 1..Len(chain)
    PROVE  Level(chain, chain[k]) = k
BY DEF Distinct, Level

\* Who is at level j of a chain gains what the climb carries to level j.
LEMMA SharesValue ==
    ASSUME NEW chain, Distinct(chain), NEW gain \in [1..Depth -> LineSums], NEW k \in 0..Depth,
           NEW c \in Accounts, NEW s \in Sums, NEW i \in Lines
    PROVE  /\ Shares(chain, gain, k)[c][s][i] \in Int
           /\ k = 0 => Shares(chain, gain, k)[c][s][i] = 0
           /\ \A j \in 1..Len(chain) : j <= k /\ chain[j] = c =>
                Shares(chain, gain, k)[c][s][i] = gain[j][s][i]
           /\ (\A j \in 1..Len(chain) : j <= k => chain[j] # c) =>
                Shares(chain, gain, k)[c][s][i] = 0
<1>1. Shares(chain, gain, k)[c][s][i] =
        IF Reaches(chain, c, k) THEN gain[Level(chain, c)][s][i] ELSE 0
  BY DEF Shares
<1>2. Len(chain) \in Nat /\ Len(chain) <= Depth /\ Depth \in Nat /\ k \in Nat
  BY Constants DEF Distinct
<1>3. ASSUME NEW j \in 1..Len(chain), chain[j] = c
      PROVE  Level(chain, c) = j /\ gain[j][s][i] \in Int
  <2>1. j \in 1..Depth
    BY <1>2
  <2>. QED  BY <1>3, <2>1, LevelOf DEF LineSums
<1>4. Reaches(chain, c, k) <=> \E j \in 1..Len(chain) : j <= k /\ chain[j] = c
  BY <1>2 DEF Reaches
<1>. QED  BY <1>1, <1>2, <1>3, <1>4

\* The same sums.
SameSums(x, y) == \A s \in Sums, i \in Lines : x[s][i] = y[s][i]

LEMMA SharesThere ==
    ASSUME NEW chain, Distinct(chain), NEW gain \in [1..Depth -> LineSums], NEW k \in 0..Depth,
           NEW j \in 1..Len(chain), j <= k
    PROVE  SameSums(Shares(chain, gain, k)[chain[j]], gain[j])
<1>1. chain[j] \in Accounts
  BY DEF Distinct
<1>2. Reaches(chain, chain[j], k) /\ Level(chain, chain[j]) = j
  <2>1. j \in 1..k
    BY Constants DEF Distinct
  <2>2. j <= Len(chain)
    BY DEF Distinct
  <2>. QED  BY <2>1, <2>2, LevelOf DEF Reaches
<1>. QED  BY <1>1, <1>2 DEF Shares, SameSums

\* With one level more, one account more has gained.
LEMMA SharesStep ==
    ASSUME NEW chain, Distinct(chain), NEW gain \in [1..Depth -> LineSums], NEW k \in 1..Depth
    PROVE  /\ k <= Len(chain) =>
                StepGains(Shares(chain, gain, k), Shares(chain, gain, k - 1), chain[k], gain[k])
           /\ k > Len(chain) => Shares(chain, gain, k) = Shares(chain, gain, k - 1)
<1>1. Len(chain) \in Nat /\ Len(chain) <= Depth /\ Depth \in Nat /\ k - 1 \in 0..Depth
      /\ k \in 0..Depth
  BY Constants DEF Distinct
<1>2. ASSUME k <= Len(chain), NEW c \in Accounts, NEW s \in Sums, NEW i \in Lines
      PROVE  LET x == Shares(chain, gain, k - 1)[c][s][i]
             IN  /\ x \in Int /\ gain[k][s][i] \in Int
                 /\ Shares(chain, gain, k)[c][s][i] =
                      x + (IF c = chain[k] THEN gain[k][s][i] ELSE 0)
  <2> DEFINE x == Shares(chain, gain, k - 1)[c][s][i]
             y == Shares(chain, gain, k)[c][s][i]
  <2>1. x \in Int /\ y \in Int /\ gain[k][s][i] \in Int
    <3>1. x \in Int
      BY <1>1, SharesValue
    <3>2. y \in Int
      BY <1>1, SharesValue
    <3>3. gain[k][s][i] \in Int
      BY DEF LineSums
    <3>. QED  BY <3>1, <3>2, <3>3
  <2>2. k \in 1..Len(chain)
    BY <1>1, <1>2
  <2>3. CASE c = chain[k]
    <3>1. \A j \in 1..Len(chain) : j <= k - 1 => chain[j] # c
      BY <1>1, <2>2, <2>3 DEF Distinct
    <3>2. x = 0
      BY <1>1, <3>1, SharesValue
    <3>3. y = gain[k][s][i]
      BY <1>1, <2>2, <2>3, SharesValue
    <3>. HIDE DEF x, y
    <3>. QED  BY <2>1, <2>3, <3>2, <3>3 DEF x, y
  <2>4. CASE c # chain[k]
    <3>1. CASE \E j \in 1..Len(chain) : j <= k - 1 /\ chain[j] = c
      <4>1. PICK j \in 1..Len(chain) : j <= k - 1 /\ chain[j] = c
        BY <3>1
      <4>2. x = gain[j][s][i]
        BY <1>1, <4>1, SharesValue
      <4>3. y = gain[j][s][i]
        <5>1. j <= k
          BY <1>1, <4>1
        <5>. QED  BY <1>1, <4>1, <5>1, SharesValue
      <4>. HIDE DEF x, y
      <4>. QED  BY <2>1, <2>4, <4>2, <4>3 DEF x, y
    <3>2. CASE ~\E j \in 1..Len(chain) : j <= k - 1 /\ chain[j] = c
      <4>1. \A j \in 1..Len(chain) : j <= k => chain[j] # c
        BY <1>1, <2>4, <3>2
      <4>2. x = 0 /\ y = 0
        <5>1. x = 0
          BY <1>1, <3>2, SharesValue
        <5>2. y = 0
          BY <1>1, <4>1, SharesValue
        <5>. QED  BY <5>1, <5>2
      <4>. HIDE DEF x, y
      <4>. QED  BY <2>1, <2>4, <4>2 DEF x, y
    <3>. QED  BY <3>1, <3>2
  <2>. QED  BY <2>3, <2>4
<1>3. ASSUME k > Len(chain) PROVE Shares(chain, gain, k) = Shares(chain, gain, k - 1)
  <2>1. \A c \in Accounts : Reaches(chain, c, k) <=> Reaches(chain, c, k - 1)
    BY <1>1, <1>3 DEF Reaches
  <2>. QED  BY <2>1 DEF Shares
<1>. QED  BY <1>2, <1>3 DEF StepGains

\* The records f have become g, which have gained.
Gathered(f, g, gained) ==
    \A c \in Accounts :
      /\ SameSeat(f[c], g[c])
      /\ \A s \in Sums, i \in Lines :
           Eqv(s, g[c].lines[s][i], f[c].lines[s][i] + gained[c][s][i])

\* All have gained whatever they gain along the chain.
LEMMA SharesGained ==
    ASSUME NEW f, NEW g, NEW chain, Distinct(chain), NEW gain \in [1..Depth -> LineSums],
           f \in [Accounts -> Records],
           NEW k \in 0..Depth, Len(chain) <= k,
           NEW gained, gained = Shares(chain, gain, k), Gathered(f, g, gained)
    PROVE  LinesGained(f, g, chain, gain) /\ SamePlaces(f, g)
<1>1. SamePlaces(f, g)
  BY DEF Gathered, SamePlaces, SameSeat
<1>2. ASSUME NEW s \in Sums, NEW i \in Lines, NEW j \in 1..Len(chain)
      PROVE  Eqv(s, g[chain[j]].lines[s][i], f[chain[j]].lines[s][i] + gain[j][s][i])
  <2>1. chain[j] \in Accounts /\ j <= k
    BY Constants DEF Distinct
  <2>2. Shares(chain, gain, k)[chain[j]][s][i] = gain[j][s][i]
    <3>1. j <= k
      BY <2>1
    <3>2. SameSums(Shares(chain, gain, k)[chain[j]], gain[j])
      BY <3>1, SharesThere
    <3>. QED  BY <3>2 DEF SameSums
  <2>. QED  BY <2>1, <2>2 DEF Gathered
<1>3. ASSUME NEW s \in Sums, NEW i \in Lines, NEW c \in Accounts \ Range(chain)
      PROVE  Eqv(s, g[c].lines[s][i], f[c].lines[s][i])
  <2>1. \A j \in 1..Len(chain) : chain[j] # c
    <3>1. DOMAIN chain = 1..Len(chain)
      BY DEF Distinct
    <3>. QED  BY <3>1 DEF Range
  <2>2. Shares(chain, gain, k)[c][s][i] = 0
    BY <2>1, SharesValue
  <2>3. f[c].lines[s][i] + 0 = f[c].lines[s][i]
    BY LineFields
  <2>. QED  BY <2>2, <2>3 DEF Gathered
<1>. QED  BY <1>1, <1>2, <1>3 DEF LinesGained

(***************************************************************************)
(* Nobody is twice in a chain.                                             *)
(***************************************************************************)
LEMMA ChainDistinct ==
    ASSUME NEW f, HasParents(f), Acyclic(Referred(f)), NEW p \in Parents, NEW n \in 1..Depth
    PROVE  Distinct(Ancestors(f, p, n))
<1> DEFINE s == Ancestors(f, p, n)
<1>1. /\ IsChain(f, p, n, s) /\ Len(s) \in Nat /\ Len(s) <= Depth /\ s \in [1..Len(s) -> Accounts]
  BY ChainFields
<1>. HIDE DEF s
<1>2. ASSUME NEW k \in 1..Len(s), NEW m \in 1..Len(s), k < m, s[k] = s[m] PROVE FALSE
  <2> DEFINE S == {s[j] : j \in k..(m - 1)}
  <2>1. S \subseteq Accounts /\ s[k] \in S
    BY <1>1, <1>2
  <2>2. ASSUME NEW a \in S PROVE Referred(f)[a] \in S
    <3>1. PICK j \in k..(m - 1) : a = s[j]
      OBVIOUS
    <3>2. j \in 1..(Len(s) - 1) /\ a \in Accounts
      BY <1>1, <1>2, <2>1
    <3>3. f[a].referrer = s[j + 1]
      BY <1>1, <3>1, <3>2 DEF IsChain
    <3>4. CASE j + 1 = m
      BY <1>2, <2>1, <3>2, <3>3, <3>4 DEF Referred
    <3>5. CASE j + 1 # m
      <4>1. j + 1 \in k..(m - 1)
        BY <1>1, <1>2, <3>5
      <4>. QED  BY <3>2, <3>3, <4>1 DEF Referred
    <3>. QED  BY <3>4, <3>5
  <2>3. DOMAIN Referred(f) = Accounts
    BY DEF Referred
  <2>. HIDE DEF S
  <2>. QED  BY <2>1, <2>2, <2>3 DEF Acyclic
<1>3. ASSUME NEW k \in 1..Len(s), NEW m \in 1..Len(s), s[k] = s[m] PROVE k = m
  <2>1. ~(k < m) /\ ~(m < k)
    BY <1>2, <1>3
  <2>. QED  BY <1>1, <2>1
<1>. QED  BY <1>1, <1>3 DEF Distinct, s

\* Nothing has been gained yet.
LEMMA ComesNowhere ==
    ASSUME NEW f \in [Accounts -> Records], NEW gained,
           \A c \in Accounts, s \in Sums, i \in Lines : gained[c][s][i] = 0
    PROVE  Comes(f, f, gained)
<1>1. ASSUME NEW c \in Accounts, NEW s \in Sums, NEW i \in Lines
      PROVE  Eqv(s, f[c].lines[s][i], f[c].lines[s][i] + gained[c][s][i])
  <2>1. f[c].lines[s][i] \in Int
    BY LineFields
  <2>2. f[c].lines[s][i] + gained[c][s][i] = f[c].lines[s][i]
    BY <2>1
  <2>. QED  BY <2>1, <2>2, EqvReflexive
<1>. QED  BY <1>1 DEF Comes, SameSeat

LEMMA GainedLines ==
    ASSUME NEW v \in Worlds, NEW s, NEW link \in Links, NEW gain \in Gains, NEW k \in 1..Depth,
           s[k] \in Accounts
    PROVE  LET q == Gained(v, s, link, gain, k)
           IN  /\ q \in Records /\ SameSeat(v.infos[s[k]], q) /\ Ranged(q)
               /\ \A t \in Sums, i \in Lines :
                    Eqv(t, q.lines[t][i], v.infos[s[k]].lines[t][i] + gain[k][t][i])
<1> DEFINE c == s[k]
           r == v.infos[c]
           l == IF k = 1 THEN Linked(r, link) ELSE r
           d == gain[k]
           q == Adjust(l, d)
<1>1. r \in Records /\ d \in LineSums
  <2>1. c \in Accounts
    OBVIOUS
  <2>. QED  BY <2>1, WorldFields DEF Gains
<1>. HIDE DEF c, r, d
<1>2. l \in Records /\ l.lines = r.lines
  BY <1>1, LinkedRecord
<1>. HIDE DEF l
<1>3. Ranged(q) /\ \A t \in Sums, i \in Lines : Eqv(t, q.lines[t][i], l.lines[t][i] + d[t][i])
  BY <1>1, <1>2, AdjustLines
<1>4. Gained(v, s, link, gain, k) = q
  BY DEF Gained, l, r, c, d
<1>. HIDE DEF q
<1>5. q \in Records /\ SameTerms(r, q)
  BY <1>4, GainedRecord DEF r, c
<1>6. SameSeat(r, q)
  BY <1>5 DEF SameTerms, SameSeat
<1>. QED  BY <1>2, <1>3, <1>4, <1>5, <1>6 DEF r, c, d

(***************************************************************************)
(* What a climb does to the lines.                                         *)
(***************************************************************************)
LEMMA ClimbComes ==
    ASSUME now \in Nat, NEW w \in Worlds, NEW p \in Parents, NEW n \in 1..Depth,
           NEW link \in Links, NEW gain \in Gains, NEW check \in BOOLEAN,
           Distinct(Ancestors(w.infos, p, n))
    PROVE  LET s == Ancestors(w.infos, p, n)
               v == ClimbIf(check, w, p, n, link, gain)
           IN  v.broken \/ Comes(w.infos, v.infos, Shares(s, gain, Len(s)))
<1> DEFINE s == Ancestors(w.infos, p, n)
           L == Len(s)
           f == w.infos
<1>1. PICK after : /\ Steps(after, check, w, s, link, gain)
                   /\ \A k \in 0..L : after[k] \in Worlds
                   /\ ClimbIf(check, w, p, n, link, gain) = after[L]
  BY ClimbSteps
<1>2. /\ L \in Nat /\ L <= Depth /\ s \in [1..L -> Accounts] /\ Depth \in Nat
      /\ f \in [Accounts -> Records] /\ Distinct(s) /\ gain \in [1..Depth -> LineSums]
  BY Constants, WorldFields DEF Distinct, Gains
<1>. HIDE DEF s, f
<1>3. /\ after[0] = w
      /\ \A k \in 1..L : after[k] = Written(check, after[k - 1], s[k],
                                            Gained(after[k - 1], s, link, gain, k))
  BY <1>1 DEF Steps
<1>. HIDE DEF L
<1> DEFINE A == {k \in 0..L : after[k].broken \/ Comes(f, after[k].infos, Shares(s, gain, k))}
<1>4. 0 \in A
  <2>1. \A c \in Accounts, t \in Sums, i \in Lines : Shares(s, gain, 0)[c][t][i] = 0
    BY DEF Shares, Reaches
  <2>2. Comes(f, f, Shares(s, gain, 0))
    BY <1>2, <2>1, ComesNowhere
  <2>. QED  BY <1>2, <1>3, <2>2 DEF f
<1>5. ASSUME NEW k \in 1..L, k - 1 \in A PROVE k \in A
  <2> DEFINE u == after[k - 1]
             r == Gained(u, s, link, gain, k)
             gained == Shares(s, gain, k - 1)
             more == Shares(s, gain, k)
             a == s[k]
             d == gain[k]
  <2>1. k \in 1..Depth /\ a \in Accounts /\ k \in 0..L /\ k - 1 \in 0..L /\ k <= Len(s)
    BY <1>2 DEF L
  <2>2. u \in Worlds
    BY <1>1, <2>1
  <2>3. u.broken \/ Comes(f, u.infos, gained)
    BY <1>5
  <2>4. after[k] = Written(check, u, a, r)
    BY <1>3
  <2>5. StepGains(more, gained, a, d)
    BY <1>2, <2>1, SharesStep
  <2>. HIDE DEF u
  <2>6. /\ r \in Records /\ SameSeat(u.infos[a], r) /\ Ranged(r)
        /\ \A t \in Sums, i \in Lines : Eqv(t, r.lines[t][i], u.infos[a].lines[t][i] + d[t][i])
    BY <2>1, <2>2, GainedLines
  <2>. HIDE DEF r, gained, more, a, d
  <2>7. LET v == Written(check, u, a, r) IN v.broken \/ Comes(f, v.infos, more)
    BY <1>2, <2>1, <2>2, <2>3, <2>5, <2>6, WrittenComes
  <2>. QED  BY <2>1, <2>4, <2>7 DEF more
<1>. HIDE DEF A
<1>6. \A k \in 0..L : k \in A
  BY <1>2, <1>4, <1>5, UpTo
<1>7. L \in A
  BY <1>2, <1>6
<1>. QED  BY <1>1, <1>7 DEF A, s, L, f

\* The banished have no referrals.
Childless(f) == \A a \in Accounts : f[a].banished => Kids(f, a) = {}

\* The chain of Ancestors is a path as far as lines count.
LEMMA ChainPath ==
    ASSUME NEW f \in [Accounts -> Records], HasParents(f), NEW p \in Parents,
           Distinct(Ancestors(f, p, Depth)), Childless(f), p # None => ~f[p].banished
    PROVE  Path(f, p, Ancestors(f, p, Depth))
<1> DEFINE s == Ancestors(f, p, Depth)
           L == Len(s)
<1>1. IsChain(f, p, Depth, s) /\ Depth \in 1..Depth /\ Depth \in Nat
  <2>1. Depth \in 1..Depth /\ Depth \in Nat
    BY Constants
  <2>. QED  BY <2>1, AncestorsValue
<1>2. L \in Nat /\ L <= Depth /\ s \in [1..L -> Accounts] /\ s \in Seq(Accounts)
  BY <1>1 DEF IsChain, Distinct
<1>3. Distinct(s)
  OBVIOUS
<1>. HIDE DEF s
<1>4. s # <<>> <=> L # 0
  BY <1>2
<1>5. p # None => s # <<>> /\ s[1] = p
  BY <1>1, Constants DEF IsChain
<1>6. p = None => s = <<>>
  <2>1. ASSUME s # <<>> PROVE p \in Accounts
    <3>1. 1 \in 1..L
      BY <1>2, <1>4, <2>1
    <3>. QED  BY <1>1, <1>2, <2>1, <3>1 DEF IsChain
  <2>. QED  BY <2>1, Constants
<1> DEFINE A == {k \in 0..L : k = 0 \/ ~f[s[k]].banished}
<1>7. 0 \in A
  BY <1>2
<1>8. ASSUME NEW k \in 1..L, k - 1 \in A PROVE k \in A
  <2>1. k \in 0..L /\ s[k] \in Accounts
    BY <1>2
  <2>2. CASE k = 1
    <3>1. s[1] = p /\ p # None
      BY <1>2, <1>4, <1>5, <1>6
    <3>. QED  BY <2>1, <2>2, <3>1
  <2>3. CASE k # 1
    <3>1. k - 1 \in 1..(L - 1) /\ (k - 1) + 1 = k /\ k - 1 # 0
      BY <1>2, <2>3
    <3>2. f[s[k - 1]].referrer = s[k]
      BY <1>1, <3>1 DEF IsChain
    <3>3. s[k - 1] \in Kids(f, s[k])
      <4>1. s[k - 1] \in Accounts /\ ~f[s[k - 1]].banished
        BY <1>2, <1>8, <3>1
      <4>. QED  BY <3>2, <4>1 DEF Kids
    <3>4. ~f[s[k]].banished
      BY <2>1, <3>3 DEF Childless
    <3>. QED  BY <2>1, <3>4
  <2>. QED  BY <2>2, <2>3
<1>. HIDE DEF A
<1>9. \A k \in 0..L : k \in A
  BY <1>2, <1>7, <1>8, UpTo
<1>10. \A k \in 1..L : ~f[s[k]].banished
  <2>1. ASSUME NEW k \in 1..L PROVE k \in 0..L /\ k # 0
    BY <1>2
  <2>. QED  BY <1>9, <2>1 DEF A
<1>11. \A k \in 1..(L - 1) : f[s[k]].referrer = s[k + 1]
  BY <1>1 DEF IsChain
<1>12. s # <<>> /\ L < Depth => f[s[L]].referrer = None
  BY <1>1 DEF IsChain
<1>13. \A k, m \in 1..L : s[k] = s[m] => k = m
  BY <1>3 DEF Distinct
<1>. QED  BY <1>2, <1>5, <1>6, <1>10, <1>11, <1>12, <1>13 DEF Path, s

\* Whoever has gained nothing fits as before.
LEMMA StillFits ==
    ASSUME NEW f \in [Accounts -> Records], NEW g \in [Accounts -> Records],
           \A c \in Accounts : Kids(g, c) = Kids(f, c), Fit(f),
           \A c \in Accounts, s \in Sums, i \in Inner : Eqv(s, g[c].lines[s][i], f[c].lines[s][i]),
           \A c \in Accounts, s \in Sums :
              c \in Kids(f, f[c].referrer) => Eqv(s, g[c].lines[s][0], f[c].lines[s][0])
    PROVE  Fit(g)
<1>. SUFFICES ASSUME NEW c \in Accounts, NEW s \in Sums, NEW i \in Inner
              PROVE  Eqv(s, g[c].lines[s][i], Below(g, c, s, i))
  BY DEF Fit
<1>1. /\ Below(f, c, s, i) \in Int /\ Below(g, c, s, i) \in Int /\ i - 1 \in Lines /\ i \in Lines
      /\ f[c].lines[s][i] \in Int /\ g[c].lines[s][i] \in Int
  BY BelowType, LineFields
<1>2. ASSUME NEW x \in Kids(f, c) PROVE Eqv(s, g[x].lines[s][i - 1], f[x].lines[s][i - 1])
  <2>1. x \in Accounts /\ f[x].referrer = c
    BY DEF Kids
  <2>2. i - 1 = 0 \/ i - 1 \in Inner
    BY Constants DEF Inner
  <2>. QED  BY <2>1, <2>2
<1>3. Eqv(s, Below(g, c, s, i), Below(f, c, s, i))
  BY <1>2, BelowAgree
<1>4. Eqv(s, g[c].lines[s][i], f[c].lines[s][i]) /\ Eqv(s, f[c].lines[s][i], Below(f, c, s, i))
  BY DEF Fit
<1>5. Eqv(s, g[c].lines[s][i], Below(f, c, s, i))
  BY <1>1, <1>4, EqvTransitive
<1>6. Eqv(s, Below(f, c, s, i), Below(g, c, s, i))
  BY <1>1, <1>3, EqvSymmetric
<1>. QED  BY <1>1, <1>5, <1>6, EqvTransitive

\* The lines of p lack nothing.
LEMMA NothingMissing ==
    ASSUME NEW f \in [Accounts -> Records], NEW p, NEW d,
           \A s \in Sums, i \in Inner : d[s][i] = 0
    PROVE  FitBut(f, p, d) <=> Fit(f)
<1>1. ASSUME NEW c \in Accounts, NEW s \in Sums, NEW i \in Inner
      PROVE  f[c].lines[s][i] + (IF c = p THEN d[s][i] ELSE 0) = f[c].lines[s][i]
  <2>1. f[c].lines[s][i] \in Int
    BY BelowType, LineFields
  <2>. QED  BY <2>1
<1>. QED  BY <1>1 DEF Fit, FitBut

\* Counters stay what they are where nothing comes to line 0.
LEMMA CountedStays ==
    ASSUME NEW f \in [Accounts -> Records], NEW g \in [Accounts -> Records], NEW gained,
           Comes(f, g, gained), NEW c \in Accounts, gained[c]["counts"][0] = 0, Counted(f[c])
    PROVE  Counted(g[c])
<1>1. "counts" \in Sums /\ 0 \in Lines
  BY Constants DEF Sums
<1>2. Ranged(g[c]) /\ Ranged(f[c]) /\ SameSeat(f[c], g[c])
  BY DEF Comes, Counted
<1> DEFINE x == g[c].lines["counts"][0]
           y == f[c].lines["counts"][0]
<1>3. x \in 0..(CountLimit - 1) /\ y \in 0..(CountLimit - 1)
  BY <1>1, <1>2 DEF Ranged
<1>4. Eqv("counts", x, y + 0)
  BY <1>1 DEF Comes
<1>5. x \in Int /\ y \in Int /\ y + 0 = y
  BY <1>3, Constants
<1>. HIDE DEF x, y
<1>6. x = y
  BY <1>3, <1>4, <1>5, EqvInRange
<1>. QED  BY <1>2, <1>6 DEF Counted, Flag, SameSeat, x, y

LEMMA SharesZero ==
    ASSUME NEW chain, Distinct(chain), NEW gain \in [1..Depth -> LineSums], NEW k \in 0..Depth,
           NEW c \in Accounts, NEW s \in Sums, NEW i \in Lines,
           \A j \in 1..Depth : gain[j][s][i] = 0
    PROVE  Shares(chain, gain, k)[c][s][i] = 0
<1>1. CASE Reaches(chain, c, k)
  <2>1. PICK j \in 1..k : j <= Len(chain) /\ chain[j] = c
    BY <1>1 DEF Reaches
  <2>2. j \in 1..Len(chain) /\ j \in 1..Depth
    BY <2>1, Constants DEF Distinct
  <2>3. Level(chain, c) = j
    BY <2>1, <2>2, LevelOf
  <2>. QED  BY <1>1, <2>2, <2>3 DEF Shares
<1>2. CASE ~Reaches(chain, c, k)
  BY <1>2 DEF Shares
<1>. QED  BY <1>1, <1>2

\* A climb that changes lists only.
NoGain(gain) == \A k \in 1..Depth, s \in Sums, i \in Lines : gain[k][s][i] = 0

\* The tree in which a climb ends is the one in which it begins.
LEMMA ClimbSeats ==
    ASSUME now \in Nat, NEW w \in Worlds, NEW p \in Parents, NEW n \in 1..Depth,
           NEW link \in Links, NEW gain \in Gains, NEW check \in BOOLEAN,
           NEW v, v = ClimbIf(check, w, p, n, link, gain), ~v.broken
    PROVE  /\ v \in Worlds /\ v.infos \in [Accounts -> Records] /\ ~w.broken
           /\ \A c \in Accounts : SameSeat(w.infos[c], v.infos[c])
           /\ Referred(v.infos) = Referred(w.infos)
           /\ \A c : Kids(v.infos, c) = Kids(w.infos, c)
<1>1. Becomes(w, v, Climbed(w.infos, p, link))
  BY ClimbBecomes
<1>2. v \in Worlds /\ ~w.broken /\ w.infos \in [Accounts -> Records]
      /\ v.infos \in [Accounts -> Records]
  BY <1>1, WorldFields DEF Becomes
<1>3. ASSUME NEW c \in Accounts PROVE SameSeat(w.infos[c], v.infos[c])
  <2>1. Alike(Climbed(w.infos, p, link)[c], v.infos[c])
    BY <1>1 DEF Becomes
  <2>2. SameSeat(w.infos[c], Climbed(w.infos, p, link)[c])
    <3>1. w.infos[c] \in Records
      BY <1>2
    <3>. QED  BY <3>1, LinkedRecord DEF Climbed, SameSeat
  <2>. QED  BY <2>1, <2>2 DEF Alike, SamePlace, SameSeat
<1>4. Referred(v.infos) = Referred(w.infos)
  BY <1>3 DEF SameSeat, Referred
<1>5. \A c : Kids(v.infos, c) = Kids(w.infos, c)
  BY <1>3 DEF SameSeat, Kids
<1>. QED  BY <1>2, <1>3, <1>4, <1>5

\* Where a climb ends the banished have no referrals.
Arrives(v, p) ==
    v.broken \/ (Tree(v.infos) /\ Childless(v.infos) /\ (p # None => ~v.infos[p].banished))

\* Counters are as good as before.
StayCounted(f, g) == \A c \in Accounts : Counted(f[c]) => Counted(g[c])

(***************************************************************************)
(* A climb along all ancestors makes up for what the first of them lacks.  *)
(***************************************************************************)
LEMMA ClimbFits ==
    ASSUME now \in Nat, NEW w \in Worlds, NEW p \in Parents, NEW n \in 1..Depth,
           NEW link \in Links, NEW gain \in Gains, Shifts(gain), NEW check \in BOOLEAN,
           n = Depth \/ NoGain(gain), FitBut(w.infos, p, gain[1]),
           NEW v, v = ClimbIf(check, w, p, n, link, gain), Arrives(v, p)
    PROVE  v.broken \/ (Fit(v.infos) /\ StayCounted(w.infos, v.infos))
<1>. SUFFICES ASSUME ~v.broken PROVE Fit(v.infos) /\ StayCounted(w.infos, v.infos)
  OBVIOUS
<1> DEFINE f == w.infos
           g == v.infos
           s == Ancestors(f, p, n)
           L == Len(s)
<1>1. /\ g \in [Accounts -> Records] /\ Referred(g) = Referred(f)
      /\ \A c \in Accounts : SameSeat(f[c], g[c])
      /\ \A c : Kids(g, c) = Kids(f, c)
  BY ClimbSeats
<1>2. /\ f \in [Accounts -> Records] /\ HasParents(f) /\ Acyclic(Referred(f)) /\ Childless(f)
      /\ (p # None => ~f[p].banished)
  <2>1. f \in [Accounts -> Records] /\ HasParents(f)
    BY WorldParents
  <2>2. Acyclic(Referred(f))
    BY <1>1 DEF Arrives, Tree
  <2>3. Childless(f)
    BY <1>1 DEF Arrives, Childless, SameSeat
  <2>4. p # None => ~f[p].banished
    BY <1>1 DEF Arrives, SameSeat, Parents
  <2>. QED  BY <2>1, <2>2, <2>3, <2>4
<1>3. Distinct(s)
  BY <1>2, ChainDistinct
<1>4. Comes(f, g, Shares(s, gain, L))
  BY <1>3, ClimbComes
<1>5. L \in 0..Depth /\ L <= Len(s) /\ Len(s) <= L /\ gain \in [1..Depth -> LineSums]
  BY <1>3, Constants DEF Distinct, Gains
<1>. HIDE DEF s, L, f, g
<1>6. StayCounted(f, g)
  <2>1. ASSUME NEW c \in Accounts, Counted(f[c]) PROVE Counted(g[c])
    <3>1. "counts" \in Sums /\ 0 \in Lines /\ 0 \in 0..(Depth - 1)
      BY Constants DEF Sums
    <3>2. \A j \in 1..Depth : gain[j]["counts"][0] = 0
      <4>1. ASSUME NEW j \in 1..Depth PROVE 0 < j
        BY Constants
      <4>. QED  BY <3>1, <4>1 DEF Shifts
    <3>3. Shares(s, gain, L)[c]["counts"][0] = 0
      BY <1>3, <1>5, <3>1, <3>2, SharesZero
    <3>. QED  BY <1>1, <1>2, <1>4, <2>1, <3>3, CountedStays
  <2>. QED  BY <2>1 DEF StayCounted
<1>7. CASE n = Depth
  <2>1. s = Ancestors(f, p, Depth)
    BY <1>7 DEF s
  <2>2. Path(f, p, s)
    BY <1>2, <1>3, <2>1, ChainPath
  <2>3. LinesGained(f, g, s, gain) /\ SamePlaces(f, g)
    <3>1. Gathered(f, g, Shares(s, gain, L))
      BY <1>4 DEF Comes, Gathered
    <3>. QED  BY <1>2, <1>3, <1>5, <3>1, SharesGained
  <2>4. FitBut(f, p, gain[1])
    BY DEF f
  <2>5. Fit(g)
    BY <1>1, <1>2, <2>2, <2>3, <2>4, ChainFits
  <2>. QED  BY <1>6, <2>5 DEF f, g
<1>8. CASE NoGain(gain)
  <2>1. ASSUME NEW c \in Accounts, NEW t \in Sums, NEW i \in Lines
        PROVE  Eqv(t, g[c].lines[t][i], f[c].lines[t][i])
    <3>1. \A j \in 1..Depth : gain[j][t][i] = 0
      BY <1>8 DEF NoGain
    <3>2. Shares(s, gain, L)[c][t][i] = 0
      BY <1>3, <1>5, <3>1, SharesZero
    <3>3. Eqv(t, g[c].lines[t][i], f[c].lines[t][i] + 0)
      BY <1>4, <3>2 DEF Comes
    <3>4. f[c].lines[t][i] + 0 = f[c].lines[t][i]
      BY <1>2, LineFields
    <3>. QED  BY <3>3, <3>4
  <2>2. Fit(f)
    <3>1. \A t \in Sums, i \in Inner : gain[1][t][i] = 0
      BY <1>8, Constants DEF NoGain, Inner, Lines
    <3>2. FitBut(f, p, gain[1])
      BY DEF f
    <3>. QED  BY <1>2, <3>1, <3>2, NothingMissing
  <2>3. 0 \in Lines /\ \A i \in Inner : i \in Lines
    BY Constants DEF Inner, Lines
  <2>4. Fit(g)
    BY <1>1, <1>2, <2>1, <2>2, <2>3, StillFits
  <2>. QED  BY <1>6, <2>4 DEF f, g
<1>. QED  BY <1>7, <1>8

\* What a adds to line i of c.
Part(f, a, c, s, i) == IF a \in Kids(f, c) THEN f[a].lines[s][i - 1] ELSE 0

LEMMA PartType ==
    ASSUME NEW f \in [Accounts -> Records], NEW a, NEW c, NEW s \in Sums, NEW i \in Inner
    PROVE  Part(f, a, c, s, i) \in Int
<1>1. i - 1 \in Lines
  BY BelowType
<1>2. ASSUME a \in Kids(f, c) PROVE f[a].lines[s][i - 1] \in Int
  BY <1>1, <1>2, KidsFinite, LineFields
<1>. QED  BY <1>2 DEF Part

\* What the others add.
LEMMA BelowRest ==
    ASSUME NEW f \in [Accounts -> Records], NEW a, NEW c, NEW s \in Sums, NEW i \in Inner
    PROVE  LET rest == SumOver(LineAt(f, s, i - 1), Kids(f, c) \ {a})
           IN  rest \in Int /\ Below(f, c, s, i) = rest + Part(f, a, c, s, i)
<1> DEFINE F == LineAt(f, s, i - 1)
           K == Kids(f, c)
<1>1. IsFiniteSet(K) /\ IsFiniteSet(K \ {a}) /\ \A x \in K : F[x] \in Int /\ F[x] = f[x].lines[s][i - 1]
  <2>1. i - 1 \in Lines
    BY BelowType
  <2>2. IsFiniteSet(K) /\ K \subseteq Accounts
    BY KidsFinite
  <2>3. IsFiniteSet(K \ {a})
    BY <2>2, FS_Subset
  <2>. QED  BY <2>1, <2>2, <2>3, LineFields
<1>2. Below(f, c, s, i) = SumOver(F, K)
  BY DEF Below
<1>. HIDE DEF F, K
<1>3. SumOver(F, K \ {a}) \in Int
  <2>1. \A x \in K \ {a} : F[x] \in Int
    BY <1>1
  <2>. QED  BY <1>1, <2>1, SumType
<1>4. CASE a \in K
  <2>1. (K \ {a}) \cup {a} = K /\ a \notin K \ {a}
    BY <1>4
  <2>2. SumOver(F, (K \ {a}) \cup {a}) = SumOver(F, K \ {a}) + F[a]
    <3> DEFINE M == K \ {a}
    <3>1. IsFiniteSet(M) /\ a \notin M /\ \A x \in M \cup {a} : F[x] \in Int
      BY <1>1, <1>4
    <3>. HIDE DEF M
    <3>2. SumOver(F, M \cup {a}) = SumOver(F, M) + F[a]
      BY <3>1, SumAdd
    <3>. QED  BY <3>2 DEF M
  <2>3. Part(f, a, c, s, i) = F[a]
    BY <1>1, <1>4 DEF Part, K
  <2>. QED  BY <1>2, <1>3, <2>1, <2>2, <2>3 DEF F, K
<1>5. CASE a \notin K
  <2>1. K \ {a} = K
    BY <1>5
  <2>2. Part(f, a, c, s, i) = 0
    BY <1>5 DEF Part, K
  <2>3. SumOver(F, K \ {a}) = SumOver(F, K)
    BY <2>1
  <2>4. SumOver(F, K \ {a}) + 0 = SumOver(F, K \ {a})
    BY <1>3
  <2>5. Below(f, c, s, i) = SumOver(F, K \ {a}) + Part(f, a, c, s, i)
    BY <1>2, <2>2, <2>3, <2>4
  <2>. QED  BY <1>3, <2>5 DEF F, K
<1>. QED  BY <1>4, <1>5

LEMMA BelowOne ==
    ASSUME NEW f \in [Accounts -> Records], NEW g \in [Accounts -> Records], NEW a,
           \A x \in Accounts \ {a} : g[x] = f[x],
           NEW c, NEW s \in Sums, NEW i \in Inner
    PROVE  Below(g, c, s, i) = Below(f, c, s, i) + Part(g, a, c, s, i) - Part(f, a, c, s, i)
<1> DEFINE F == LineAt(f, s, i - 1)
           G == LineAt(g, s, i - 1)
           K == Kids(f, c) \ {a}
<1>1. Kids(g, c) \ {a} = K
  BY DEF Kids
<1>2. /\ SumOver(F, K) \in Int /\ Below(f, c, s, i) = SumOver(F, K) + Part(f, a, c, s, i)
  BY BelowRest
<1>3. /\ SumOver(G, K) \in Int /\ Below(g, c, s, i) = SumOver(G, K) + Part(g, a, c, s, i)
  BY <1>1, BelowRest
<1>4. SumOver(G, K) = SumOver(F, K)
  <2>1. \A x \in K : G[x] = F[x] /\ F[x] \in Int
    <3>1. i - 1 \in Lines
      BY BelowType
    <3>. QED  BY <3>1, KidsFinite, LineFields DEF LineAt
  <2>2. IsFiniteSet(K)
    BY KidsFinite, FS_Subset
  <2>. HIDE DEF F, G, K
  <2>. QED  BY <2>1, <2>2, SumAgree
<1>5. Part(f, a, c, s, i) \in Int /\ Part(g, a, c, s, i) \in Int
  BY PartType
<1>. HIDE DEF F, G, K
<1>. QED  BY <1>2, <1>3, <1>4, <1>5

\* The account a has changed; p lacks the difference.
Differs(f, g, a, p, d) ==
    /\ \A x \in Accounts \ {a} : g[x] = f[x]
    /\ \A s \in Sums, i \in Inner :
         /\ a \in Accounts => Eqv(s, g[a].lines[s][i], f[a].lines[s][i])
         /\ d[s][i] \in Int /\ Eqv(s, d[s][i], Part(g, a, p, s, i) - Part(f, a, p, s, i))
         /\ \A c \in Accounts \ {p} : Eqv(s, Part(g, a, c, s, i), Part(f, a, c, s, i))

\* Where one record changes, only the lines of its referrer lack something.
LEMMA OneFits ==
    ASSUME NEW f \in [Accounts -> Records], NEW g \in [Accounts -> Records], Fit(f),
           NEW a, NEW p, NEW d, Differs(f, g, a, p, d)
    PROVE  FitBut(g, p, d)
<1>. SUFFICES ASSUME NEW c \in Accounts, NEW s \in Sums, NEW i \in Inner
              PROVE  Eqv(s, g[c].lines[s][i] + (IF c = p THEN d[s][i] ELSE 0), Below(g, c, s, i))
  BY DEF FitBut
<1> DEFINE x == f[c].lines[s][i]
           y == g[c].lines[s][i]
           b == Below(f, c, s, i)
           m == Part(g, a, c, s, i)
           n == Part(f, a, c, s, i)
           e == IF c = p THEN d[s][i] ELSE 0
<1>1. x \in Int /\ y \in Int /\ b \in Int /\ m \in Int /\ n \in Int /\ e \in Int
  <2>1. x \in Int /\ y \in Int
    BY BelowType, LineFields
  <2>2. b \in Int
    BY BelowType
  <2>3. m \in Int /\ n \in Int
    BY PartType
  <2>4. e \in Int
    BY DEF Differs
  <2>. QED  BY <2>1, <2>2, <2>3, <2>4
<1>2. Eqv(s, y, x)
  <2>1. CASE c = a
    BY <2>1 DEF Differs
  <2>2. CASE c # a
    BY <1>1, <2>2, EqvReflexive DEF Differs
  <2>. QED  BY <2>1, <2>2
<1>3. Eqv(s, x, b)
  BY DEF Fit
<1>4. Below(g, c, s, i) = b + m - n
  BY BelowOne DEF Differs
<1>5. Eqv(s, e, m - n)
  <2>1. CASE c = p
    BY <2>1 DEF Differs
  <2>2. CASE c # p
    <3>1. Eqv(s, m, n) /\ e = 0
      BY <2>2 DEF Differs
    <3>. HIDE DEF m, n, e
    <3>2. Eqv(s, m - n, n - n) /\ n - n = 0 /\ m - n \in Int
      BY <1>1, <3>1, EqvReflexive, EqvPlus
    <3>. QED  BY <3>1, <3>2, EqvSymmetric
  <2>. QED  BY <2>1, <2>2
<1>. HIDE DEF x, y, b, m, n, e
<1>6. Eqv(s, y, b)
  BY <1>1, <1>2, <1>3, EqvTransitive
<1>7. Eqv(s, y + e, b + (m - n)) /\ b + (m - n) = b + m - n
  <2>1. m - n \in Int
    BY <1>1
  <2>. QED  BY <1>1, <1>5, <1>6, <2>1, EqvPlus
<1>. QED  BY <1>4, <1>7 DEF y, e

\* What an account brings to all ancestors shifts upwards.
LEMMA BringsShifts ==
    ASSUME NEW x \in Amounts
    PROVE  /\ Brings(x) \in Gains /\ Shifts(Brings(x)) /\ Brings(x)[1] = InLine(1, x)
           /\ (\A s \in Sums : x[s] = 0) => NoGain(Brings(x))
<1>1. Brings(x) \in Gains /\ Brings(x) \in [1..Depth -> LineSums]
  BY BringsGains DEF Gains
<1>2. ASSUME NEW s \in Sums, NEW k \in 1..Depth, NEW i \in Lines
      PROVE  Brings(x)[k][s][i] = IF i = k THEN x[s] ELSE 0
  BY <1>2 DEF Brings, InLine
<1>3. \A i \in 0..(Depth - 1) : i \in Lines
  BY Constants DEF Lines
<1>4. \A s \in Sums, k \in 1..Depth, i \in 0..(Depth - 1) : i < k => Brings(x)[k][s][i] = 0
  BY <1>2, <1>3
<1>5. ASSUME NEW s \in Sums, NEW k \in 1..(Depth - 1), NEW i \in Inner
      PROVE  Brings(x)[k + 1][s][i] = Brings(x)[k][s][i - 1]
  <2>1. k \in 1..Depth /\ k + 1 \in 1..Depth /\ i \in Lines /\ i - 1 \in Lines
        /\ (i = k + 1 <=> i - 1 = k)
    BY Constants DEF Inner, Lines
  <2>. QED  BY <1>2, <2>1
<1>6. Shifts(Brings(x))
  BY <1>1, <1>4, <1>5 DEF Shifts
<1>7. Brings(x)[1] = InLine(1, x)
  BY Constants DEF Brings
<1>8. (\A s \in Sums : x[s] = 0) => NoGain(Brings(x))
  BY <1>2 DEF NoGain
<1>. QED  BY <1>1, <1>6, <1>7, <1>8

\* What comes to a parent at a level.
LEMMA InLineValue ==
    ASSUME NEW x \in Amounts, NEW k \in Nat, NEW s \in Sums, NEW i \in Lines
    PROVE  /\ InLine(k, x)[s][i] = (IF i = k THEN x[s] ELSE 0)
           /\ InLine(k, x)[s][i] \in Int /\ x[s] \in Int
BY DEF InLine, Amounts

\* The lines of the compressed account shift upwards, too.
LEMMA RisingsShifts ==
    ASSUME NEW r \in Records
    PROVE  /\ Risings(r) \in Gains /\ Shifts(Risings(r))
           /\ \A s \in Sums, i \in Inner :
                Risings(r)[1][s][i] = IF i = 1 THEN r.lines[s][1]
                                      ELSE r.lines[s][i] - r.lines[s][i - 1]
<1>1. Risings(r) \in Gains /\ Risings(r) \in [1..Depth -> LineSums]
  BY RisingsGains DEF Gains
<1>2. ASSUME NEW s \in Sums, NEW k \in 1..Depth, NEW i \in Lines
      PROVE  Risings(r)[k][s][i] = Popped(r.lines[s], k, i)
  BY <1>2 DEF Risings
<1>3. ASSUME NEW s \in Sums, NEW k \in 1..Depth, NEW i \in 0..(Depth - 1), i < k
      PROVE  Risings(r)[k][s][i] = 0
  <2>1. i \in Lines /\ i # k /\ ~(i > k)
    BY <1>3, Constants DEF Lines
  <2>. QED  BY <1>2, <2>1 DEF Popped
<1>4. ASSUME NEW s \in Sums, NEW k \in 1..(Depth - 1), NEW i \in Inner
      PROVE  Risings(r)[k + 1][s][i] = Risings(r)[k][s][i - 1]
  <2> DEFINE u == r.lines[s]
  <2>1. k \in 1..Depth /\ k + 1 \in 1..Depth /\ i \in Lines /\ i - 1 \in Lines
    BY Constants DEF Inner, Lines
  <2>2. Popped(u, k + 1, i) = Popped(u, k, i - 1)
    <3>. HIDE DEF u
    <3>1. CASE i = k + 1
      <4>1. i - 1 = k
        BY <3>1
      <4>. QED  BY <3>1, <4>1 DEF Popped
    <3>2. CASE i > k + 1
      <4>1. i - 1 # k /\ i - 1 > k /\ i - 1 < Depth /\ i < Depth /\ i # k + 1
        BY <3>2, Constants DEF Inner
      <4>2. i - (k + 1) + 1 = (i - 1) - k + 1 /\ i - (k + 1) = (i - 1) - k
        BY Constants DEF Inner
      <4>3. Popped(u, k + 1, i) = u[i - (k + 1) + 1] - u[i - (k + 1)]
        BY <3>2, <4>1 DEF Popped
      <4>4. Popped(u, k, i - 1) = u[(i - 1) - k + 1] - u[(i - 1) - k]
        BY <4>1 DEF Popped
      <4>. QED  BY <4>2, <4>3, <4>4
    <3>3. CASE i < k + 1
      <4>1. i - 1 # k /\ ~(i - 1 > k) /\ i # k + 1 /\ ~(i > k + 1)
        BY <3>3, Constants DEF Inner
      <4>. QED  BY <4>1 DEF Popped
    <3>. QED  BY <3>1, <3>2, <3>3, Constants DEF Inner
  <2>. QED  BY <1>2, <2>1, <2>2
<1>5. Shifts(Risings(r))
  BY <1>1, <1>3, <1>4 DEF Shifts
<1>6. ASSUME NEW s \in Sums, NEW i \in Inner
      PROVE  Risings(r)[1][s][i] = IF i = 1 THEN r.lines[s][1]
                                   ELSE r.lines[s][i] - r.lines[s][i - 1]
  <2>1. i \in Lines /\ 1 \in 1..Depth /\ i - 1 + 1 = i
    BY Constants DEF Inner, Lines
  <2>2. Risings(r)[1][s][i] = Popped(r.lines[s], 1, i)
    BY <1>2, <2>1
  <2>3. i # 1 => i > 1 /\ i < Depth
    BY Constants DEF Inner
  <2>. QED  BY <2>1, <2>2, <2>3 DEF Popped
<1>. QED  BY <1>1, <1>5, <1>6

-----------------------------------------------------------------------------
(* Changes of the tree, and what the lines then lack.                      *)

\* The lines of the records are exact, as far as they are kept.
LinesFit(f) == Fit(f) /\ \A a \in Accounts : Counted(f[a])

\* Whoever has no referrals has nobody in his lines.
LEMMA BarrenLines ==
    ASSUME NEW f \in [Accounts -> Records], Fit(f), NEW a \in Accounts, Kids(f, a) = {}
    PROVE  \A s \in Sums, i \in Inner : Eqv(s, f[a].lines[s][i], 0)
<1>1. ASSUME NEW s \in Sums, NEW i \in Inner PROVE Eqv(s, f[a].lines[s][i], 0)
  <2>1. Below(f, a, s, i) = 0
    BY SumEmpty DEF Below
  <2>2. Eqv(s, f[a].lines[s][i], Below(f, a, s, i))
    BY DEF Fit
  <2>. QED  BY <2>1, <2>2
<1>. QED  BY <1>1

\* The account a, in nobody's lists and without referrals, becomes a referral
\* of p with the record r, and brings x.
Adds(f, a, r, p, x) ==
    /\ LinesFit(f) /\ a \in Accounts /\ r \in Records /\ p \in Parents
    /\ r.referrer = p /\ ~r.banished /\ Counted(r) /\ x \in Amounts
    /\ Kids(f, a) = {} /\ \A c \in Parents : c = p \/ c # None => a \notin Kids(f, c)
    /\ r.lines = f[a].lines \/ \A s \in Sums, i \in Inner : r.lines[s][i] = 0
    /\ \A s \in Sums : r.lines[s][0] = x[s]

\* Who joins leaves his referrer without what he brings.
LEMMA AddsFits ==
    ASSUME NEW f \in [Accounts -> Records], NEW a, NEW r, NEW p, NEW x, Adds(f, a, r, p, x),
           NEW g, g = [f EXCEPT ![a] = r]
    PROVE  FitBut(g, p, InLine(1, x)) /\ \A c \in Accounts : Counted(g[c])
<1>1. g \in [Accounts -> Records] /\ g[a] = r /\ \A c \in Accounts \ {a} : g[c] = f[c]
  BY DEF Adds
<1>2. \A c \in Accounts : Counted(g[c])
  BY <1>1 DEF Adds, LinesFit
<1>3. a \in Accounts /\ Fit(f) /\ Kids(f, a) = {} /\ p \in Parents /\ x \in Amounts
  BY DEF Adds, LinesFit
<1>4. ASSUME NEW s \in Sums, NEW i \in Inner
      PROVE  /\ f[a].lines[s][i] \in Int /\ r.lines[s][i] \in Int /\ i \in Lines
             /\ Eqv(s, f[a].lines[s][i], 0) /\ Eqv(s, r.lines[s][i], 0)
  <2>1. f[a].lines[s][i] \in Int /\ g[a].lines[s][i] \in Int /\ i \in Lines
    BY <1>1, <1>3, BelowType, LineFields
  <2>2. Eqv(s, f[a].lines[s][i], 0)
    BY <1>3, BarrenLines
  <2>3. Eqv(s, r.lines[s][i], 0)
    <3>1. Eqv(s, 0, 0)
      BY EqvReflexive
    <3>. QED  BY <2>2, <3>1 DEF Adds
  <2>. QED  BY <1>1, <2>1, <2>2, <2>3
<1>5. ASSUME NEW s \in Sums, NEW i \in Inner
      PROVE  Eqv(s, g[a].lines[s][i], f[a].lines[s][i])
  <2>1. /\ f[a].lines[s][i] \in Int /\ r.lines[s][i] \in Int
        /\ Eqv(s, f[a].lines[s][i], 0) /\ Eqv(s, r.lines[s][i], 0)
    BY <1>4
  <2>2. Eqv(s, 0, f[a].lines[s][i])
    BY <2>1, EqvSymmetric
  <2>3. Eqv(s, r.lines[s][i], f[a].lines[s][i])
    BY <2>1, <2>2, EqvTransitive
  <2>. QED  BY <1>1, <2>3
<1>6. ASSUME NEW c \in Accounts, NEW s \in Sums, NEW i \in Inner
      PROVE  Part(f, a, c, s, i) = 0
  <2>1. c \in Parents /\ c # None
      BY Constants DEF Parents
  <2>. QED  BY <2>1 DEF Part, Adds
<1>7. ASSUME NEW s \in Sums, NEW i \in Inner PROVE Part(f, a, p, s, i) = 0
  BY DEF Part, Adds
<1>8. ASSUME NEW c \in Accounts \ {p}, NEW s \in Sums, NEW i \in Inner
      PROVE  Part(g, a, c, s, i) = 0
  <2>1. a \notin Kids(g, c)
    BY <1>1, <1>8 DEF Kids, Adds
  <2>. QED  BY <2>1 DEF Part
<1>9. ASSUME NEW s \in Sums, NEW i \in Inner
      PROVE  /\ InLine(1, x)[s][i] \in Int
             /\ Eqv(s, InLine(1, x)[s][i], Part(g, a, p, s, i) - Part(f, a, p, s, i))
  <2>1. i \in Lines /\ i - 1 \in Lines /\ g[a].lines[s][i - 1] \in Int
    BY <1>1, <1>3, BelowType, LineFields
  <2>2. /\ InLine(1, x)[s][i] = (IF i = 1 THEN x[s] ELSE 0)
        /\ InLine(1, x)[s][i] \in Int /\ x[s] \in Int
    BY <1>3, <2>1, InLineValue
  <2>3. Part(g, a, p, s, i) = g[a].lines[s][i - 1]
    <3>1. a \in Kids(g, p)
      BY <1>1 DEF Kids, Adds
    <3>. QED  BY <3>1 DEF Part
  <2>4. Part(g, a, p, s, i) - Part(f, a, p, s, i) = r.lines[s][i - 1] /\ r.lines[s][i - 1] \in Int
    BY <1>1, <1>7, <2>1, <2>3
  <2>5. CASE i = 1
    <3>1. r.lines[s][i - 1] = x[s]
      BY <2>5 DEF Adds
    <3>. QED  BY <2>2, <2>4, <2>5, <3>1, EqvReflexive
  <2>6. CASE i # 1
    <3>1. i - 1 \in Inner
      BY <2>6, Constants DEF Inner
    <3>2. Eqv(s, r.lines[s][i - 1], 0)
      BY <1>4, <3>1
    <3>3. Eqv(s, 0, r.lines[s][i - 1])
      BY <2>4, <3>2, EqvSymmetric
    <3>. QED  BY <2>2, <2>4, <2>6, <3>3
  <2>. QED  BY <2>5, <2>6
<1>10. ASSUME NEW c \in Accounts \ {p}, NEW s \in Sums, NEW i \in Inner
       PROVE  Eqv(s, Part(g, a, c, s, i), Part(f, a, c, s, i))
  <2>1. Eqv(s, 0, 0)
    BY EqvReflexive
  <2>. QED  BY <1>6, <1>8, <2>1
<1>11. Differs(f, g, a, p, InLine(1, x))
  BY <1>1, <1>5, <1>9, <1>10 DEF Differs
<1>. QED  BY <1>1, <1>2, <1>3, <1>11, OneFits

\* The account a, without referrals, leaves the lists of its referrer.
Leaves(f, a, r, x) ==
    /\ LinesFit(f) /\ a \in Accounts /\ r \in Records
    /\ r.referrer = f[a].referrer /\ r.banished /\ ~f[a].banished /\ r.active = f[a].active
    /\ r.lines = f[a].lines /\ Kids(f, a) = {} /\ x \in Amounts
    /\ \A s \in Sums : f[a].lines[s][0] = -x[s]

\* Who leaves leaves his referrer with what he had.
LEMMA LeavesFits ==
    ASSUME NEW f \in [Accounts -> Records], NEW a, NEW r, NEW x, Leaves(f, a, r, x),
           NEW g, g = [f EXCEPT ![a] = r]
    PROVE  FitBut(g, f[a].referrer, InLine(1, x)) /\ \A c \in Accounts : Counted(g[c])
<1> DEFINE p == f[a].referrer
<1>1. g \in [Accounts -> Records] /\ g[a] = r /\ \A c \in Accounts \ {a} : g[c] = f[c]
  BY DEF Leaves
<1>2. \A c \in Accounts : Counted(g[c])
  <2>1. Counted(r)
    BY DEF Leaves, LinesFit, Counted, Ranged, Flag
  <2>. QED  BY <1>1, <2>1 DEF Leaves, LinesFit
<1>3. a \in Accounts /\ Fit(f) /\ Kids(f, a) = {} /\ x \in Amounts
  BY DEF Leaves, LinesFit
<1>4. ASSUME NEW s \in Sums, NEW i \in Inner
      PROVE  Eqv(s, g[a].lines[s][i], f[a].lines[s][i])
  <2>1. f[a].lines[s][i] \in Int
    BY <1>3, BelowType, LineFields
  <2>2. g[a].lines[s][i] = f[a].lines[s][i]
    BY <1>1 DEF Leaves
  <2>. QED  BY <2>1, <2>2, EqvReflexive
<1>5. ASSUME NEW c, NEW s \in Sums, NEW i \in Inner
      PROVE  Part(g, a, c, s, i) = 0
  BY <1>1 DEF Part, Kids, Leaves
<1>6. ASSUME NEW c \in Accounts \ {p}, NEW s \in Sums, NEW i \in Inner
      PROVE  Eqv(s, Part(g, a, c, s, i), Part(f, a, c, s, i))
  <2>1. Part(f, a, c, s, i) = 0
    BY <1>6 DEF Part, Kids
  <2>2. Eqv(s, 0, 0)
    BY EqvReflexive
  <2>. QED  BY <1>5, <2>1, <2>2
<1>7. ASSUME NEW s \in Sums, NEW i \in Inner
      PROVE  /\ InLine(1, x)[s][i] \in Int
             /\ Eqv(s, InLine(1, x)[s][i], Part(g, a, p, s, i) - Part(f, a, p, s, i))
  <2>1. i \in Lines /\ i - 1 \in Lines /\ f[a].lines[s][i - 1] \in Int
    BY <1>3, BelowType, LineFields
  <2>2. /\ InLine(1, x)[s][i] = (IF i = 1 THEN x[s] ELSE 0)
        /\ InLine(1, x)[s][i] \in Int /\ x[s] \in Int
    BY <1>3, <2>1, InLineValue
  <2>3. Part(f, a, p, s, i) = f[a].lines[s][i - 1]
    BY DEF Part, Kids, Leaves
  <2>4. Part(g, a, p, s, i) - Part(f, a, p, s, i) = 0 - f[a].lines[s][i - 1]
    BY <1>5, <2>3
  <2>5. CASE i = 1
    <3>1. f[a].lines[s][i - 1] = -x[s]
      BY <2>5 DEF Leaves
    <3>2. 0 - (-x[s]) = x[s]
      BY <2>2
    <3>. QED  BY <2>2, <2>4, <2>5, <3>1, <3>2, EqvReflexive
  <2>6. CASE i # 1
    <3>1. i - 1 \in Inner
      BY <2>6, Constants DEF Inner
    <3>2. Eqv(s, f[a].lines[s][i - 1], 0)
      BY <1>3, <3>1, BarrenLines
    <3>3. Eqv(s, 0, f[a].lines[s][i - 1]) /\ Eqv(s, 0, 0)
      BY <2>1, <3>2, EqvSymmetric, EqvReflexive
    <3>4. Eqv(s, 0 - 0, 0 - f[a].lines[s][i - 1]) /\ 0 - 0 = 0
      BY <2>1, <3>3, EqvPlus
    <3>. QED  BY <2>2, <2>4, <2>6, <3>4
  <2>. QED  BY <2>5, <2>6
<1>8. Differs(f, g, a, p, InLine(1, x))
  BY <1>1, <1>4, <1>6, <1>7 DEF Differs
<1>. QED  BY <1>1, <1>2, <1>3, <1>8, OneFits

\* The own line of the account a, and of its referrer's first line, gain x.
Gathers(f, a, r, x) ==
    /\ LinesFit(f) /\ a \in Accounts /\ r \in Records /\ x \in Amounts
    /\ r.referrer = f[a].referrer /\ r.banished = f[a].banished /\ Counted(r)
    /\ \A s \in Sums, i \in Lines :
         Eqv(s, r.lines[s][i], f[a].lines[s][i] + InLine(0, x)[s][i])

\* Whose own sums change leaves his referrer without the difference.
LEMMA GathersFits ==
    ASSUME NEW f \in [Accounts -> Records], NEW a, NEW r, NEW x, Gathers(f, a, r, x),
           NEW g, g = [f EXCEPT ![a] = r]
    PROVE  /\ f[a].banished => LinesFit(g)
           /\ ~f[a].banished => FitBut(g, f[a].referrer, InLine(1, x))
           /\ \A c \in Accounts : Counted(g[c])
<1> DEFINE p == f[a].referrer
<1>1. g \in [Accounts -> Records] /\ g[a] = r /\ \A c \in Accounts \ {a} : g[c] = f[c]
  BY DEF Gathers
<1>2. \A c \in Accounts : Counted(g[c])
  BY <1>1 DEF Gathers, LinesFit
<1>3. a \in Accounts /\ Fit(f) /\ x \in Amounts
  BY DEF Gathers, LinesFit
<1>4. ASSUME NEW s \in Sums, NEW i \in Lines
      PROVE  /\ f[a].lines[s][i] \in Int /\ g[a].lines[s][i] \in Int /\ x[s] \in Int
             /\ i = 0 => Eqv(s, g[a].lines[s][i], f[a].lines[s][i] + x[s])
             /\ i # 0 => Eqv(s, g[a].lines[s][i], f[a].lines[s][i])
  <2>1. f[a].lines[s][i] \in Int /\ g[a].lines[s][i] \in Int
    BY <1>1, <1>3, LineFields
  <2>2. InLine(0, x)[s][i] = (IF i = 0 THEN x[s] ELSE 0) /\ x[s] \in Int
    BY <1>3, InLineValue
  <2>3. Eqv(s, g[a].lines[s][i], f[a].lines[s][i] + InLine(0, x)[s][i])
    BY <1>1 DEF Gathers
  <2>4. f[a].lines[s][i] + 0 = f[a].lines[s][i]
    BY <2>1
  <2>. QED  BY <2>1, <2>2, <2>3, <2>4
<1>5. \A c : Kids(g, c) = Kids(f, c)
  BY <1>1 DEF Kids, Gathers
<1>6. CASE f[a].banished
  <2>1. ASSUME NEW c \in Accounts, NEW s \in Sums, NEW i \in Inner
        PROVE  Eqv(s, g[c].lines[s][i], f[c].lines[s][i])
    <3>1. i \in Lines /\ i # 0
      BY Constants DEF Inner, Lines
    <3>2. f[c].lines[s][i] \in Int
      BY <3>1, LineFields
    <3>. QED  BY <1>1, <1>4, <3>1, <3>2, EqvReflexive
  <2>2. ASSUME NEW c \in Accounts, NEW s \in Sums, c \in Kids(f, f[c].referrer)
        PROVE  Eqv(s, g[c].lines[s][0], f[c].lines[s][0])
    <3>1. c # a /\ f[c].lines[s][0] \in Int
      BY <1>6, <2>2, LineFields, Constants DEF Kids
    <3>. QED  BY <1>1, <3>1, EqvReflexive
  <2>3. Fit(g)
    BY <1>1, <1>3, <1>5, <2>1, <2>2, StillFits
  <2>. QED  BY <1>2, <1>6, <2>3 DEF LinesFit
<1>7. CASE ~f[a].banished
  <2>1. ASSUME NEW s \in Sums, NEW i \in Inner
        PROVE  Eqv(s, g[a].lines[s][i], f[a].lines[s][i])
    <3>1. i \in Lines /\ i # 0
      BY Constants DEF Inner, Lines
    <3>. QED  BY <1>4, <3>1
  <2>2. ASSUME NEW c \in Accounts \ {p}, NEW s \in Sums, NEW i \in Inner
        PROVE  Eqv(s, Part(g, a, c, s, i), Part(f, a, c, s, i))
    <3>1. Part(f, a, c, s, i) = 0 /\ Part(g, a, c, s, i) = 0
      BY <1>5, <2>2 DEF Part, Kids
    <3>2. Eqv(s, 0, 0)
      BY EqvReflexive
    <3>. QED  BY <3>1, <3>2
  <2>3. ASSUME NEW s \in Sums, NEW i \in Inner
        PROVE  /\ InLine(1, x)[s][i] \in Int
               /\ Eqv(s, InLine(1, x)[s][i], Part(g, a, p, s, i) - Part(f, a, p, s, i))
    <3> DEFINE m == g[a].lines[s][i - 1]
               n == f[a].lines[s][i - 1]
               d == InLine(1, x)[s][i]
    <3>1. i \in Lines /\ i - 1 \in Lines /\ m \in Int /\ n \in Int /\ x[s] \in Int
      <4>1. i \in Lines /\ i - 1 \in Lines
        BY Constants DEF Inner, Lines
      <4>. QED  BY <1>4, <4>1
    <3>2. d = (IF i = 1 THEN x[s] ELSE 0) /\ d \in Int
      BY <1>3, <3>1, InLineValue
    <3>3. Part(f, a, p, s, i) = n /\ Part(g, a, p, s, i) = m
      BY <1>3, <1>5, <1>7 DEF Part, Kids
    <3>4. Eqv(s, m, n + d)
      <4>1. CASE i = 1
        BY <1>4, <3>1, <3>2, <4>1
      <4>2. CASE i # 1
        <5>1. i - 1 # 0 /\ n + 0 = n
          BY <3>1, <4>2, Constants DEF Inner
        <5>. QED  BY <1>4, <3>1, <3>2, <4>2, <5>1
      <4>. QED  BY <4>1, <4>2
    <3>5. Eqv(s, d, m - n)
      <4>. HIDE DEF m, n, d
      <4>1. Eqv(s, n, n) /\ n + d \in Int
        BY <3>1, <3>2, EqvReflexive
      <4>2. m \in Int /\ n \in Int /\ d \in Int
        BY <3>1, <3>2
      <4>3. Eqv(s, m - n, (n + d) - n)
        BY <3>4, <4>1, <4>2, EqvPlus
      <4>4. (n + d) - n = d /\ m - n \in Int
        BY <4>2
      <4>. QED  BY <4>2, <4>3, <4>4, EqvSymmetric
    <3>. QED  BY <3>2, <3>3, <3>5
  <2>4. Differs(f, g, a, p, InLine(1, x))
    BY <1>1, <2>1, <2>2, <2>3 DEF Differs
  <2>. QED  BY <1>1, <1>2, <1>3, <1>7, <2>4, OneFits
<1>. QED  BY <1>6, <1>7

\* The referrals of a have become those of its referrer p, and the lines of a are
\* bare.
RisesTo(f, g, a, p) ==
    /\ LinesFit(f) /\ a \in Accounts /\ p \in Accounts /\ p = f[a].referrer /\ p # a
    /\ ~f[a].active /\ ~f[a].banished
    /\ \A c \in Accounts :
         /\ g[c].banished = f[c].banished /\ g[c].active = f[c].active
         /\ g[c].referrer = IF c \in Kids(f, a) THEN p ELSE f[c].referrer
         /\ c # a => g[c].lines = f[c].lines
    /\ \A s \in Sums, i \in Lines :
         g[a].lines[s][i] = IF i = 0 /\ s # "counts" THEN f[a].lines[s][0] ELSE 0

\* Whose referrals they are after a compression.
LEMMA RisenKids ==
    ASSUME NEW f, NEW g, NEW a, NEW p, RisesTo(f, g, a, p)
    PROVE  /\ Kids(g, a) = {} /\ Kids(g, p) = Kids(f, p) \cup Kids(f, a)
           /\ Kids(f, p) \cap Kids(f, a) = {} /\ a \in Kids(f, p) /\ a \notin Kids(f, a)
           /\ \A c \in Accounts \ {a, p} : Kids(g, c) = Kids(f, c) /\ a \notin Kids(f, c)
BY DEF RisesTo, Kids

\* In the first line of a, which is inactive, there are his coins.
LEMMA RisenOwn ==
    ASSUME NEW f \in [Accounts -> Records], NEW g \in [Accounts -> Records], NEW a, NEW p,
           RisesTo(f, g, a, p), NEW s \in Sums, NEW i \in Inner
    PROVE  g[a].lines[s][i - 1] = (IF i = 1 THEN f[a].lines[s][0] ELSE 0)
<1>1. i \in Lines /\ i - 1 \in Lines
  BY Constants DEF Inner, Lines
<1>2. f[a].lines["counts"][0] = 0
  BY DEF RisesTo, LinesFit, Counted, Flag
<1>3. g[a].lines[s][i - 1] = IF i - 1 = 0 /\ s # "counts" THEN f[a].lines[s][0] ELSE 0
  BY <1>1 DEF RisesTo
<1>4. i - 1 = 0 <=> i = 1
  BY DEF Inner
<1>. QED  BY <1>2, <1>3, <1>4

\* What the referrer of a lacks are the lines of a, one line further up.
LEMMA RisenBelow ==
    ASSUME NEW f \in [Accounts -> Records], NEW g \in [Accounts -> Records], NEW a, NEW p,
           RisesTo(f, g, a, p), NEW s \in Sums, NEW i \in Inner
    PROVE  Eqv(s, f[p].lines[s][i] + Risings(f[a])[1][s][i], Below(g, p, s, i))
<1> DEFINE F == LineAt(f, s, i - 1)
           G == LineAt(g, s, i - 1)
           K == Kids(f, p)
           R == Kids(f, a)
           x == f[p].lines[s][i]
           n == f[a].lines[s][i]
           m == f[a].lines[s][i - 1]
           z == g[a].lines[s][i - 1]
           rest == SumOver(F, K \ {a})
           b == Below(f, a, s, i)
<1>0. a \in Accounts /\ p \in Accounts /\ Fit(f)
  BY DEF RisesTo, LinesFit
<1>1. /\ x \in Int /\ n \in Int /\ m \in Int /\ z \in Int /\ b \in Int
      /\ i \in Lines /\ i - 1 \in Lines
  <2>1. i \in Lines /\ i - 1 \in Lines /\ b \in Int
    BY BelowType
  <2>. QED  BY <1>0, <2>1, LineFields
<1>2. rest \in Int /\ Below(f, p, s, i) = rest + m
  <2>1. rest \in Int /\ Below(f, p, s, i) = rest + Part(f, a, p, s, i)
    BY BelowRest
  <2>. QED  BY <2>1, RisenKids DEF Part
<1>3. Eqv(s, x, rest + m) /\ Eqv(s, n, b)
  BY <1>0, <1>2 DEF Fit
<1>4. Below(g, p, s, i) = rest + z + b
  <2>1. /\ IsFiniteSet(K) /\ IsFiniteSet(R) /\ IsFiniteSet(K \ {a})
        /\ K \subseteq Accounts /\ R \subseteq Accounts
    BY KidsFinite, FS_Subset
  <2>2. \A y \in Accounts : G[y] \in Int /\ G[y] = g[y].lines[s][i - 1]
                            /\ F[y] = f[y].lines[s][i - 1]
    BY <1>1, LineFields
  <2>3. Below(g, p, s, i) = SumOver(G, K \cup R)
    BY RisenKids DEF Below
  <2>4. K \cap R = {} /\ a \in K /\ a \notin R
    BY RisenKids
  <2>5. \A y \in Accounts \ {a} : G[y] = F[y]
    BY <2>2 DEF RisesTo
  <2>6. b = SumOver(F, R)
    BY DEF Below
  <2>. HIDE DEF F, G, K, R
  <2>7. SumOver(G, K \cup R) = SumOver(G, K) + SumOver(G, R)
    BY <2>1, <2>2, <2>4, SumUnion
  <2>8. SumOver(G, R) = SumOver(F, R)
    <3>1. \A y \in R : G[y] = F[y]
      BY <2>1, <2>4, <2>5
    <3>. QED  BY <2>1, <3>1, SumAgree
  <2>9. SumOver(G, K) = rest + G[a]
    <3> DEFINE M == K \ {a}
    <3>1. IsFiniteSet(M) /\ a \notin M /\ M \cup {a} = K /\ \A y \in M \cup {a} : G[y] \in Int
      BY <2>1, <2>2, <2>4
    <3>2. \A y \in M : G[y] = F[y]
      BY <2>1, <2>5
    <3>3. rest = SumOver(F, M)
      OBVIOUS
    <3>. HIDE DEF M
    <3>4. SumOver(G, M \cup {a}) = SumOver(G, M) + G[a]
      BY <3>1, SumAdd
    <3>5. SumOver(G, M) = SumOver(F, M)
      BY <3>1, <3>2, SumAgree
    <3>. QED  BY <3>1, <3>3, <3>4, <3>5
  <2>10. G[a] = z
    BY <1>0, <2>2
  <2>. QED  BY <2>3, <2>6, <2>7, <2>8, <2>9, <2>10
<1>5. z = IF i = 1 THEN f[a].lines[s][0] ELSE 0
  BY RisenOwn
<1>6. Risings(f[a])[1][s][i] = IF i = 1 THEN f[a].lines[s][1] ELSE n - m
  BY <1>0, RisingsShifts
<1>7. i = 1 => n = f[a].lines[s][1] /\ m = f[a].lines[s][0]
  OBVIOUS
<1>. DEFINE d == Risings(f[a])[1][s][i]
<1>8. d = (IF i = 1 THEN n ELSE n - m) /\ z = (IF i = 1 THEN m ELSE 0)
  BY <1>5, <1>6, <1>7
<1>. HIDE DEF d, x, n, m, z, rest, b
<1>9. Eqv(s, x + d, rest + z + b)
  <2>1. CASE i = 1
    <3>1. rest + m \in Int
      BY <1>1, <1>2
    <3>2. Eqv(s, x + n, (rest + m) + b)
      BY <1>1, <1>3, <3>1, EqvPlus
    <3>. QED  BY <1>8, <2>1, <3>2
  <2>2. CASE i # 1
    <3>1. rest + m \in Int /\ n - m \in Int /\ b - m \in Int
      BY <1>1, <1>2
    <3>2. Eqv(s, m, m)
      BY <1>1, EqvReflexive
    <3>3. Eqv(s, n - m, b - m)
      BY <1>1, <1>3, <3>2, EqvPlus
    <3>4. Eqv(s, x + (n - m), (rest + m) + (b - m))
      BY <1>1, <1>3, <3>1, <3>3, EqvPlus
    <3>5. (rest + m) + (b - m) = rest + 0 + b
      BY <1>1, <1>2
    <3>. QED  BY <1>8, <2>2, <3>4, <3>5
  <2>. QED  BY <2>1, <2>2
<1>. QED  BY <1>4, <1>9 DEF x, d

(***************************************************************************)
(* Compression leaves only the referrer's lines to be made up for.         *)
(***************************************************************************)
LEMMA RisenFits ==
    ASSUME NEW f \in [Accounts -> Records], NEW g \in [Accounts -> Records], NEW a, NEW p,
           RisesTo(f, g, a, p)
    PROVE  FitBut(g, p, Risings(f[a])[1]) /\ \A c \in Accounts : Counted(g[c])
<1>0. a \in Accounts /\ p \in Accounts /\ p # a /\ Fit(f)
  BY DEF RisesTo, LinesFit
<1>1. ASSUME NEW c \in Accounts PROVE Counted(g[c])
  <2>1. Counted(f[c])
    BY DEF RisesTo, LinesFit
  <2>2. CASE c # a
    BY <2>1, <2>2 DEF RisesTo, Counted, Ranged, Flag
  <2>3. CASE c = a
    <3>1. "counts" \in Sums /\ 0 \in Lines /\ 0 \in 0..(CountLimit - 1)
      BY Constants DEF Sums
    <3>2. \A i \in Lines : g[a].lines["counts"][i] = 0
      BY <3>1 DEF RisesTo
    <3>. QED  BY <2>3, <3>1, <3>2 DEF RisesTo, Counted, Ranged, Flag
  <2>. QED  BY <2>2, <2>3
<1>2. ASSUME NEW c \in Accounts, NEW s \in Sums, NEW i \in Inner
      PROVE  Eqv(s, g[c].lines[s][i] + (IF c = p THEN Risings(f[a])[1][s][i] ELSE 0),
                 Below(g, c, s, i))
  <2>0. i \in Lines /\ i - 1 \in Lines /\ g[c].lines[s][i] \in Int
    BY BelowType, LineFields
  <2>1. CASE c = p
    <3>1. g[p].lines = f[p].lines
      BY DEF RisesTo
    <3>. QED  BY <2>1, <3>1, RisenBelow
  <2>2. CASE c = a
    <3>1. g[a].lines[s][i] = 0
      BY <2>0, Constants DEF RisesTo, Inner
    <3>2. Below(g, a, s, i) = 0
      BY RisenKids, SumEmpty DEF Below
    <3>3. Eqv(s, 0 + 0, 0)
      BY EqvReflexive
    <3>. QED  BY <1>0, <2>2, <3>1, <3>2, <3>3
  <2>3. CASE c # p /\ c # a
    <3>1. Kids(f, c) = Kids(g, c) /\ a \notin Kids(f, c)
      BY <2>3, RisenKids
    <3>2. \A x \in Kids(f, c) : Eqv(s, g[x].lines[s][i - 1], f[x].lines[s][i - 1])
      <4>1. ASSUME NEW x \in Kids(f, c)
            PROVE  Eqv(s, g[x].lines[s][i - 1], f[x].lines[s][i - 1])
        <5>1. x \in Accounts /\ x # a
          BY <3>1, KidsFinite
        <5>2. g[x].lines = f[x].lines /\ f[x].lines[s][i - 1] \in Int
          BY <2>0, <5>1, LineFields DEF RisesTo
        <5>. QED  BY <5>2, EqvReflexive
      <4>. QED  BY <4>1
    <3>3. Eqv(s, Below(g, c, s, i), Below(f, c, s, i))
      BY <3>1, <3>2, BelowAgree
    <3>4. Below(f, c, s, i) \in Int /\ Below(g, c, s, i) \in Int
      BY BelowType
    <3>5. Eqv(s, Below(f, c, s, i), Below(g, c, s, i))
      BY <3>3, <3>4, EqvSymmetric
    <3>6. g[c].lines[s][i] = f[c].lines[s][i] /\ Eqv(s, f[c].lines[s][i], Below(f, c, s, i))
      BY <1>0, <2>3 DEF RisesTo, Fit
    <3>7. Eqv(s, g[c].lines[s][i], Below(g, c, s, i))
      BY <2>0, <3>4, <3>5, <3>6, EqvTransitive
    <3>8. g[c].lines[s][i] + 0 = g[c].lines[s][i]
      BY <2>0
    <3>. QED  BY <2>3, <3>7, <3>8
  <2>. QED  BY <2>1, <2>2, <2>3
<1>. QED  BY <1>1, <1>2 DEF FitBut

-----------------------------------------------------------------------------
(* Transitions.                                                            *)

\* What the lines of s are to its ancestors, level by level: taken or given.
Casts(s, sign) ==
    [k \in 1..Depth |->
       [l \in Sums |-> [i \in Lines |-> IF i < k THEN 0 ELSE sign * s.lines[l][i - k]]]]

\* What the ancestors lose or gain by a transition.
LEMMA CastsValue ==
    ASSUME NEW s \in Records, NEW sign \in {-1, 1}, NEW l \in Sums, NEW k \in 1..Depth,
           NEW i \in Lines
    PROVE  /\ Casts(s, sign)[k][l][i] \in Int
           /\ i < k => Casts(s, sign)[k][l][i] = 0
           /\ ~(i < k) => /\ i - k \in Lines /\ s.lines[l][i - k] \in Int
                          /\ Casts(s, sign)[k][l][i] =
                               IF sign = 1 THEN s.lines[l][i - k] ELSE -s.lines[l][i - k]
<1>1. Casts(s, sign)[k][l][i] = IF i < k THEN 0 ELSE sign * s.lines[l][i - k]
  BY DEF Casts
<1>2. CASE i < k
  BY <1>1, <1>2
<1>3. CASE ~(i < k)
  <2> DEFINE y == s.lines[l][i - k]
  <2>1. i - k \in Lines
    BY <1>3, Constants DEF Lines
  <2>2. y \in Int
    BY <2>1, InfoFields DEF Records, LineSums
  <2>3. sign * y = IF sign = 1 THEN y ELSE -y
    <3>. HIDE DEF y
    <3>1. 1 * y = y /\ (-1) * y = -y
      BY <2>2
    <3>2. CASE sign = 1
      BY <3>1, <3>2
    <3>3. CASE sign = -1
      BY <3>1, <3>3
    <3>. QED  BY <3>2, <3>3
  <2>4. Casts(s, sign)[k][l][i] = IF sign = 1 THEN y ELSE -y
    BY <1>1, <1>3, <2>3
  <2>5. (IF sign = 1 THEN y ELSE -y) \in Int
    <3>. HIDE DEF y
    <3>. QED  BY <2>2
  <2>. QED  BY <1>3, <2>1, <2>2, <2>4, <2>5
<1>. QED  BY <1>2, <1>3

LEMMA CastsShifts ==
    ASSUME NEW s \in Records, NEW sign \in {-1, 1}
    PROVE  /\ Casts(s, sign) \in [1..Depth -> LineSums] /\ Shifts(Casts(s, sign))
           /\ \A k \in 1..Depth : Casts(s, sign)[k]["counts"][0] = 0
<1> DEFINE g == Casts(s, sign)
<1>1. g \in [1..Depth -> LineSums]
  <2>1. ASSUME NEW k \in 1..Depth, NEW l \in Sums, NEW i \in Lines
        PROVE  (IF i < k THEN 0 ELSE sign * s.lines[l][i - k]) \in Int
    <3>1. g[k][l][i] = IF i < k THEN 0 ELSE sign * s.lines[l][i - k]
      BY DEF Casts
    <3>2. g[k][l][i] \in Int
      BY CastsValue
    <3>. QED  BY <3>1, <3>2
  <2>. QED  BY <2>1 DEF Casts, LineSums
<1>2. \A t \in Sums, k \in 1..Depth, i \in 0..(Depth - 1) : i < k => g[k][t][i] = 0
  <2>1. ASSUME NEW t \in Sums, NEW k \in 1..Depth, NEW i \in 0..(Depth - 1), i < k
        PROVE  g[k][t][i] = 0
    <3>1. i \in Lines
      BY Constants DEF Lines
    <3>. QED  BY <2>1, <3>1, CastsValue
  <2>. QED  BY <2>1
<1>3. ASSUME NEW t \in Sums, NEW k \in 1..(Depth - 1), NEW i \in Inner
      PROVE  g[k + 1][t][i] = g[k][t][i - 1]
  <2>1. k \in 1..Depth /\ k + 1 \in 1..Depth /\ i \in Lines /\ i - 1 \in Lines
    BY Constants DEF Inner, Lines
  <2>2. (i < k + 1 <=> i - 1 < k) /\ i - (k + 1) = (i - 1) - k
    BY Constants DEF Inner
  <2>3. g[k + 1][t][i] = IF i < k + 1 THEN 0 ELSE sign * s.lines[t][i - (k + 1)]
    BY <2>1 DEF Casts
  <2>4. g[k][t][i - 1] = IF i - 1 < k THEN 0 ELSE sign * s.lines[t][(i - 1) - k]
    BY <2>1 DEF Casts
  <2>. QED  BY <2>2, <2>3, <2>4
<1>4. ASSUME NEW k \in 1..Depth PROVE g[k]["counts"][0] = 0
  <2>1. "counts" \in Sums /\ 0 \in Lines /\ 0 < k
    BY Constants DEF Sums, Lines
  <2>. QED  BY <2>1, CastsValue
<1>. QED  BY <1>1, <1>2, <1>3, <1>4 DEF Shifts

\* The level of an ancestor is written, if it has one.
Grows(more, gained, chain, k, d) ==
    /\ k <= Len(chain) => StepGains(more, gained, chain[k], d)
    /\ k > Len(chain) => more = gained

\* One step of the loop of AffirmTransition along the ancestors.
LEMMA ShiftComes ==
    ASSUME now \in Nat, NEW f \in [Accounts -> Records], NEW u \in Worlds, NEW gained, NEW more,
           u.broken \/ Comes(f, u.infos, gained), NEW s \in Records, NEW sign \in {-1, 1},
           NEW chain, Distinct(chain), NEW k \in 1..Depth, NEW link \in Links,
           Grows(more, gained, chain, k, Casts(s, sign)[k])
    PROVE  LET v == Shift(u, s, chain, k, link, sign)
           IN  v \in Worlds /\ (v.broken \/ Comes(f, v.infos, more))
<1> DEFINE v == Shift(u, s, chain, k, link, sign)
           L == Len(chain)
<1>1. L \in Nat /\ chain \in [1..L -> Accounts]
  BY DEF Distinct
<1>2. CASE k > L
  <2>1. v = u /\ more = gained
    BY <1>2 DEF Shift, Grows
  <2>. QED  BY <2>1
<1>3. CASE k <= L
  <2> DEFINE c == chain[k]
             r == u.infos[c]
             l == IF k = 1 THEN Linked(r, link) ELSE r
             d == Casts(s, sign)[k]
             q == Shifted(l, s.lines, k, sign)
  <2>1. c \in Accounts /\ StepGains(more, gained, c, d) /\ ~(k > L)
    BY <1>1, <1>3 DEF Grows
  <2>2. r \in Records /\ d \in LineSums
    BY <2>1, WorldFields, CastsShifts
  <2>3. v = Checked(u, c, q)
    BY <2>1 DEF Shift
  <2>4. q = Adjust(l, d)
    BY DEF Shifted, Casts
  <2>. HIDE DEF c, r, d
  <2>5. l \in Records /\ l.lines = r.lines /\ SameSeat(r, l)
    BY <2>2, LinkedRecord DEF SameSeat
  <2>. HIDE DEF l
  <2>6. Ranged(q) /\ \A t \in Sums, i \in Lines : Eqv(t, q.lines[t][i], r.lines[t][i] + d[t][i])
    BY <2>2, <2>4, <2>5, AdjustLines
  <2>7. q \in Records /\ SameSeat(l, q)
    <3>1. q \in Records /\ q = [l EXCEPT !.lines = q.lines]
      BY <2>2, <2>4, <2>5, AdjustRecord
    <3>2. l \in Info
      BY <2>5 DEF Records
    <3> DEFINE m == q.lines
    <3>3. q = [l EXCEPT !.lines = m]
      BY <3>1
    <3>. HIDE DEF q, m
    <3>. QED  BY <3>1, <3>2, <3>3 DEF SameSeat, Info
  <2>8. SameSeat(u.infos[c], q)
    BY <2>5, <2>7 DEF SameSeat, r
  <2>9. PICK check \in BOOLEAN : check = TRUE
    OBVIOUS
  <2>10. v = Written(check, u, c, q)
    BY <2>3, <2>9 DEF Written
  <2>. HIDE DEF q, v
  <2>11. v.broken \/ Comes(f, v.infos, more)
    <3>1. \A t \in Sums, i \in Lines : Eqv(t, q.lines[t][i], u.infos[c].lines[t][i] + d[t][i])
      BY <2>6 DEF r
    <3>2. LET z == Written(check, u, c, q) IN z.broken \/ Comes(f, z.infos, more)
      BY <2>1, <2>6, <2>7, <2>8, <3>1, WrittenComes
    <3>. QED  BY <2>10, <3>2
  <2>12. v \in Worlds
    <3>1. Writes(u, Checked(u, c, q), c, q)
      BY <2>1, <2>7, CheckedWrites
    <3>. QED  BY <2>3, <3>1 DEF Writes
  <2>. QED  BY <2>11, <2>12 DEF v
<1>. QED  BY <1>1, <1>2, <1>3

\* What comes to an account along two chains.
Together(x, y) ==
    [c \in Accounts |-> [l \in Sums |-> [i \in Lines |-> x[c][l][i] + y[c][l][i]]]]

\* Gains of both chains add up.
LEMMA TogetherGrows ==
    ASSUME NEW chain, Distinct(chain), NEW gain \in [1..Depth -> LineSums], NEW k \in 1..Depth,
           NEW y, \A c \in Accounts, l \in Sums, i \in Lines : y[c][l][i] \in Int,
           NEW x, x = Shares(chain, gain, k - 1), NEW z, z = Shares(chain, gain, k)
    PROVE  /\ Grows(Together(z, y), Together(x, y), chain, k, gain[k])
           /\ Grows(Together(y, z), Together(y, x), chain, k, gain[k])
<1>1. /\ k <= Len(chain) => StepGains(z, x, chain[k], gain[k])
      /\ k > Len(chain) => z = x
  BY SharesStep
<1>2. ASSUME k <= Len(chain), NEW c \in Accounts, NEW l \in Sums, NEW i \in Lines
      PROVE  LET d == IF c = chain[k] THEN gain[k][l][i] ELSE 0
             IN  /\ x[c][l][i] \in Int /\ gain[k][l][i] \in Int /\ y[c][l][i] \in Int /\ d \in Int
                 /\ z[c][l][i] = x[c][l][i] + d
  BY <1>1, <1>2 DEF StepGains
<1>3. ASSUME k <= Len(chain), NEW c \in Accounts, NEW l \in Sums, NEW i \in Lines
      PROVE  LET d == IF c = chain[k] THEN gain[k][l][i] ELSE 0
             IN  /\ x[c][l][i] + y[c][l][i] \in Int /\ y[c][l][i] + x[c][l][i] \in Int
                 /\ gain[k][l][i] \in Int
                 /\ z[c][l][i] + y[c][l][i] = (x[c][l][i] + y[c][l][i]) + d
                 /\ y[c][l][i] + z[c][l][i] = (y[c][l][i] + x[c][l][i]) + d
  <2> DEFINE d == IF c = chain[k] THEN gain[k][l][i] ELSE 0
             m == x[c][l][i]
             n == y[c][l][i]
             o == z[c][l][i]
  <2>1. m \in Int /\ gain[k][l][i] \in Int /\ n \in Int /\ d \in Int /\ o = m + d
    BY <1>2, <1>3
  <2>. HIDE DEF d, m, n, o
  <2>2. m + n \in Int /\ n + m \in Int /\ o + n = (m + n) + d /\ n + o = (n + m) + d
    BY <2>1
  <2>. QED  BY <2>1, <2>2 DEF d, m, n, o
<1>4. ASSUME k <= Len(chain)
      PROVE  /\ StepGains(Together(z, y), Together(x, y), chain[k], gain[k])
             /\ StepGains(Together(y, z), Together(y, x), chain[k], gain[k])
  BY <1>3, <1>4 DEF StepGains, Together
<1>. QED  BY <1>1, <1>4 DEF Grows

\* What has been taken from the old ancestors and given to the new ones.
Both(s, old, new, k) ==
    Together(Shares(old, Casts(s, -1), k), Shares(new, Casts(s, 1), k))

\* An ancestor in both chains loses by one and gains by the other.
LEMMA BothValue ==
    ASSUME NEW s \in Records, NEW old, NEW new, Distinct(old), Distinct(new), NEW k \in 0..Depth,
           NEW c \in Accounts, NEW l \in Sums, NEW i \in Lines
    PROVE  LET x == Shares(old, Casts(s, -1), k)[c][l][i]
               y == Shares(new, Casts(s, 1), k)[c][l][i]
           IN  x \in Int /\ y \in Int /\ Both(s, old, new, k)[c][l][i] = x + y
<1>1. -1 \in {-1, 1} /\ 1 \in {-1, 1}
  OBVIOUS
<1>2. Casts(s, -1) \in [1..Depth -> LineSums] /\ Casts(s, 1) \in [1..Depth -> LineSums]
  BY <1>1, CastsShifts
<1>3. Shares(old, Casts(s, -1), k)[c][l][i] \in Int
  BY <1>2, SharesValue
<1>4. Shares(new, Casts(s, 1), k)[c][l][i] \in Int
  BY <1>2, SharesValue
<1>. QED  BY <1>3, <1>4 DEF Both, Together

\* Where the two chains meet nothing changes.
LEMMA BothMeet ==
    ASSUME NEW s \in Records, NEW old, NEW new, Distinct(old), Distinct(new), NEW k \in 1..Depth,
           k <= Len(old), k <= Len(new), old[k] = new[k],
           NEW c \in Accounts, NEW l \in Sums, NEW i \in Lines
    PROVE  Both(s, old, new, k)[c][l][i] = Both(s, old, new, k - 1)[c][l][i]
<1> DEFINE out == Casts(s, -1)
           in == Casts(s, 1)
           x == Shares(old, out, k - 1)[c][l][i]
           y == Shares(new, in, k - 1)[c][l][i]
           d == out[k][l][i]
           e == in[k][l][i]
<1>1. -1 \in {-1, 1} /\ 1 \in {-1, 1} /\ k \in 0..Depth /\ k - 1 \in 0..Depth
  BY Constants
<1>2. out \in [1..Depth -> LineSums] /\ in \in [1..Depth -> LineSums]
  BY <1>1, CastsShifts
<1>3. d \in Int /\ e \in Int /\ d + e = 0
  <2>1. d \in Int /\ e \in Int /\ (i < k => d = 0 /\ e = 0)
    BY <1>1, CastsValue
  <2>2. CASE i < k
    <3>1. d = 0 /\ e = 0
      BY <2>1, <2>2
    <3>. HIDE DEF d, e
    <3>. QED  BY <2>1, <3>1
  <2>3. CASE ~(i < k)
    <3> DEFINE z == s.lines[l][i - k]
    <3>1. z \in Int /\ d = (IF -1 = 1 THEN z ELSE -z)
      BY <1>1, <2>3, CastsValue
    <3>2. e = (IF 1 = 1 THEN z ELSE -z)
      BY <1>1, <2>3, CastsValue
    <3>3. d = -z /\ e = z
      BY <3>1, <3>2
    <3>. HIDE DEF z
    <3>4. -z + z = 0
      BY <3>1
    <3>. HIDE DEF d, e
    <3>. QED  BY <2>1, <3>3, <3>4
  <2>. QED  BY <2>2, <2>3
<1>4. StepGains(Shares(old, out, k), Shares(old, out, k - 1), old[k], out[k])
  BY <1>2, SharesStep
<1>5. StepGains(Shares(new, in, k), Shares(new, in, k - 1), new[k], in[k])
  BY <1>2, SharesStep
<1>6. /\ Shares(old, out, k)[c][l][i] = x + (IF c = old[k] THEN d ELSE 0)
      /\ Shares(new, in, k)[c][l][i] = y + (IF c = old[k] THEN e ELSE 0)
  BY <1>4, <1>5 DEF StepGains
<1>7. /\ x \in Int /\ y \in Int /\ Both(s, old, new, k - 1)[c][l][i] = x + y
  BY <1>1, BothValue
<1>8. Both(s, old, new, k)[c][l][i] = Shares(old, out, k)[c][l][i] + Shares(new, in, k)[c][l][i]
  BY <1>1, BothValue
<1>. HIDE DEF x, y, d, e, out, in
<1>9. (x + (IF c = old[k] THEN d ELSE 0)) + (y + (IF c = old[k] THEN e ELSE 0)) = x + y
  BY <1>3, <1>7
<1>. QED  BY <1>6, <1>7, <1>8, <1>9

\* A level of both chains.
LEMMA LevelComes ==
    ASSUME now \in Nat, NEW f \in [Accounts -> Records], NEW u \in Worlds, NEW s \in Records,
           NEW a \in Accounts, NEW old, NEW new, Distinct(old), Distinct(new), NEW k \in 1..Depth,
           u.broken \/ Comes(f, u.infos, Both(s, old, new, k - 1))
    PROVE  LET v == AffirmLevel(u, s, a, old, new, k)
           IN  v \in Worlds /\ (v.broken \/ Comes(f, v.infos, Both(s, old, new, k)))
<1> DEFINE v == AffirmLevel(u, s, a, old, new, k)
<1>1. CASE k <= Len(old) /\ k <= Len(new) /\ old[k] = new[k]
  <2>1. v = u
    BY <1>1 DEF AffirmLevel
  <2>2. \A c \in Accounts, l \in Sums, i \in Lines :
          Both(s, old, new, k)[c][l][i] = Both(s, old, new, k - 1)[c][l][i]
    BY <1>1, BothMeet
  <2>3. ASSUME Comes(f, u.infos, Both(s, old, new, k - 1))
        PROVE  Comes(f, u.infos, Both(s, old, new, k))
    BY <2>2, <2>3 DEF Comes
  <2>. QED  BY <2>1, <2>3
<1>2. CASE ~(k <= Len(old) /\ k <= Len(new) /\ old[k] = new[k])
  <2> DEFINE out == Casts(s, -1)
             in == Casts(s, 1)
             half == Together(Shares(old, out, k), Shares(new, in, k - 1))
             y == Shift(u, s, old, k, Leaving(s, a), -1)
             z == Shift(y, s, new, k, Entering(s, a), 1)
  <2>1. v = z
    BY <1>2 DEF AffirmLevel
  <2>2. /\ -1 \in {-1, 1} /\ 1 \in {-1, 1} /\ k \in 0..Depth /\ k - 1 \in 0..Depth
        /\ Leaving(s, a) \in Links /\ Entering(s, a) \in Links
    <3>1. Leaving(s, a) \in Links /\ Entering(s, a) \in Links
      BY LinksLeaving
    <3>. QED  BY <3>1, Constants
  <2>3. out \in [1..Depth -> LineSums] /\ in \in [1..Depth -> LineSums]
    BY <2>2, CastsShifts
  <2>4. Grows(half, Both(s, old, new, k - 1), old, k, out[k])
    <3>1. \A c \in Accounts, l \in Sums, i \in Lines : Shares(new, in, k - 1)[c][l][i] \in Int
      BY <2>2, <2>3, SharesValue
    <3>. QED  BY <2>3, <3>1, TogetherGrows DEF Both
  <2>5. Grows(Both(s, old, new, k), half, new, k, in[k])
    <3>1. \A c \in Accounts, l \in Sums, i \in Lines : Shares(old, out, k)[c][l][i] \in Int
      BY <2>2, <2>3, SharesValue
    <3>. QED  BY <2>3, <3>1, TogetherGrows DEF Both
  <2>. HIDE DEF half
  <2>6. y \in Worlds /\ (y.broken \/ Comes(f, y.infos, half))
    BY <2>2, <2>4, ShiftComes
  <2>. HIDE DEF y
  <2>7. z \in Worlds /\ (z.broken \/ Comes(f, z.infos, Both(s, old, new, k)))
    BY <2>2, <2>5, <2>6, ShiftComes
  <2>. QED  BY <2>1, <2>7
<1>. QED  BY <1>1, <1>2

(***************************************************************************)
(* What a transition does to the lines above.                              *)
(***************************************************************************)
LEMMA AffirmComes ==
    ASSUME now \in Nat, NEW w \in Worlds, NEW a \in Accounts, NEW s, s = w.infos[a],
           NEW p \in Accounts, NEW n \in Accounts, p = s.referrer, n = s.transition,
           NEW old, old = Ancestors(w.infos, p, Depth),
           NEW new, new = Ancestors(w.infos, n, Depth), Distinct(old), Distinct(new),
           NEW moved, moved = Update(w, a, [s EXCEPT !.referrer = n, !.transition = None])
    PROVE  LET v == AffirmTransition(w, a)
           IN  /\ moved \in Worlds /\ v \in Worlds
               /\ v.broken \/ Comes(moved.infos, v.infos, Both(s, old, new, Depth))
<1>1. PICK after : /\ Moves(after, w, a, s, p, n) /\ \A k \in 0..Depth : after[k] \in Worlds
                   /\ AffirmTransition(w, a) = after[Depth]
  BY AffirmSteps
<1>2. /\ after[0] = moved
      /\ \A k \in 1..Depth : after[k] = AffirmLevel(after[k - 1], s, a, old, new, k)
  BY <1>1 DEF Moves
<1>3. moved \in Worlds /\ moved.infos \in [Accounts -> Records] /\ s \in Records /\ Depth \in Nat
  <2>1. moved \in Worlds
    BY <1>1, <1>2, Constants
  <2>. QED  BY <2>1, WorldFields, Constants
<1> DEFINE f == moved.infos
           A == {k \in 0..Depth : after[k].broken \/ Comes(f, after[k].infos, Both(s, old, new, k))}
<1>4. 0 \in A
  <2>1. \A c \in Accounts, l \in Sums, i \in Lines : Both(s, old, new, 0)[c][l][i] = 0
    <3>1. \A c \in Accounts, l \in Sums, i \in Lines :
             Shares(old, Casts(s, -1), 0)[c][l][i] = 0 /\ Shares(new, Casts(s, 1), 0)[c][l][i] = 0
      BY DEF Shares, Reaches
    <3>2. 0 + 0 = 0
      OBVIOUS
    <3>. QED  BY <3>1, <3>2 DEF Both, Together
  <2>2. Comes(f, f, Both(s, old, new, 0))
    BY <1>3, <2>1, ComesNowhere
  <2>. QED  BY <1>2, <1>3, <2>2
<1>5. ASSUME NEW k \in 1..Depth, k - 1 \in A PROVE k \in A
  <2>1. after[k - 1] \in Worlds
    <3>1. k - 1 \in 0..Depth
      BY <1>3
    <3>. QED  BY <1>1, <3>1
  <2>2. after[k] = AffirmLevel(after[k - 1], s, a, old, new, k)
    BY <1>2
  <2>3. after[k - 1].broken \/ Comes(f, after[k - 1].infos, Both(s, old, new, k - 1))
    BY <1>5
  <2>. HIDE DEF f
  <2>4. after[k].broken \/ Comes(f, after[k].infos, Both(s, old, new, k))
    BY <1>3, <2>1, <2>2, <2>3, LevelComes DEF f
  <2>. QED  BY <2>4
<1>. HIDE DEF A
<1>6. \A k \in 0..Depth : k \in A
  BY <1>3, <1>4, <1>5, UpTo
<1>7. Depth \in A /\ Depth \in 0..Depth
  BY <1>3, <1>6
<1>. QED  BY <1>1, <1>3, <1>7 DEF A

\* A path does not notice who is not on it.
LEMMA PathElsewhere ==
    ASSUME NEW f, NEW g, NEW p, NEW chain, Path(f, p, chain), NEW a,
           \A c \in Accounts \ {a} : g[c].referrer = f[c].referrer /\ g[c].banished = f[c].banished,
           \A k \in 1..Len(chain) : chain[k] # a
    PROVE  Path(g, p, chain)
<1>1. chain \in Seq(Accounts) /\ Len(chain) \in Nat
  BY DEF Path
<1>2. \A k \in 1..Len(chain) : chain[k] \in Accounts \ {a}
  BY <1>1
<1>3. \A k \in 1..Len(chain) : g[chain[k]].referrer = f[chain[k]].referrer
                               /\ g[chain[k]].banished = f[chain[k]].banished
  BY <1>2
<1>4. \A k \in 1..(Len(chain) - 1) : k \in 1..Len(chain)
  BY <1>1
<1>5. chain # <<>> => Len(chain) \in 1..Len(chain)
  BY <1>1
<1>. QED  BY <1>1, <1>3, <1>4, <1>5 DEF Path

\* The account a, with the record r, is below p or below nobody.
Hung(f, a, r) == [f EXCEPT ![a] = r]
OnlyMoves(r, q) == q \in Records /\ q.banished = r.banished /\ q.active = r.active /\ q.lines = r.lines

\* Without a the lines of its old referrer have too much.
LEMMA LoosenedFits ==
    ASSUME NEW f \in [Accounts -> Records], Fit(f), NEW a \in Accounts, ~f[a].banished,
           NEW p \in Accounts, f[a].referrer = p,
           NEW q, OnlyMoves(f[a], q), q.referrer = None
    PROVE  FitBut(Hung(f, a, q), p, Casts(f[a], -1)[1])
<1> DEFINE g == Hung(f, a, q)
           d == Casts(f[a], -1)[1]
<1>1. g \in [Accounts -> Records] /\ g[a] = q /\ \A c \in Accounts \ {a} : g[c] = f[c]
  BY DEF Hung, OnlyMoves
<1>. HIDE DEF g, d
<1>2. ASSUME NEW s \in Sums, NEW i \in Inner
      PROVE  Eqv(s, g[a].lines[s][i], f[a].lines[s][i])
  <2>1. f[a].lines[s][i] \in Int /\ g[a].lines[s][i] = f[a].lines[s][i]
    BY <1>1, BelowType, LineFields DEF OnlyMoves
  <2>. QED  BY <2>1, EqvReflexive
<1>3. ASSUME NEW s \in Sums, NEW i \in Inner
      PROVE  d[s][i] \in Int /\ Eqv(s, d[s][i], Part(g, a, p, s, i) - Part(f, a, p, s, i))
  <2>1. i \in Lines /\ i - 1 \in Lines /\ f[a].lines[s][i - 1] \in Int /\ ~(i < 1)
    <3>1. i \in Lines /\ i - 1 \in Lines
      BY BelowType
    <3>2. ~(i < 1)
      BY Constants DEF Inner
    <3>. QED  BY <3>1, <3>2, LineFields
  <2>2. Part(f, a, p, s, i) = f[a].lines[s][i - 1]
    BY DEF Part, Kids
  <2>3. Part(g, a, p, s, i) = 0
    BY <1>1, Constants DEF Part, Kids
  <2>4. d[s][i] = -f[a].lines[s][i - 1] /\ d[s][i] \in Int
    <3>1. -1 \in {-1, 1} /\ 1 \in 1..Depth /\ f[a] \in Records /\ -1 # 1
      BY Constants
    <3>2. d[s][i] = (IF -1 = 1 THEN f[a].lines[s][i - 1] ELSE -f[a].lines[s][i - 1])
      BY <2>1, <3>1, CastsValue DEF d
    <3>. QED  BY <2>1, <3>1, <3>2
  <2>5. 0 - f[a].lines[s][i - 1] = -f[a].lines[s][i - 1]
    BY <2>1
  <2>. QED  BY <2>2, <2>3, <2>4, <2>5, EqvReflexive
<1>4. ASSUME NEW c \in Accounts \ {p}, NEW s \in Sums, NEW i \in Inner
      PROVE  Eqv(s, Part(g, a, c, s, i), Part(f, a, c, s, i))
  <2>1. Part(f, a, c, s, i) = 0 /\ Part(g, a, c, s, i) = 0
    BY <1>1, Constants DEF Part, Kids
  <2>2. Eqv(s, 0, 0)
    BY EqvReflexive
  <2>. QED  BY <2>1, <2>2
<1>5. Differs(f, g, a, p, d)
  BY <1>1, <1>2, <1>3, <1>4 DEF Differs
<1>6. FitBut(g, p, d)
  BY <1>1, <1>5, OneFits
<1>. QED  BY <1>6 DEF g, d

\* With a the lines of its new referrer have too little.
LEMMA HungFits ==
    ASSUME NEW f \in [Accounts -> Records], Fit(f), NEW a \in Accounts, ~f[a].banished,
           NEW n \in Accounts, f[a].referrer = None,
           NEW q, OnlyMoves(f[a], q), q.referrer = n
    PROVE  FitBut(Hung(f, a, q), n, Casts(f[a], 1)[1])
<1> DEFINE g == Hung(f, a, q)
           d == Casts(f[a], 1)[1]
<1>1. g \in [Accounts -> Records] /\ g[a] = q /\ \A c \in Accounts \ {a} : g[c] = f[c]
  BY DEF Hung, OnlyMoves
<1>. HIDE DEF g, d
<1>2. ASSUME NEW s \in Sums, NEW i \in Inner
      PROVE  Eqv(s, g[a].lines[s][i], f[a].lines[s][i])
  <2>1. f[a].lines[s][i] \in Int /\ g[a].lines[s][i] = f[a].lines[s][i]
    BY <1>1, BelowType, LineFields DEF OnlyMoves
  <2>. QED  BY <2>1, EqvReflexive
<1>3. ASSUME NEW s \in Sums, NEW i \in Inner
      PROVE  d[s][i] \in Int /\ Eqv(s, d[s][i], Part(g, a, n, s, i) - Part(f, a, n, s, i))
  <2>1. i \in Lines /\ i - 1 \in Lines /\ f[a].lines[s][i - 1] \in Int /\ ~(i < 1)
    <3>1. i \in Lines /\ i - 1 \in Lines
      BY BelowType
    <3>2. ~(i < 1)
      BY Constants DEF Inner
    <3>. QED  BY <3>1, <3>2, LineFields
  <2>2. Part(f, a, n, s, i) = 0
    BY Constants DEF Part, Kids
  <2>3. Part(g, a, n, s, i) = f[a].lines[s][i - 1]
    BY <1>1 DEF Part, Kids, OnlyMoves
  <2>4. d[s][i] = f[a].lines[s][i - 1] /\ d[s][i] \in Int
    <3>1. 1 \in {-1, 1} /\ 1 \in 1..Depth /\ f[a] \in Records
      BY Constants
    <3>2. d[s][i] = (IF 1 = 1 THEN f[a].lines[s][i - 1] ELSE -f[a].lines[s][i - 1])
      BY <2>1, <3>1, CastsValue DEF d
    <3>. QED  BY <2>1, <3>2
  <2>5. f[a].lines[s][i - 1] - 0 = f[a].lines[s][i - 1]
    BY <2>1
  <2>. QED  BY <2>2, <2>3, <2>4, <2>5, EqvReflexive
<1>4. ASSUME NEW c \in Accounts \ {n}, NEW s \in Sums, NEW i \in Inner
      PROVE  Eqv(s, Part(g, a, c, s, i), Part(f, a, c, s, i))
  <2>1. Part(f, a, c, s, i) = 0 /\ Part(g, a, c, s, i) = 0
    BY <1>1, Constants DEF Part, Kids
  <2>2. Eqv(s, 0, 0)
    BY EqvReflexive
  <2>. QED  BY <2>1, <2>2
<1>5. Differs(f, g, a, n, d)
  BY <1>1, <1>2, <1>3, <1>4 DEF Differs
<1>6. FitBut(g, n, d)
  BY <1>1, <1>5, OneFits
<1>. QED  BY <1>6 DEF g, d

\* The records f with more in their lines, not yet as they are stored.
Raised(f, x) ==
    [c \in Accounts |->
       [f[c] EXCEPT !.lines = [l \in Sums |-> [i \in Lines |-> f[c].lines[l][i] + x[c][l][i]]]]]

LEMMA RaisedFields ==
    ASSUME NEW f \in [Accounts -> Records], NEW x,
           \A c \in Accounts, l \in Sums, i \in Lines : x[c][l][i] \in Int
    PROVE  /\ Raised(f, x) \in [Accounts -> Records]
           /\ \A c \in Accounts :
                /\ SameSeat(f[c], Raised(f, x)[c])
                /\ \A l \in Sums, i \in Lines :
                     Raised(f, x)[c].lines[l][i] = f[c].lines[l][i] + x[c][l][i]
<1>1. ASSUME NEW c \in Accounts
      PROVE  /\ Raised(f, x)[c] \in Records /\ SameSeat(f[c], Raised(f, x)[c])
             /\ \A l \in Sums, i \in Lines :
                  Raised(f, x)[c].lines[l][i] = f[c].lines[l][i] + x[c][l][i]
  <2> DEFINE m == [l \in Sums |-> [i \in Lines |-> f[c].lines[l][i] + x[c][l][i]]]
             r == f[c]
             q == [r EXCEPT !.lines = m]
  <2>1. m \in [Sums -> [Lines -> Int]]
    <3>1. \A l \in Sums, i \in Lines : f[c].lines[l][i] + x[c][l][i] \in Int
      BY LineFields
    <3>. QED  BY <3>1
  <2>2. Raised(f, x)[c] = q
    BY DEF Raised
  <2>3. \A l \in Sums, i \in Lines : m[l][i] = f[c].lines[l][i] + x[c][l][i]
    OBVIOUS
  <2>4. r \in Records /\ r \in Info
    BY DEF Records
  <2>. HIDE DEF m, r
  <2>5. q \in Info /\ q.lines = m /\ SameSeat(r, q) /\ q.status = r.status
        /\ q.downgradeAt = r.downgradeAt
    BY <2>1, <2>4 DEF Info, SameSeat
  <2>. HIDE DEF q
  <2>6. q \in Records
    BY <2>4, <2>5 DEF Records
  <2>. QED  BY <2>2, <2>3, <2>5, <2>6 DEF r
<1>2. DOMAIN Raised(f, x) = Accounts /\ Raised(f, x) = [c \in Accounts |-> Raised(f, x)[c]]
  BY DEF Raised
<1>. QED  BY <1>1, <1>2

\* The account a, with all it has, moves from p to n; the chains lead upwards.
Relocates(f, a, p, n, q, old, new) ==
    /\ f \in [Accounts -> Records] /\ LinesFit(f) /\ a \in Accounts /\ p \in Accounts /\ n \in Accounts
    /\ ~f[a].banished /\ f[a].referrer = p /\ OnlyMoves(f[a], q) /\ q.referrer = n
    /\ Distinct(old) /\ Path(f, p, old) /\ \A k \in 1..Len(old) : old[k] # a
    /\ Distinct(new) /\ Path(f, n, new) /\ \A k \in 1..Len(new) : new[k] # a

\* Nothing comes to who is not in a chain.
LEMMA SharesOff ==
    ASSUME NEW chain, Distinct(chain), NEW gain \in [1..Depth -> LineSums], NEW k \in 0..Depth,
           NEW c \in Accounts, \A j \in 1..Len(chain) : chain[j] # c, NEW s \in Sums, NEW i \in Lines
    PROVE  Shares(chain, gain, k)[c][s][i] = 0
BY SharesValue

\* The old ancestors have lost what a brought.
LEMMA LeftFits ==
    ASSUME NEW f, NEW a, NEW p, NEW n, NEW q, NEW old, NEW new,
           Relocates(f, a, p, n, q, old, new),
           NEW e, e = [f[a] EXCEPT !.referrer = None],
           NEW h, h = Raised(Hung(f, a, e), Shares(old, Casts(f[a], -1), Depth))
    PROVE  /\ h \in [Accounts -> Records] /\ Fit(h) /\ h[a].lines = f[a].lines
           /\ h[a].referrer = None /\ SameSeat(e, h[a]) /\ OnlyMoves(f[a], e)
           /\ \A c \in Accounts \ {a} : SameSeat(f[c], h[c])
           /\ \A c \in Accounts, s \in Sums, i \in Lines :
                h[c].lines[s][i] = f[c].lines[s][i] + Shares(old, Casts(f[a], -1), Depth)[c][s][i]
<1>. USE DEF Relocates
<1> DEFINE out == Casts(f[a], -1)
           g == Hung(f, a, e)
           x == Shares(old, out, Depth)
<1>1. f[a] \in Records /\ f[a] \in Info /\ Depth \in 0..Depth /\ -1 \in {-1, 1} /\ Depth \in Nat
  BY Constants DEF Records
<1>2. out \in [1..Depth -> LineSums] /\ Shifts(out)
  BY <1>1, CastsShifts
<1>3. OnlyMoves(f[a], e) /\ e.referrer = None
  BY <1>1, Constants DEF OnlyMoves, Records, Info
<1>4. g \in [Accounts -> Records] /\ g[a] = e /\ \A c \in Accounts \ {a} : g[c] = f[c]
  BY <1>3 DEF Hung, OnlyMoves
<1>5. FitBut(g, p, out[1])
  BY <1>3, LoosenedFits DEF LinesFit
<1>6. \A c \in Accounts, s \in Sums, i \in Lines : x[c][s][i] \in Int
  BY <1>1, <1>2, SharesValue
<1>7. h = Raised(g, x)
  OBVIOUS
<1>. HIDE DEF g, x, out
<1>8. h \in [Accounts -> Records]
      /\ \A c \in Accounts : /\ SameSeat(g[c], h[c])
                             /\ \A s \in Sums, i \in Lines :
                                  h[c].lines[s][i] = g[c].lines[s][i] + x[c][s][i]
  BY <1>4, <1>6, <1>7, RaisedFields
<1>9. Gathered(g, h, x)
  <2>1. ASSUME NEW c \in Accounts, NEW s \in Sums, NEW i \in Lines
        PROVE  Eqv(s, h[c].lines[s][i], g[c].lines[s][i] + x[c][s][i])
    <3>1. h[c].lines[s][i] \in Int /\ h[c].lines[s][i] = g[c].lines[s][i] + x[c][s][i]
      BY <1>8, LineFields
    <3>. QED  BY <3>1, EqvReflexive
  <2>. QED  BY <1>8, <2>1 DEF Gathered
<1>10. LinesGained(g, h, old, out) /\ SamePlaces(g, h)
  <2>1. Len(old) <= Depth
    BY DEF Distinct
  <2>. QED  BY <1>1, <1>2, <1>4, <1>9, <2>1, SharesGained DEF x
<1>11. Path(g, p, old)
  <2>1. \A c \in Accounts \ {a} : g[c].referrer = f[c].referrer /\ g[c].banished = f[c].banished
    BY <1>4
  <2>. QED  BY <2>1, PathElsewhere
<1>12. Fit(h)
  BY <1>2, <1>4, <1>5, <1>8, <1>10, <1>11, ChainFits
<1>13. \A c \in Accounts, s \in Sums, i \in Lines : h[c].lines[s][i] = f[c].lines[s][i] + x[c][s][i]
  <2>1. \A c \in Accounts : g[c].lines = f[c].lines
    BY <1>3, <1>4 DEF OnlyMoves
  <2>. QED  BY <1>8, <2>1
<1>14. h[a].lines = f[a].lines
  <2>1. ASSUME NEW s \in Sums, NEW i \in Lines PROVE h[a].lines[s][i] = f[a].lines[s][i]
    <3>1. x[a][s][i] = 0
      BY <1>1, <1>2, SharesOff DEF x
    <3>2. f[a].lines[s][i] \in Int
      BY LineFields
    <3>3. h[a].lines[s][i] = f[a].lines[s][i] + 0
      BY <1>13, <3>1
    <3>. QED  BY <3>2, <3>3
  <2>2. h[a].lines \in [Sums -> [Lines -> Int]] /\ f[a].lines \in [Sums -> [Lines -> Int]]
    BY <1>8 DEF Records, Info
  <2> DEFINE m == h[a].lines
             o == f[a].lines
  <2>3. \A s \in Sums, i \in Lines : m[s][i] = o[s][i]
    BY <2>1
  <2>4. m \in [Sums -> [Lines -> Int]] /\ o \in [Sums -> [Lines -> Int]]
    BY <2>2
  <2>. HIDE DEF m, o
  <2>5. \A s \in Sums : m[s] = o[s]
    BY <2>3, <2>4
  <2>6. m = o
    BY <2>4, <2>5
  <2>. QED  BY <2>6 DEF m, o
<1>15. SameSeat(e, h[a]) /\ h[a].referrer = None
  BY <1>3, <1>4, <1>8 DEF SameSeat
<1>16. \A c \in Accounts \ {a} : SameSeat(f[c], h[c])
  BY <1>4, <1>8
<1>. QED  BY <1>3, <1>8, <1>12, <1>13, <1>14, <1>15, <1>16 DEF x, out

(***************************************************************************)
(* What the old ancestors have lost the new ones have gained.              *)
(***************************************************************************)
LEMMA RelocatedFits ==
    ASSUME NEW f, NEW a, NEW p, NEW n, NEW q, NEW old, NEW new,
           Relocates(f, a, p, n, q, old, new), NEW g \in [Accounts -> Records],
           Comes(Hung(f, a, q), g, Both(f[a], old, new, Depth))
    PROVE  LinesFit(g)
<1>. USE DEF Relocates
<1> DEFINE e == [f[a] EXCEPT !.referrer = None]
           s == f[a]
           out == Casts(s, -1)
           in == Casts(s, 1)
           x == Shares(old, out, Depth)
           y == Shares(new, in, Depth)
           m == Hung(f, a, q)
           h == Raised(Hung(f, a, e), x)
           r == [h[a] EXCEPT !.referrer = n]
           u == Hung(h, a, r)
<1>1. s \in Records /\ Depth \in 0..Depth /\ -1 \in {-1, 1} /\ 1 \in {-1, 1} /\ Depth \in Nat
  BY Constants
<1>2. /\ in \in [1..Depth -> LineSums] /\ Shifts(in)
      /\ \A k \in 1..Depth : in[k]["counts"][0] = 0
  BY <1>1, CastsShifts
<1>3. out \in [1..Depth -> LineSums] /\ \A k \in 1..Depth : out[k]["counts"][0] = 0
  BY <1>1, CastsShifts
<1>4. m \in [Accounts -> Records] /\ m[a] = q /\ \A c \in Accounts \ {a} : m[c] = f[c]
  BY DEF Hung, OnlyMoves
<1>5. /\ h \in [Accounts -> Records] /\ Fit(h) /\ h[a].lines = f[a].lines
      /\ h[a].referrer = None /\ SameSeat(e, h[a]) /\ OnlyMoves(f[a], e)
      /\ \A c \in Accounts \ {a} : SameSeat(f[c], h[c])
  BY LeftFits
<1>6. ASSUME NEW c \in Accounts, NEW t \in Sums, NEW i \in Lines
      PROVE  h[c].lines[t][i] = f[c].lines[t][i] + x[c][t][i]
  <2>1. \A b \in Accounts, l \in Sums, j \in Lines :
          h[b].lines[l][j] = f[b].lines[l][j] + Shares(old, Casts(f[a], -1), Depth)[b][l][j]
    BY LeftFits
  <2>. QED  BY <2>1
<1>. HIDE DEF h
<1>7. OnlyMoves(h[a], r) /\ r.referrer = n /\ h[a].active = s.active /\ h[a].banished = s.banished
  <2>1. h[a] \in Info /\ h[a] \in Records
    BY <1>5 DEF Records
  <2>2. r \in Info /\ r.status = h[a].status /\ r.downgradeAt = h[a].downgradeAt
        /\ r.referrer = n /\ r.banished = h[a].banished /\ r.active = h[a].active
        /\ r.lines = h[a].lines
    BY <2>1 DEF Info
  <2>. HIDE DEF r
  <2>3. OnlyMoves(h[a], r)
    BY <2>1, <2>2 DEF OnlyMoves, Records
  <2>. QED  BY <1>5, <2>2, <2>3 DEF OnlyMoves, SameSeat
<1>8. u \in [Accounts -> Records] /\ u[a] = r /\ \A c \in Accounts \ {a} : u[c] = h[c]
  BY <1>5, <1>7 DEF Hung, OnlyMoves
<1>. HIDE DEF r, u, e, m
<1>9. FitBut(u, n, in[1])
  <2>1. Casts(h[a], 1) = in
    BY <1>5 DEF Casts
  <2>2. FitBut(u, n, Casts(h[a], 1)[1])
    BY <1>5, <1>7, HungFits DEF u
  <2>. QED  BY <2>1, <2>2
<1>10. \A c \in Accounts : SameSeat(u[c], m[c])
  BY <1>4, <1>5, <1>7, <1>8 DEF SameSeat, OnlyMoves
<1>11. Comes(m, g, Both(s, old, new, Depth))
  BY DEF m
<1>12. Gathered(u, g, y)
  <2>1. \A c \in Accounts : SameSeat(u[c], g[c])
    BY <1>10, <1>11 DEF Comes, SameSeat
  <2>2. ASSUME NEW c \in Accounts, NEW t \in Sums, NEW i \in Lines
        PROVE  Eqv(t, g[c].lines[t][i], u[c].lines[t][i] + y[c][t][i])
    <3> DEFINE z == f[c].lines[t][i]
    <3>1. x[c][t][i] \in Int /\ y[c][t][i] \in Int
          /\ Both(s, old, new, Depth)[c][t][i] = x[c][t][i] + y[c][t][i]
      BY <1>1, BothValue
    <3>2. z \in Int
      BY LineFields
    <3>3. m[c].lines[t][i] = z
      <4>1. m[c].lines = f[c].lines
        BY <1>4 DEF OnlyMoves
      <4>. QED  BY <4>1
    <3>4. u[c].lines[t][i] = z + x[c][t][i]
      <4>1. u[c].lines = h[c].lines
        BY <1>7, <1>8 DEF OnlyMoves
      <4>. QED  BY <1>6, <4>1
    <3>5. Eqv(t, g[c].lines[t][i], m[c].lines[t][i] + Both(s, old, new, Depth)[c][t][i])
      BY <1>11 DEF Comes
    <3>. HIDE DEF x, y, z
    <3>6. z + (x[c][t][i] + y[c][t][i]) = (z + x[c][t][i]) + y[c][t][i]
      BY <3>1, <3>2
    <3>. QED  BY <3>1, <3>3, <3>4, <3>5, <3>6
  <2>. QED  BY <2>1, <2>2 DEF Gathered
<1>13. LinesGained(u, g, new, in) /\ SamePlaces(u, g)
  <2>1. Len(new) <= Depth
    BY DEF Distinct
  <2>. QED  BY <1>1, <1>2, <1>8, <1>12, <2>1, SharesGained
<1>14. Path(u, n, new)
  <2>1. \A c \in Accounts \ {a} : u[c].referrer = f[c].referrer /\ u[c].banished = f[c].banished
    BY <1>5, <1>8 DEF SameSeat
  <2>. QED  BY <2>1, PathElsewhere
<1>15. Fit(g)
  <2>. HIDE DEF in
  <2>. QED  BY <1>2, <1>8, <1>9, <1>13, <1>14, ChainFits
<1>16. ASSUME NEW c \in Accounts PROVE Counted(g[c])
  <2>1. "counts" \in Sums /\ 0 \in Lines
    BY Constants DEF Sums, Lines
  <2>2. Both(s, old, new, Depth)[c]["counts"][0] = 0
    <3>1. x[c]["counts"][0] = 0
      BY <1>1, <1>3, <2>1, SharesZero
    <3>2. y[c]["counts"][0] = 0
      BY <1>1, <1>2, <2>1, SharesZero
    <3>3. Both(s, old, new, Depth)[c]["counts"][0] = x[c]["counts"][0] + y[c]["counts"][0]
      BY <1>1, <2>1, BothValue
    <3>. QED  BY <3>1, <3>2, <3>3
  <2>3. Counted(m[c])
    <3>1. Counted(f[c])
      BY DEF LinesFit
    <3>. QED  BY <1>4, <3>1 DEF Counted, Ranged, Flag, OnlyMoves
  <2>. QED  BY <1>4, <1>11, <2>2, <2>3, CountedStays
<1>. QED  BY <1>15, <1>16 DEF LinesFit

\* There are fewer accounts than a counter has values.
Roomy == Cardinality(Accounts) < CountLimit

\* A counter tells none from one.
LEMMA Room == ASSUME Roomy, NEW a \in Accounts PROVE CountLimit >= 2
<1>1. IsFiniteSet({a}) /\ Cardinality({a}) = 1
  BY FS_Singleton
<1>2. Cardinality({a}) <= Cardinality(Accounts) /\ Cardinality(Accounts) \in Nat
  BY ReferralAssumption, FS_Subset, FS_CardinalityType
<1>. QED  BY <1>1, <1>2, Constants DEF Roomy

-----------------------------------------------------------------------------
(* Lines that fit are the sums over the teams.                             *)

\* Walks of different lengths agree as far as both go.
LEMMA WalkAgree ==
    ASSUME NEW D, NEW ref, NEW i \in Nat, NEW j \in 0..i, NEW up, NEW vp,
           Walk(up, D, ref, i), Walk(vp, D, ref, j)
    PROVE  \A k \in 0..j : \A b \in D : up[k][b] = vp[k][b]
<1> DEFINE A == {k \in 0..j : \A b \in D : up[k][b] = vp[k][b]}
<1>1. 0 \in A
  BY DEF Walk
<1>2. ASSUME NEW k \in 1..j, k - 1 \in A PROVE k \in A
  <2>1. k \in 1..i /\ k \in 0..j
    OBVIOUS
  <2>2. \A b \in D : up[k - 1][b] = vp[k - 1][b]
    BY <1>2
  <2>. QED  BY <2>1, <2>2 DEF Walk
<1>. HIDE DEF A
<1>3. \A k \in 0..j : k \in A
  BY <1>1, <1>2, UpTo
<1>. QED  BY <1>3 DEF A

(***************************************************************************)
(* The team of line 0 is the account; one line further are those below the *)
(* referrals.                                                              *)
(***************************************************************************)
LEMMA LineZero ==
    ASSUME NEW D \in SUBSET Accounts, NEW ref \in [D -> Parents], NEW a
    PROVE  Line(ref, a, 0) = {b \in D : b = a}
<1>1. PICK up : Walk(up, D, ref, 0) /\ Above(ref, 0) = up[0]
  BY AboveValue
<1>. QED  BY <1>1 DEF Walk, Line

\* Line i + 1 of a is line i of the referrals of a.
LEMMA LineNext ==
    ASSUME NEW D \in SUBSET Accounts, NEW ref \in [D -> Parents], NEW a \in Accounts, NEW i \in Nat
    PROVE  Line(ref, a, i + 1) = UNION {Line(ref, c, i) : c \in {d \in D : ref[d] = a}}
<1>1. PICK up : Walk(up, D, ref, i + 1) /\ Above(ref, i + 1) = up[i + 1]
  BY AboveValue
<1>2. PICK vp : Walk(vp, D, ref, i) /\ Above(ref, i) = vp[i]
  BY AboveValue
<1>3. \A b \in D : up[i][b] = vp[i][b]
  <2>1. i + 1 \in Nat /\ i \in 0..(i + 1) /\ i \in 0..i
    OBVIOUS
  <2>2. \A k \in 0..i : \A b \in D : up[k][b] = vp[k][b]
    BY <1>1, <1>2, <2>1, WalkAgree
  <2>. QED  BY <2>1, <2>2
<1>4. \A b \in D : up[i + 1][b] = IF up[i][b] \in D THEN ref[up[i][b]] ELSE None
  <2>1. i + 1 \in 1..(i + 1) /\ (i + 1) - 1 = i
    OBVIOUS
  <2>. QED  BY <1>1, <2>1 DEF Walk
<1>5. DOMAIN ref = D /\ a # None
  BY Constants
<1>6. Line(ref, a, i + 1) = {b \in D : vp[i][b] \in D /\ ref[vp[i][b]] = a}
  BY <1>1, <1>3, <1>4, <1>5 DEF Line
<1>7. \A c : Line(ref, c, i) = {b \in D : vp[i][b] = c}
  BY <1>2, <1>5 DEF Line
<1>. QED  BY <1>6, <1>7

\* The sum as FiniteSetsExt takes it.
FoldedSum(f, s, T) == MapThenSumSet(LAMBDA b : f[b].lines[s][0], T)

\* The folds of the model are sums.
LEMMA TeamSum ==
    ASSUME NEW f, NEW g, NEW s, NEW T, IsFiniteSet(T), \A b \in T : g[b] = f[b].lines[s][0]
    PROVE  FoldedSum(f, s, T) = SumOver(g, T)
<1> DEFINE e == [b \in T |-> f[b].lines[s][0]]
           IsIter(h) == h = [u \in SUBSET T |->
                          IF u = {} THEN 0
                          ELSE f[CHOOSE x \in u : TRUE].lines[s][0]
                                 + h[u \ {CHOOSE x \in u : TRUE}]]
           iter == CHOOSE h : IsIter(h)
<1>1. \A h : SumsFrom(h, e, T) <=> IsIter(h)
  BY PickInSet DEF SumsFrom, Pick
<1>2. IsIter(iter)
  <2>. HIDE DEF IsIter, e
  <2>1. SumsFrom(SumsOf(e, T), e, T)
    BY SumsExist
  <2>2. \E h : IsIter(h)
    BY <1>1, <2>1
  <2>. QED  BY <2>2
<1>3. FoldedSum(f, s, T) = iter[T]
  BY DEF FoldedSum, MapThenSumSet, MapThenFoldSet
<1>4. \A b \in T : e[b] = g[b]
  OBVIOUS
<1>. HIDE DEF iter, IsIter, e
<1>5. iter[T] = SumOver(e, T)
  BY <1>1, <1>2, SumUnique
<1>6. SumOver(e, T) = SumOver(g, T)
  BY <1>4, SumAgree
<1>. QED  BY <1>3, <1>5, <1>6

\* Those who are in the tree f.
Present(f) == {a \in Accounts : Exists(f, a) /\ ~f[a].banished}
Upline(f) == [a \in Present(f) |-> f[a].referrer]

\* Who is there has the referrals that the tree says.
LEMMA PresentKids ==
    ASSUME NEW f \in [Accounts -> Records], NEW a \in Accounts
    PROVE  /\ Kids(f, a) \subseteq Present(f)
           /\ Kids(f, a) = {d \in Present(f) : Upline(f)[d] = a}
           /\ Upline(f) \in [Present(f) -> Parents] /\ Present(f) \in SUBSET Accounts
<1>1. Kids(f, a) \subseteq Present(f)
  <2>1. Empty.referrer = None /\ a # None
    BY EmptyRecord, Constants
  <2>. QED  BY <2>1 DEF Kids, Present, Exists
<1>2. Kids(f, a) = {d \in Present(f) : Upline(f)[d] = a}
  <2>1. \A d \in Present(f) : Upline(f)[d] = f[d].referrer /\ d \in Accounts /\ ~f[d].banished
    BY DEF Upline, Present
  <2>. QED  BY <1>1, <2>1 DEF Kids
<1>3. Upline(f) \in [Present(f) -> Parents]
  <2>1. \A d \in Present(f) : f[d].referrer \in Parents
    BY InfoFields DEF Present, Records
  <2>. QED  BY <2>1 DEF Upline
<1>. QED  BY <1>1, <1>2, <1>3 DEF Present

\* The sum over the team of line i.
TeamTotal(f, a, s, i) == SumOver(LineAt(f, s, 0), Line(Upline(f), a, i))

LEMMA TeamFinite ==
    ASSUME NEW f \in [Accounts -> Records], NEW a \in Accounts, NEW s \in Sums, NEW i \in Nat
    PROVE  /\ Line(Upline(f), a, i) \subseteq Accounts /\ IsFiniteSet(Line(Upline(f), a, i))
           /\ TeamTotal(f, a, s, i) \in Int
<1>1. Line(Upline(f), a, i) \subseteq Accounts
  <2>1. DOMAIN Upline(f) \subseteq Accounts
    BY DEF Upline, Present
  <2>. QED  BY <2>1 DEF Line
<1>2. IsFiniteSet(Line(Upline(f), a, i))
  BY <1>1, ReferralAssumption, FS_Subset
<1>3. \A b \in Accounts : LineAt(f, s, 0)[b] \in Int
  BY LineFields, Constants DEF Lines
<1>. QED  BY <1>1, <1>2, <1>3, SumType DEF TeamTotal

\* The sum over line i + 1 is the sum over the referrals of that over line i.
LEMMA TeamNext ==
    ASSUME NEW f \in [Accounts -> Records], NEW a \in Accounts, NEW s \in Sums, NEW i \in Nat, NEW e,
           \A c \in Kids(f, a) : e[c] = TeamTotal(f, c, s, i)
    PROVE  TeamTotal(f, a, s, i + 1) = SumOver(e, Kids(f, a))
<1> DEFINE K == Kids(f, a)
           F == LineAt(f, s, 0)
           team == [c \in K |-> Line(Upline(f), c, i)]
<1>1. K \subseteq Accounts /\ IsFiniteSet(K)
  BY KidsFinite
<1>2. Line(Upline(f), a, i + 1) = UNION {Line(Upline(f), c, i) : c \in K}
  BY PresentKids, LineNext
<1>3. UNION {Line(Upline(f), c, i) : c \in K} = UNION {team[c] : c \in K}
  OBVIOUS
<1>4. \A c \in K : team[c] \subseteq Accounts /\ e[c] = SumOver(F, team[c])
  <2>1. ASSUME NEW c \in K PROVE team[c] = Line(Upline(f), c, i)
    OBVIOUS
  <2>2. ASSUME NEW c \in K PROVE team[c] \subseteq Accounts
    BY <1>1, <2>1, TeamFinite
  <2>. QED  BY <2>1, <2>2 DEF TeamTotal
<1>5. \A c, d \in K : c # d => team[c] \cap team[d] = {}
  BY DEF Line
<1>6. \A x \in Accounts : F[x] \in Int
  BY LineFields, Constants DEF Lines
<1>7. IsFiniteSet(Accounts)
  BY ReferralAssumption
<1>. HIDE DEF K, F, team
<1>8. SumOver(F, UNION {team[c] : c \in K}) = SumOver(e, K)
  BY ONLY <1>1, <1>4, <1>5, <1>6, <1>7, SumFamily
<1>. QED  BY <1>2, <1>3, <1>8 DEF TeamTotal, F, K

(***************************************************************************)
(* Lines that fit agree with the teams, line by line.                      *)
(***************************************************************************)
LEMMA LinesAgree ==
    ASSUME NEW f \in [Accounts -> Records], Fit(f), NEW s \in Sums
    PROVE  \A i \in 0..(Depth - 1) : \A a \in Present(f) :
             Eqv(s, f[a].lines[s][i], TeamTotal(f, a, s, i))
<1> DEFINE A == {i \in 0..(Depth - 1) : \A a \in Present(f) :
                   Eqv(s, f[a].lines[s][i], TeamTotal(f, a, s, i))}
<1>0. Present(f) \subseteq Accounts /\ Depth - 1 \in Nat
  BY Constants DEF Present
<1>1. 0 \in A
  <2>1. ASSUME NEW a \in Present(f)
        PROVE  Eqv(s, f[a].lines[s][0], TeamTotal(f, a, s, 0))
    <3>0. a \in Accounts /\ 0 \in Lines
      BY <1>0, Constants DEF Lines
    <3>1. Line(Upline(f), a, 0) = {a}
      <4>1. Line(Upline(f), a, 0) = {b \in Present(f) : b = a}
        BY <3>0, PresentKids, LineZero
      <4>. QED  BY <4>1
    <3>2. LineAt(f, s, 0)[a] = f[a].lines[s][0] /\ f[a].lines[s][0] \in Int
      BY <3>0, LineFields
    <3>3. SumOver(LineAt(f, s, 0), {a}) = f[a].lines[s][0]
      <4>1. {a} = {} \cup {a} /\ IsFiniteSet({}) /\ a \notin {}
        BY FS_EmptySet
      <4>2. SumOver(LineAt(f, s, 0), {} \cup {a}) = SumOver(LineAt(f, s, 0), {}) + LineAt(f, s, 0)[a]
        <5>1. \A x \in {} \cup {a} : LineAt(f, s, 0)[x] \in Int
          BY <3>2
        <5>. QED  BY <4>1, <5>1, SumAdd
      <4>. QED  BY <3>2, <4>1, <4>2, SumEmpty
    <3>. QED  BY <3>1, <3>2, <3>3, EqvReflexive DEF TeamTotal
  <2>. QED  BY <1>0, <2>1
<1>2. ASSUME NEW i \in 1..(Depth - 1), i - 1 \in A PROVE i \in A
  <2>0. i \in Inner /\ i - 1 \in Nat /\ i - 1 \in Lines /\ (i - 1) + 1 = i /\ i \in 0..(Depth - 1)
        /\ i \in Lines
    BY <1>0, Constants DEF Inner, Lines
  <2>1. ASSUME NEW a \in Present(f) PROVE Eqv(s, f[a].lines[s][i], TeamTotal(f, a, s, i))
    <3> DEFINE K == Kids(f, a)
               F == LineAt(f, s, i - 1)
               e == [c \in K |-> TeamTotal(f, c, s, i - 1)]
    <3>0. a \in Accounts
      BY <1>0
    <3>1. K \subseteq Present(f) /\ IsFiniteSet(K) /\ K \subseteq Accounts
      BY <3>0, PresentKids, KidsFinite
    <3>2. Eqv(s, f[a].lines[s][i], SumOver(F, K))
      BY <2>0, <3>0 DEF Fit, Below
    <3>3. TeamTotal(f, a, s, (i - 1) + 1) = SumOver(e, K)
      <4>1. \A c \in Kids(f, a) : e[c] = TeamTotal(f, c, s, i - 1)
        OBVIOUS
      <4>. HIDE DEF e
      <4>. QED  BY <2>0, <3>0, <4>1, TeamNext
    <3>4. \A c \in K : F[c] \in Int /\ e[c] \in Int /\ Eqv(s, F[c], e[c])
      <4>1. ASSUME NEW c \in K PROVE F[c] = f[c].lines[s][i - 1] /\ F[c] \in Int
        BY <2>0, <3>1, LineFields
      <4>2. ASSUME NEW c \in K PROVE e[c] = TeamTotal(f, c, s, i - 1) /\ e[c] \in Int
        BY <2>0, <3>1, TeamFinite
      <4>3. ASSUME NEW c \in K PROVE Eqv(s, f[c].lines[s][i - 1], TeamTotal(f, c, s, i - 1))
        BY <1>2, <3>1
      <4>. QED  BY <4>1, <4>2, <4>3
    <3>. HIDE DEF K, F, e
    <3>5. Eqv(s, SumOver(F, K), SumOver(e, K))
      BY ONLY <3>1, <3>4, EqvSum
    <3>6. f[a].lines[s][i] \in Int /\ SumOver(F, K) \in Int /\ SumOver(e, K) \in Int
      BY <2>0, <3>0, <3>1, <3>4, LineFields, SumType
    <3>7. Eqv(s, f[a].lines[s][i], SumOver(e, K))
      BY <3>2, <3>5, <3>6, EqvTransitive
    <3>. QED  BY <2>0, <3>3, <3>7
  <2>. QED  BY <2>0, <2>1
<1>. HIDE DEF A
<1>3. \A i \in 0..(Depth - 1) : i \in A
  BY <1>0, <1>1, <1>2, UpTo
<1>. QED  BY <1>3 DEF A

(***************************************************************************)
(* The counters do not wrap around when there is room for all accounts.    *)
(***************************************************************************)
LEMMA LinesEqual ==
    ASSUME Roomy, NEW f \in [Accounts -> Records], LinesFit(f), NEW s \in Sums,
           NEW i \in 0..(Depth - 1), NEW a \in Present(f)
    PROVE  f[a].lines[s][i] = TeamTotal(f, a, s, i)
<1>0. a \in Accounts /\ i \in Lines /\ i \in Nat /\ 0 \in Lines
  BY Constants DEF Present, Lines
<1>1. Eqv(s, f[a].lines[s][i], TeamTotal(f, a, s, i))
  BY LinesAgree DEF LinesFit
<1>2. f[a].lines[s][i] \in Int /\ TeamTotal(f, a, s, i) \in Int
  BY <1>0, LineFields, TeamFinite
<1>3. ASSUME s = "counts"
      PROVE  f[a].lines[s][i] \in 0..(CountLimit - 1) /\ TeamTotal(f, a, s, i) \in 0..(CountLimit - 1)
  <2> DEFINE T == Line(Upline(f), a, i)
             F == LineAt(f, s, 0)
  <2>1. T \subseteq Accounts /\ IsFiniteSet(T)
    BY <1>0, TeamFinite
  <2>2. \A b \in Accounts : F[b] \in 0..1
    <3>1. ASSUME NEW b \in Accounts PROVE F[b] = Flag(f[b])
      BY <1>0, <1>3, LineFields DEF LinesFit, Counted
    <3>. QED  BY <3>1 DEF Flag
  <2>. HIDE DEF T, F
  <2>3. SumOver(F, T) \in 0..Cardinality(T)
    BY <2>1, <2>2, SumOfFlags
  <2>4. Cardinality(T) <= Cardinality(Accounts) /\ Cardinality(T) \in Nat /\ Cardinality(Accounts) \in Nat
    BY <2>1, ReferralAssumption, FS_Subset, FS_CardinalityType
  <2>5. SumOver(F, T) \in 0..(CountLimit - 1)
    BY <2>3, <2>4, Constants DEF Roomy
  <2>6. f[a].lines[s][i] \in 0..(CountLimit - 1)
    BY <1>0, <1>3 DEF LinesFit, Counted, Ranged
  <2>. QED  BY <2>5, <2>6 DEF TeamTotal, T, F
<1>. QED  BY <1>1, <1>2, <1>3, EqvInRange

\* Line by line, lines that fit are the sums over the accounts at their distance.
LEMMA LinedExact == Roomy /\ IInv /\ LinesFit(info) => LinesExact
<1>. SUFFICES ASSUME Roomy, IInv, LinesFit(info), NEW i \in 0..(Depth - 1), NEW a \in Members, NEW s \in Sums
              PROVE  info[a].lines[s][i] = FoldedSum(info, s, Line(Referrers, a, i))
  BY DEF LinesExact, Exact, FoldedSum
<1>1. info \in [Accounts -> Records]
  BY DEF IInv, Stores
<1>2. Members = Present(info) /\ Referrers = Upline(info) /\ a \in Accounts /\ i \in Nat
  BY DEF Members, Present, Referrers, Upline
<1> DEFINE T == Line(Referrers, a, i)
           F == LineAt(info, s, 0)
<1>3. T \subseteq Accounts /\ IsFiniteSet(T)
  BY <1>1, <1>2, TeamFinite
<1>4. \A b \in T : F[b] = info[b].lines[s][0]
  BY <1>3 DEF LineAt
<1>5. info[a].lines[s][i] = SumOver(F, T)
  BY <1>1, <1>2, LinesEqual DEF TeamTotal
<1>. HIDE DEF F, T
<1>6. FoldedSum(info, s, T) = SumOver(F, T)
  BY <1>3, <1>4, TeamSum
<1>. QED  BY <1>5, <1>6 DEF T
=============================================================================
