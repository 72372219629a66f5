---------------------------- MODULE NodingProofs ----------------------------
(***************************************************************************)
(* That the generator of voting powers hands them out by merit, for every  *)
(* distribution and number of seats, and that CometBFT's set, the lottery  *)
(* queue and the index of keys agree with the records of the accounts.     *)
(***************************************************************************)
EXTENDS Noding, NumberTheorems

-----------------------------------------------------------------------------
(* Slices.                                                                 *)

SliceType == [part : SignedFractions, power : Int]

(***************************************************************************)
(* The sums of the parts.                                                  *)
(***************************************************************************)
LEMMA PartSumsValue ==
    ASSUME NEW slices \in Seq(SliceType)
    PROVE  /\ PartSums(slices)[0] = FractionInt(0)
           /\ \A i \in 0..Len(slices) : PartSums(slices)[i] \in SignedFractions
           /\ \A i \in 1..Len(slices) :
                PartSums(slices)[i] = Plus(PartSums(slices)[i - 1], slices[i].part)
<1> DEFINE N == Len(slices)
           V == SignedFractions
           z == FractionInt(0)
           F == [x \in (1..N) \X V |-> Plus(x[2], slices[x[1]].part)]
           P == PartSums(slices)
           Def(g) == g = [i \in 0..N |->
                            IF i = 0 THEN FractionInt(0)
                            ELSE Plus(g[i - 1], slices[i].part)]
<1>1. N \in Nat /\ \A i \in 1..N : slices[i].part \in V
  <2>1. \A i \in 1..N : slices[i] \in SliceType
    OBVIOUS
  <2>. QED  BY <2>1 DEF SliceType
<1>2. z \in V
  BY DEF FractionInt, Fraction, SignedFractions, Positive
<1>3. \A x \in V, y \in V : Plus(x, y) \in V
  BY PlusValue
<1>4. F \in [(1..N) \X V -> V]
  <2>. HIDE DEF V, N
  <2>. QED  BY <1>1, <1>3
<1>5. ASSUME NEW g \in [0..N -> V], Recursion(g, N, z, F) PROVE Def(g)
  <2>1. ASSUME NEW i \in 0..N
        PROVE  g[i] = IF i = 0 THEN FractionInt(0) ELSE Plus(g[i - 1], slices[i].part)
    <3>1. g[i] = IF i = 0 THEN z ELSE F[<<i, g[i - 1]>>]
      BY <1>5 DEF Recursion
    <3>2. CASE i # 0
      <4>1. i \in 1..N /\ i - 1 \in 0..N
        BY <1>1, <3>2
      <4>2. g[i - 1] \in V
        BY <4>1
      <4>3. F[<<i, g[i - 1]>>] = Plus(g[i - 1], slices[i].part)
        BY <4>1, <4>2
      <4>. QED  BY <3>1, <3>2, <4>3
    <3>. QED  BY <3>1, <3>2
  <2>. QED  BY <2>1
<1>6. Def(P)
  <2>1. PICK g \in [0..N -> V] : Recursion(g, N, z, F)
    <3>. HIDE DEF N, V, z, F
    <3>. QED  BY <1>1, <1>2, <1>4, RecursionExists
  <2>2. \E h : Def(h)
    BY <1>5, <2>1
  <2>3. P = CHOOSE h : Def(h)
    BY DEF PartSums
  <2>. HIDE DEF P, Def
  <2>. QED  BY <2>2, <2>3
<1>. HIDE DEF P
<1>7. /\ P[0] = z
      /\ \A i \in 1..N : P[i] = Plus(P[i - 1], slices[i].part)
  BY <1>1, <1>6
<1>8. \A i \in 0..N : P[i] \in V
  <2> DEFINE A == {i \in 0..N : P[i] \in V}
  <2>1. 0 \in A
    BY <1>1, <1>2, <1>7
  <2>2. ASSUME NEW i \in 1..N, i - 1 \in A PROVE i \in A
    BY <1>1, <1>3, <1>7, <2>2
  <2>. HIDE DEF A
  <2>3. \A i \in 0..N : i \in A
    BY <1>1, <2>1, <2>2, UpTo
  <2>. QED  BY <2>3 DEF A
<1>. QED  BY <1>7, <1>8 DEF P

(***************************************************************************)
(* Fractions are compared by cross multiplication.                         *)
(***************************************************************************)
LEMMA LTEValue ==
    ASSUME NEW x \in SignedFractions, NEW y \in SignedFractions
    PROVE  LTE(x, y) <=> x.num * y.den <= y.num * x.den
<1>1. /\ x.num \in Int /\ x.den \in Int /\ x.den >= 1
      /\ y.num \in Int /\ y.den \in Int /\ y.den >= 1
  BY DEF SignedFractions, Positive
<1>2. PICK s \in Positive, t \in Positive :
        /\ Minus(y, x) \in SignedFractions
        /\ Minus(y, x).den = y.den * s /\ Minus(y, x).den = x.den * t
        /\ Minus(y, x).num = y.num * s - x.num * t
  BY MinusValue
<1> DEFINE a == y.num
           b == y.den
           c == x.num
           d == x.den
           m == Minus(y, x).num
<1>3. /\ a \in Int /\ b \in Int /\ b >= 1 /\ c \in Int /\ d \in Int /\ d >= 1
      /\ s \in Int /\ s >= 1 /\ t \in Int /\ t >= 1
      /\ m = a * s - c * t /\ b * s = d * t /\ m \in Int
  BY <1>1, <1>2 DEF Positive, SignedFractions
<1>. HIDE DEF a, b, c, d, m
<1>4. c * (d * t) = d * (c * t) /\ c * (b * s) = s * (c * b)
  BY <1>3
<1>5. d * (c * t) = s * (c * b)
  BY <1>3, <1>4
<1>6. d * m = d * (a * s) - d * (c * t) /\ d * (a * s) = s * (a * d)
  BY <1>3
<1>7. d * m = s * (a * d) - s * (c * b)
  BY <1>5, <1>6
<1> DEFINE e == a * d - c * b
<1>8. e \in Int /\ d * m = s * e
  BY <1>3, <1>7
<1>. HIDE DEF e
<1>9. m >= 0 <=> e >= 0
  <2>1. m >= 0 => d * m >= 0
    BY <1>3
  <2>2. m < 0 => d * m < 0
    BY <1>3
  <2>3. e >= 0 => s * e >= 0
    BY <1>3, <1>8
  <2>4. e < 0 => s * e < 0
    BY <1>3, <1>8
  <2>. QED  BY <1>3, <1>8, <2>1, <2>2, <2>3, <2>4
<1>10. e >= 0 <=> c * b <= a * d
  BY <1>3 DEF e
<1>. QED  BY <1>9, <1>10 DEF LTE, a, b, c, d, m

(***************************************************************************)
(* A seat that is reached leaves those before it reached, the whole        *)
(* reaches every seat, and what reaches one seat reaches the next with a   *)
(* part of at least a seat.                                                *)
(***************************************************************************)
Seat(n, max) == Fraction(n, max)

LEMMA SeatType ==
    ASSUME NEW max \in Nat \ {0}, NEW n \in Nat
    PROVE  /\ Seat(n, max) \in SignedFractions
           /\ Seat(n, max).num = n /\ Seat(n, max).den = max
BY DEF Seat, Fraction, SignedFractions, Positive

LEMMA SeatBefore ==
    ASSUME NEW max \in Nat \ {0}, NEW n \in Nat \ {0}, NEW x \in SignedFractions,
           LTE(Seat(n, max), x)
    PROVE  LTE(Seat(n - 1, max), x)
<1>1. n - 1 \in Nat
  OBVIOUS
<1>2. n * x.den <= x.num * max
  BY LTEValue, SeatType
<1>3. x.den \in Nat /\ x.num \in Int
  BY DEF SignedFractions, Positive
<1>4. (n - 1) * x.den = n * x.den - x.den
  BY <1>3
<1>5. (n - 1) * x.den <= x.num * max
  <2>1. n * x.den \in Int /\ x.num * max \in Int
    BY <1>3
  <2>. QED  BY <1>2, <1>3, <1>4, <2>1
<1>. QED  BY <1>1, <1>5, LTEValue, SeatType

LEMMA WholeReaches ==
    ASSUME NEW max \in Nat \ {0}, NEW n \in 0..max, NEW x \in SignedFractions,
           x.num = x.den
    PROVE  LTE(Seat(n, max), x)
<1>1. x.den \in Nat
  BY DEF SignedFractions, Positive
<1>2. n * x.den <= x.den * max
  <2>1. (max - n) * x.den >= 0
    BY <1>1
  <2>2. (max - n) * x.den = x.den * max - n * x.den
    BY <1>1
  <2>3. x.den * max \in Int /\ n * x.den \in Int
    BY <1>1
  <2>. QED  BY <2>1, <2>2, <2>3
<1>. QED  BY <1>2, LTEValue, SeatType

LEMMA OneSeatMore ==
    ASSUME NEW max \in Nat \ {0}, NEW n \in Nat \ {0},
           NEW x \in SignedFractions, NEW y \in SignedFractions,
           LTE(Seat(n - 1, max), x), LTE(Seat(1, max), y)
    PROVE  LTE(Seat(n, max), Plus(x, y))
<1>1. n - 1 \in Nat /\ n \in Nat /\ 1 \in Nat
  OBVIOUS
<1>2. PICK s \in Positive, t \in Positive :
        /\ Plus(x, y) \in SignedFractions
        /\ Plus(x, y).den = x.den * s /\ Plus(x, y).den = y.den * t
        /\ Plus(x, y).num = x.num * s + y.num * t
  BY PlusValue
<1>3. (n - 1) * x.den <= x.num * max /\ 1 * y.den <= y.num * max
  BY <1>1, LTEValue, SeatType
<1> DEFINE a == x.num
           b == x.den
           c == y.num
           d == y.den
<1>4. /\ a \in Int /\ b \in Int /\ b >= 1 /\ c \in Int /\ d \in Int /\ d >= 1
      /\ s \in Int /\ s >= 1 /\ t \in Int /\ t >= 1 /\ b * s = d * t
      /\ (n - 1) * b <= a * max /\ d <= c * max
  BY <1>2, <1>3 DEF Positive, SignedFractions
<1>. HIDE DEF a, b, c, d
<1>5. /\ (a * max) * s >= ((n - 1) * b) * s
      /\ (c * max) * t >= d * t
  <2>1. (a * max - (n - 1) * b) * s >= 0 /\ (c * max - d) * t >= 0
    BY <1>4
  <2>2. /\ (a * max - (n - 1) * b) * s = (a * max) * s - ((n - 1) * b) * s
        /\ (c * max - d) * t = (c * max) * t - d * t
    BY <1>4
  <2>3. /\ (a * max) * s \in Int /\ ((n - 1) * b) * s \in Int
        /\ (c * max) * t \in Int /\ d * t \in Int
    BY <1>4
  <2>. QED  BY <2>1, <2>2, <2>3
<1>6. /\ (a * s + c * t) * max = (a * max) * s + (c * max) * t
      /\ ((n - 1) * b) * s + b * s = n * (b * s)
  BY <1>4
<1>7. n * (b * s) <= (a * s + c * t) * max
  <2>1. /\ (a * max) * s \in Int /\ ((n - 1) * b) * s \in Int
        /\ (c * max) * t \in Int /\ d * t \in Int /\ b * s \in Int
    BY <1>4
  <2>. QED  BY <1>4, <1>5, <1>6, <2>1
<1>8. n * Plus(x, y).den <= Plus(x, y).num * max
  BY <1>2, <1>7 DEF a, b, c, d
<1>. QED  BY <1>1, <1>2, <1>8, LTEValue, SeatType

-----------------------------------------------------------------------------
(* The generator of voting powers.                                         *)

GeneratorType == [count : Nat, ptr : Nat, slice : Nat, partAccum : SignedFractions]

LEMMA GetVotingPowerType ==
    ASSUME NEW slices \in Seq(SliceType), NEW max, NEW tied, NEW g \in GeneratorType
    PROVE  GetVotingPower(g, slices, max, tied) \in GeneratorType
<1> DEFINE n == g.count + 1
           stay == n > 1 /\ (Covers(g.partAccum, n, max) \/ tied)
           p == IF n = 1 \/ stay THEN g.ptr ELSE g.ptr + 1
           q == IF p \in DOMAIN slices THEN p ELSE OutOfRange
           accum == IF stay \/ q = OutOfRange THEN g.partAccum
                    ELSE Plus(g.partAccum, slices[p].part)
<1>1. GetVotingPower(g, slices, max, tied)
        = [count |-> n, ptr |-> p, slice |-> q, partAccum |-> accum]
  BY DEF GetVotingPower
<1>2. g.count \in Nat /\ g.ptr \in Nat /\ g.partAccum \in SignedFractions
  BY DEF GeneratorType
<1>3. n \in Nat
  BY <1>2
<1>. HIDE DEF n, stay
<1>4. p \in Nat
  BY <1>2
<1>. HIDE DEF p
<1>5. q \in Nat /\ (q # OutOfRange => p \in DOMAIN slices)
  BY <1>4 DEF OutOfRange
<1>. HIDE DEF q
<1>6. accum \in SignedFractions
  <2>1. CASE p \in DOMAIN slices
    <3>1. slices[p] \in SliceType
      BY <2>1
    <3>2. slices[p].part \in SignedFractions
      BY <3>1 DEF SliceType
    <3>3. Plus(g.partAccum, slices[p].part) \in SignedFractions
      BY <1>2, <3>2, PlusValue
    <3>. QED  BY <1>2, <3>3
  <2>2. CASE p \notin DOMAIN slices
    BY <1>2, <1>5, <2>2
  <2>. QED  BY <2>1, <2>2
<1>. HIDE DEF accum
<1>. QED  BY <1>1, <1>3, <1>4, <1>5, <1>6 DEF GeneratorType

(***************************************************************************)
(* Every call of GetVotingPower goes on from the one before.               *)
(***************************************************************************)
LEMMA GeneratorsValue ==
    ASSUME NEW slices \in Seq(SliceType), NEW max \in Nat, NEW ties
    PROVE  /\ Generators(slices, max, ties)[0] = NewVotingPowerGenerator
           /\ \A n \in 1..max :
                Generators(slices, max, ties)[n]
                  = GetVotingPower(Generators(slices, max, ties)[n - 1],
                                   slices, max, n \in ties)
<1> DEFINE V == GeneratorType
           z == NewVotingPowerGenerator
           F == [x \in (1..max) \X V |-> GetVotingPower(x[2], slices, max, x[1] \in ties)]
           G == Generators(slices, max, ties)
           Def(g) == g = [n \in 0..max |->
                            IF n = 0 THEN NewVotingPowerGenerator
                            ELSE GetVotingPower(g[n - 1], slices, max, n \in ties)]
<1>1. z \in V
  BY DEF NewVotingPowerGenerator, GeneratorType, OutOfRange, FractionInt, Fraction,
         SignedFractions, Positive
<1>2. F \in [(1..max) \X V -> V]
  <2>1. \A g \in V : \A t : GetVotingPower(g, slices, max, t) \in V
    BY GetVotingPowerType
  <2>. HIDE DEF V
  <2>. QED  BY <2>1
<1>3. ASSUME NEW g \in [0..max -> V], Recursion(g, max, z, F) PROVE Def(g)
  <2>1. ASSUME NEW n \in 0..max
        PROVE  g[n] = IF n = 0 THEN NewVotingPowerGenerator
                      ELSE GetVotingPower(g[n - 1], slices, max, n \in ties)
    <3>1. g[n] = IF n = 0 THEN z ELSE F[<<n, g[n - 1]>>]
      BY <1>3 DEF Recursion
    <3>2. CASE n # 0
      <4>1. n \in 1..max /\ n - 1 \in 0..max
        BY <3>2
      <4>2. g[n - 1] \in V
        BY <4>1
      <4>3. F[<<n, g[n - 1]>>] = GetVotingPower(g[n - 1], slices, max, n \in ties)
        BY <4>1, <4>2
      <4>. QED  BY <3>1, <3>2, <4>3
    <3>. QED  BY <3>1, <3>2
  <2>. QED  BY <2>1
<1>4. Def(G)
  <2>1. PICK g \in [0..max -> V] : Recursion(g, max, z, F)
    <3>. HIDE DEF V, z, F
    <3>. QED  BY <1>1, <1>2, RecursionExists
  <2>2. \E h : Def(h)
    BY <1>3, <2>1
  <2>3. G = CHOOSE h : Def(h)
    BY DEF Generators
  <2>. HIDE DEF G, Def
  <2>. QED  BY <2>2, <2>3
<1>. HIDE DEF G
<1>5. /\ G[0] = z
      /\ \A n \in 1..max : G[n] = GetVotingPower(G[n - 1], slices, max, n \in ties)
  BY <1>4
<1>. QED  BY <1>5 DEF G

(***************************************************************************)
(* After n calls the generator is in a slice, and its sum is that of the   *)
(* slices so far.                                                          *)
(***************************************************************************)
InSlices(g, slices, n) ==
    /\ g.count = n /\ g.ptr \in 1..Len(slices) /\ g.slice = g.ptr
    /\ g.partAccum = PartSums(slices)[g.ptr]

\* Whether a call stays in the slice.
Stays(g, slices, n, max, tied) == Covers(PartSums(slices)[g.ptr], n, max) \/ tied

LEMMA FirstCall ==
    ASSUME NEW slices \in Seq(SliceType), slices # <<>>, NEW max, NEW tied
    PROVE  LET g == GetVotingPower(NewVotingPowerGenerator, slices, max, tied)
           IN  InSlices(g, slices, 1) /\ g.ptr = 1
<1> DEFINE g == GetVotingPower(NewVotingPowerGenerator, slices, max, tied)
<1>1. Len(slices) \in Nat /\ Len(slices) >= 1 /\ DOMAIN slices = 1..Len(slices)
  OBVIOUS
<1>2. 1 \in 1..Len(slices) /\ 0 \in 0..Len(slices)
  BY <1>1
<1>3. /\ NewVotingPowerGenerator.count = 0 /\ NewVotingPowerGenerator.ptr = 1
      /\ NewVotingPowerGenerator.partAccum = FractionInt(0)
  BY DEF NewVotingPowerGenerator
<1>4. g = [count |-> 1, ptr |-> 1, slice |-> 1,
           partAccum |-> Plus(FractionInt(0), slices[1].part)]
  BY <1>1, <1>2, <1>3 DEF GetVotingPower, OutOfRange
<1>5. PartSums(slices)[1] = Plus(FractionInt(0), slices[1].part)
  BY <1>2, PartSumsValue
<1>. HIDE DEF g
<1>6. InSlices(g, slices, 1) /\ g.ptr = 1
  BY <1>2, <1>4, <1>5 DEF InSlices
<1>. QED  BY <1>6 DEF g

LEMMA LaterCall ==
    ASSUME NEW slices \in Seq(SliceType), ValidSlices(slices),
           NEW max \in Nat \ {0}, NEW n \in 2..max, NEW tied,
           NEW h, InSlices(h, slices, n - 1)
    PROVE  LET g == GetVotingPower(h, slices, max, tied)
           IN  /\ InSlices(g, slices, n)
               /\ g.ptr = IF Stays(h, slices, n, max, tied) THEN h.ptr ELSE h.ptr + 1
<1> DEFINE g == GetVotingPower(h, slices, max, tied)
           N == Len(slices)
           p == h.ptr
<1>1. N \in Nat /\ DOMAIN slices = 1..N
  OBVIOUS
<1>2. /\ h.count + 1 = n /\ n > 1 /\ n # 1 /\ p \in 1..N /\ h.slice = p
      /\ h.partAccum = PartSums(slices)[p]
  BY DEF InSlices
<1>3. CASE Stays(h, slices, n, max, tied)
  <2>1. g = [count |-> n, ptr |-> p, slice |-> p, partAccum |-> PartSums(slices)[p]]
    BY <1>1, <1>2, <1>3 DEF GetVotingPower, Stays
  <2>. HIDE DEF g
  <2>2. InSlices(g, slices, n) /\ g.ptr = p
    BY <1>2, <2>1 DEF InSlices
  <2>. QED  BY <1>3, <2>2 DEF g
<1>4. CASE ~Stays(h, slices, n, max, tied)
  <2>1. p # N
    <3>1. SUFFICES ASSUME p = N PROVE FALSE
      OBVIOUS
    <3>2. PartSums(slices)[N].num = PartSums(slices)[N].den
      BY DEF ValidSlices
    <3>3. PartSums(slices)[N] \in SignedFractions
      BY <1>1, PartSumsValue
    <3>4. LTE(Seat(n, max), PartSums(slices)[N])
      <4>1. n \in 0..max
        OBVIOUS
      <4>. QED  BY <3>2, <3>3, <4>1, WholeReaches
    <3>. QED  BY <1>4, <3>1, <3>4 DEF Stays, Covers, Seat
  <2>2. p + 1 \in 1..N /\ p + 1 \in DOMAIN slices /\ p + 1 # 0
    BY <1>1, <1>2, <2>1
  <2>3. g = [count |-> n, ptr |-> p + 1, slice |-> p + 1,
             partAccum |-> Plus(PartSums(slices)[p], slices[p + 1].part)]
    BY <1>2, <1>4, <2>2 DEF GetVotingPower, Stays, OutOfRange
  <2>4. PartSums(slices)[p + 1] = Plus(PartSums(slices)[p], slices[p + 1].part)
    <3>1. (p + 1) - 1 = p
      BY <1>2
    <3>. QED  BY <2>2, <3>1, PartSumsValue
  <2>. HIDE DEF g
  <2>5. InSlices(g, slices, n) /\ g.ptr = p + 1
    BY <2>2, <2>3, <2>4 DEF InSlices
  <2>. QED  BY <1>4, <2>5 DEF g
<1>. QED  BY <1>3, <1>4

(***************************************************************************)
(* After every call the generator is in a slice, and in none behind the    *)
(* one it would be in without ties.                                        *)
(***************************************************************************)
LEMMA GeneratorsInSlices ==
    ASSUME NEW slices \in Seq(SliceType), ValidSlices(slices),
           NEW max \in Nat \ {0}, NEW ties
    PROVE  \A n \in 1..max :
             /\ InSlices(Generators(slices, max, ties)[n], slices, n)
             /\ InSlices(Generators(slices, max, {})[n], slices, n)
             /\ Generators(slices, max, ties)[n].ptr
                  <= Generators(slices, max, {})[n].ptr
<1> DEFINE G == Generators(slices, max, ties)
           P == Generators(slices, max, {})
           Good(n) == /\ InSlices(G[n], slices, n) /\ InSlices(P[n], slices, n)
                      /\ G[n].ptr <= P[n].ptr
           A == {n \in 0..max : n = 0 \/ Good(n)}
<1>1. /\ G[0] = NewVotingPowerGenerator /\ P[0] = NewVotingPowerGenerator
      /\ \A n \in 1..max :
           /\ G[n] = GetVotingPower(G[n - 1], slices, max, n \in ties)
           /\ P[n] = GetVotingPower(P[n - 1], slices, max, n \in {})
  BY GeneratorsValue
<1>. HIDE DEF G, P
<1>2. slices # <<>> /\ max \in Nat /\ Len(slices) \in Nat
  BY DEF ValidSlices
<1>3. ASSUME NEW n \in 1..max, n - 1 \in A PROVE Good(n)
  <2>1. CASE n = 1
    <3>1. /\ G[n] = GetVotingPower(NewVotingPowerGenerator, slices, max, n \in ties)
          /\ P[n] = GetVotingPower(NewVotingPowerGenerator, slices, max, n \in {})
      BY <1>1, <2>1
    <3>2. /\ InSlices(G[n], slices, 1) /\ G[n].ptr = 1
          /\ InSlices(P[n], slices, 1) /\ P[n].ptr = 1
      BY <1>2, <3>1, FirstCall
    <3>. QED  BY <2>1, <3>2
  <2>2. CASE n # 1
    <3>1. n \in 2..max /\ Good(n - 1)
      BY <1>3, <2>2
    <3> DEFINE h == G[n - 1]
               k == P[n - 1]
               stay == Stays(h, slices, n, max, n \in ties)
               stop == Stays(k, slices, n, max, n \in {})
    <3>2. /\ InSlices(h, slices, n - 1) /\ InSlices(k, slices, n - 1)
          /\ h.ptr <= k.ptr
      BY <3>1
    <3>3. G[n] = GetVotingPower(h, slices, max, n \in ties)
          /\ P[n] = GetVotingPower(k, slices, max, n \in {})
      BY <1>1
    <3>. HIDE DEF h, k
    <3>4. /\ InSlices(G[n], slices, n)
          /\ G[n].ptr = IF stay THEN h.ptr ELSE h.ptr + 1
      BY <3>1, <3>2, <3>3, LaterCall
    <3>5. /\ InSlices(P[n], slices, n)
          /\ P[n].ptr = IF stop THEN k.ptr ELSE k.ptr + 1
      BY <3>1, <3>2, <3>3, LaterCall
    <3>6. h.ptr = k.ptr /\ stop => stay
      BY DEF Stays
    <3>7. h.ptr \in Int /\ k.ptr \in Int
      BY <1>2, <3>2 DEF InSlices
    <3>8. G[n].ptr <= P[n].ptr
      <4>. HIDE DEF stay, stop
      <4>. QED  BY <3>2, <3>4, <3>5, <3>6, <3>7
    <3>. QED  BY <3>4, <3>5, <3>8
  <2>. QED  BY <2>1, <2>2
<1>4. 0 \in A
  OBVIOUS
<1>5. \A n \in 1..max : n - 1 \in A => n \in A
  BY <1>3
<1>. HIDE DEF A
<1>6. \A n \in 0..max : n \in A
  BY <1>2, <1>4, <1>5, UpTo
<1>7. \A n \in 1..max : Good(n)
  BY <1>6 DEF A
<1>. QED  BY <1>7 DEF G, P

(***************************************************************************)
(* Without ties, and if every part is a seat or more, the generator is in  *)
(* the first slice that reaches the seat.                                  *)
(***************************************************************************)
LEMMA GeneratorsReach ==
    ASSUME NEW slices \in Seq(SliceType), ValidSlices(slices),
           NEW max \in Nat \ {0},
           \A i \in DOMAIN slices : LTE(Seat(1, max), slices[i].part)
    PROVE  \A n \in 1..max :
             LET p == Generators(slices, max, {})[n].ptr
             IN  /\ LTE(Seat(n, max), PartSums(slices)[p])
                 /\ \A i \in 1..(p - 1) : ~LTE(Seat(n, max), PartSums(slices)[i])
<1> DEFINE P == Generators(slices, max, {})
           S == PartSums(slices)
           N == Len(slices)
           First(n) == /\ LTE(Seat(n, max), S[P[n].ptr])
                       /\ \A i \in 1..(P[n].ptr - 1) : ~LTE(Seat(n, max), S[i])
           A == {n \in 0..max : n = 0 \/ First(n)}
<1>1. /\ P[0] = NewVotingPowerGenerator
      /\ \A n \in 1..max : P[n] = GetVotingPower(P[n - 1], slices, max, n \in {})
  BY GeneratorsValue
<1>2. \A n \in 1..max : InSlices(P[n], slices, n)
  BY GeneratorsInSlices
<1>3. /\ S[0] = FractionInt(0)
      /\ \A i \in 0..N : S[i] \in SignedFractions
      /\ \A i \in 1..N : S[i] = Plus(S[i - 1], slices[i].part)
  BY PartSumsValue
<1>4. /\ slices # <<>> /\ max \in Nat /\ N \in Nat /\ N >= 1
      /\ \A i \in 1..N : /\ LTE(Seat(1, max), slices[i].part)
                         /\ slices[i].part \in SignedFractions
  <2>1. \A i \in 1..N : i \in DOMAIN slices /\ slices[i] \in SliceType
    OBVIOUS
  <2>. QED  BY <2>1 DEF ValidSlices, SliceType
<1>. HIDE DEF P, S, N
<1>5. ASSUME NEW n \in 1..max, n - 1 \in A PROVE First(n)
  <2>1. CASE n = 1
    <3>1. P[n] = GetVotingPower(NewVotingPowerGenerator, slices, max, n \in {})
      BY <1>1, <2>1
    <3>2. P[n].ptr = 1
      BY <1>4, <3>1, FirstCall
    <3>3. LTE(Seat(0, max), S[0])
      <4>1. /\ FractionInt(0) \in SignedFractions
            /\ FractionInt(0).num = 0 /\ FractionInt(0).den = 1
        BY DEF FractionInt, Fraction, SignedFractions, Positive
      <4>2. 0 * FractionInt(0).den <= FractionInt(0).num * max /\ 0 \in Nat
        BY <1>4, <4>1
      <4>. QED  BY <1>3, <4>1, <4>2, LTEValue, SeatType
    <3>4. 1 \in 1..N /\ 0 \in 0..N /\ 1 - 1 = 0 /\ 1 \in Nat \ {0}
      BY <1>4
    <3>5. LTE(Seat(1, max), Plus(S[0], slices[1].part))
      BY <1>3, <1>4, <3>3, <3>4, OneSeatMore
    <3>. QED  BY <1>3, <2>1, <3>2, <3>4, <3>5
  <2>2. CASE n # 1
    <3>1. n \in 2..max /\ n - 1 \in 1..max /\ n \in Nat \ {0} /\ First(n - 1)
      BY <1>5, <2>2
    <3> DEFINE k == P[n - 1]
               p == k.ptr
               stop == Stays(k, slices, n, max, n \in {})
    <3>2. InSlices(k, slices, n - 1) /\ P[n] = GetVotingPower(k, slices, max, n \in {})
      BY <1>1, <1>2, <3>1
    <3>3. /\ LTE(Seat(n - 1, max), S[p])
          /\ \A i \in 1..(p - 1) : ~LTE(Seat(n - 1, max), S[i])
      BY <3>1
    <3>. HIDE DEF k
    <3>4. /\ InSlices(P[n], slices, n)
          /\ P[n].ptr = IF stop THEN p ELSE p + 1
      BY <3>1, <3>2, LaterCall
    <3>5. p \in 1..N
      BY <3>2 DEF InSlices, N
    <3>6. stop <=> LTE(Seat(n, max), S[p])
      BY DEF Stays, Covers, Seat, S
    <3>. HIDE DEF stop
    <3>7. \A i \in 1..(p - 1) : ~LTE(Seat(n, max), S[i])
      <4>1. \A i \in 1..(p - 1) : i \in 0..N
        BY <1>4, <3>5
      <4>2. \A i \in 1..(p - 1) : S[i] \in SignedFractions
        BY <1>3, <4>1
      <4>. QED  BY <3>1, <3>3, <4>2, SeatBefore
    <3>8. CASE stop
      BY <3>4, <3>6, <3>7, <3>8
    <3>9. CASE ~stop
      <4>1. P[n].ptr = p + 1 /\ p + 1 \in 1..N /\ p \in 0..N /\ (p + 1) - 1 = p
        <5>1. P[n].ptr = p + 1
          BY <3>4, <3>9
        <5>. QED  BY <3>4, <3>5, <5>1, <1>4 DEF InSlices, N
      <4>2. LTE(Seat(n, max), Plus(S[p], slices[p + 1].part))
        <5>1. S[p] \in SignedFractions /\ slices[p + 1].part \in SignedFractions
              /\ LTE(Seat(1, max), slices[p + 1].part)
          BY <1>3, <1>4, <4>1
        <5>. QED  BY <3>1, <3>3, <5>1, OneSeatMore
      <4>3. S[p + 1] = Plus(S[p], slices[p + 1].part)
        BY <1>3, <4>1
      <4>4. ~LTE(Seat(n, max), S[p])
        BY <3>6, <3>9
      <4>5. \A i \in 1..p : ~LTE(Seat(n, max), S[i])
        <5>1. \A i \in 1..p : i = p \/ i \in 1..(p - 1)
          BY <3>5
        <5>. QED  BY <3>7, <4>4, <5>1
      <4>. QED  BY <4>1, <4>2, <4>3, <4>5
    <3>. QED  BY <3>8, <3>9
  <2>. QED  BY <2>1, <2>2
<1>6. 0 \in A
  BY <1>4
<1>7. \A n \in 1..max : n - 1 \in A => n \in A
  BY <1>5
<1>. HIDE DEF A
<1>8. \A n \in 0..max : n \in A
  BY <1>4, <1>6, <1>7, UpTo
<1>9. \A n \in 1..max : First(n)
  BY <1>8 DEF A
<1>. QED  BY <1>9 DEF P, S

(***************************************************************************)
(* GetVotingPower hands out the powers by merit, for every distribution    *)
(* that Validate accepts, every number of seats and whatever scores are    *)
(* equal: no index runs past the slices, equal scores get equal powers, a  *)
(* tie of others never costs anyone a slice, and without ties every slice  *)
(* has its part of the seats if no part is less than a seat.               *)
(***************************************************************************)
THEOREM PowersAreByMerit ==
    ASSUME NEW slices \in Seq(SliceType), ValidSlices(slices), NEW max \in Nat \ {0}
    PROVE  ByMerit(slices, max)
<1> DEFINE P == Generators(slices, max, {})
           plain == Placement(slices, max, {})
<1>0. max \in Nat /\ Len(slices) \in Nat /\ DOMAIN slices = 1..Len(slices)
  OBVIOUS
<1>1. ASSUME NEW ties \in SUBSET (2..max), NEW n \in 1..max
      PROVE  LET place == Placement(slices, max, ties)
             IN  /\ place[n] # OutOfRange /\ place[n] <= plain[n]
                 /\ n \in ties => place[n] = place[n - 1]
  <2> DEFINE G == Generators(slices, max, ties)
             place == Placement(slices, max, ties)
  <2>1. \A m \in 1..max : /\ InSlices(G[m], slices, m) /\ InSlices(P[m], slices, m)
                          /\ G[m].ptr <= P[m].ptr
    BY GeneratorsInSlices
  <2>2. \A m \in 1..max : place[m] = G[m].slice /\ plain[m] = P[m].slice
    BY DEF Placement
  <2>3. ASSUME n \in ties PROVE n \in 2..max /\ G[n].ptr = G[n - 1].ptr
    <3>1. n \in 2..max /\ n - 1 \in 1..max
      BY <2>3
    <3>2. G[n] = GetVotingPower(G[n - 1], slices, max, n \in ties)
      BY <1>0, GeneratorsValue
    <3> DEFINE h == G[n - 1]
    <3>3. InSlices(h, slices, n - 1)
      BY <2>1, <3>1
    <3>. HIDE DEF h
    <3>4. G[n].ptr = IF Stays(h, slices, n, max, n \in ties) THEN h.ptr ELSE h.ptr + 1
      BY <3>1, <3>2, <3>3, LaterCall DEF h
    <3>5. Stays(h, slices, n, max, n \in ties)
      BY <2>3 DEF Stays
    <3>. QED  BY <3>1, <3>4, <3>5 DEF h
  <2>. HIDE DEF G, place
  <2>4. place[n] # OutOfRange /\ place[n] <= plain[n]
    BY <1>0, <2>1, <2>2 DEF InSlices, OutOfRange
  <2>5. ASSUME n \in ties PROVE place[n] = place[n - 1]
    <3>1. n - 1 \in 1..max /\ G[n].ptr = G[n - 1].ptr
      BY <2>3, <2>5
    <3>. QED  BY <2>1, <2>2, <3>1 DEF InSlices
  <2>. QED  BY <2>4, <2>5 DEF place
<1>2. ASSUME \A i \in DOMAIN slices : LTE(Fraction(1, max), slices[i].part),
             NEW n \in 1..max
      PROVE  plain[n] = SliceOf(slices, max, n)
  <2> DEFINE p == P[n].ptr
             R == {i \in DOMAIN slices : LTE(Fraction(n, max), PartSums(slices)[i])}
  <2>1. InSlices(P[n], slices, n) /\ plain[n] = P[n].slice
    BY GeneratorsInSlices DEF Placement
  <2>2. p \in 1..Len(slices) /\ plain[n] = p
    BY <2>1 DEF InSlices
  <2>3. /\ LTE(Seat(n, max), PartSums(slices)[p])
        /\ \A i \in 1..(p - 1) : ~LTE(Seat(n, max), PartSums(slices)[i])
    BY <1>2, GeneratorsReach DEF Seat
  <2>. HIDE DEF p
  <2>4. p \in R
    BY <1>0, <2>2, <2>3 DEF Seat
  <2>5. \A i \in R : p <= i
    BY <1>0, <2>2, <2>3 DEF Seat
  <2>6. R \in SUBSET Nat
    BY <1>0
  <2>. HIDE DEF R
  <2>7. Min(R) \in R /\ \A i \in R : Min(R) <= i
    BY <2>4, <2>6, MinOfNaturals
  <2>8. Min(R) = p
    <3> DEFINE m == Min(R)
    <3>1. m \in Nat /\ p \in Nat /\ p <= m /\ m <= p
      BY <2>4, <2>5, <2>6, <2>7
    <3>. HIDE DEF m
    <3>2. m = p
      BY <3>1
    <3>. QED  BY <3>2 DEF m
  <2>. QED  BY <2>2, <2>8 DEF SliceOf, R
<1>. QED  BY <1>1, <1>2 DEF ByMerit

(***************************************************************************)
(* So they are for all of what PowersByMerit looks at.                     *)
(***************************************************************************)
THEOREM PowersAlwaysByMerit == Spec => []PowersByMerit
<1>1. ASSUME NEW s \in Distributions PROVE s \in Seq(SliceType) /\ ValidSlices(s)
  <2> DEFINE S == [part : Fractions, power : Nat]
  <2>1. s \in Seq(S) /\ ValidSlices(s)
    BY <1>1, NodingAssumption
  <2>2. S \subseteq SliceType
    BY DEF SliceType, Fractions, SignedFractions, Positive
  <2>. HIDE DEF S
  <2>3. Len(s) \in Nat /\ s \in [1..Len(s) -> S]
    BY <2>1
  <2>4. s \in [1..Len(s) -> SliceType]
    BY <2>2, <2>3
  <2>. QED  BY <2>1, <2>3, <2>4
<1>2. PowersByMerit
  BY <1>1, NodingAssumption, PowersAreByMerit DEF PowersByMerit
<1>. QED  BY <1>2, PTL

-----------------------------------------------------------------------------
(* The lottery queue.                                                      *)

QueueType(q) ==
    /\ IsFiniteSet(DOMAIN q) /\ DOMAIN q \subseteq Nat \ {0}
    /\ \A n \in DOMAIN q : q[n] \in Accounts

\* The queue q and the numbers in the records f.
Queued(f, q) ==
    /\ QueueType(q)
    /\ \A n \in DOMAIN q : f[q[n]] # NoInfo /\ f[q[n]].lotteryNo = n
    /\ \A a \in Accounts : f[a] # NoInfo /\ f[a].lotteryNo # 0 =>
         /\ f[a].lotteryNo \in DOMAIN q /\ q[f[a].lotteryNo] = a
         /\ IsActive(f[a])

LEMMA NextNoIsLast ==
    ASSUME NEW q, QueueType(q)
    PROVE  NextNo(q) \in Nat \ {0} /\ \A n \in DOMAIN q : n < NextNo(q)
<1>1. CASE DOMAIN q = {}
  BY <1>1 DEF NextNo
<1>2. CASE DOMAIN q # {}
  <2> DEFINE D == DOMAIN q
  <2>1. IsFiniteSet(D) /\ D # {} /\ D \subseteq Nat \ {0}
    BY <1>2 DEF QueueType
  <2>2. \A n \in D : n \in Int
    BY <2>1
  <2>3. Max(D) \in D /\ \A n \in D : n <= Max(D)
    <3>. HIDE DEF D
    <3>. QED  BY <2>1, <2>2, MaxOfFinite
  <2>4. NextNo(q) = Max(D) + 1
    BY <1>2 DEF NextNo
  <2>. HIDE DEF D
  <2> DEFINE m == Max(D)
  <2>5. m \in Nat \ {0} /\ NextNo(q) = m + 1 /\ \A n \in D : n \in Nat /\ n <= m
    BY <2>1, <2>3, <2>4
  <2>. HIDE DEF m
  <2>6. NextNo(q) \in Nat \ {0} /\ \A n \in D : n < NextNo(q)
    BY <2>5
  <2>. QED  BY <2>6 DEF D
<1>. QED  BY <1>1, <1>2

LEMMA ExcludeType ==
    ASSUME NEW q, QueueType(q), NEW n
    PROVE  /\ QueueType(Exclude(q, n))
           /\ DOMAIN Exclude(q, n) = DOMAIN q \ {n}
           /\ \A m \in DOMAIN Exclude(q, n) : Exclude(q, n)[m] = q[m]
<1>1. /\ DOMAIN Exclude(q, n) = DOMAIN q \ {n}
      /\ \A m \in DOMAIN Exclude(q, n) : Exclude(q, n)[m] = q[m]
  BY DEF Exclude
<1>2. IsFiniteSet(DOMAIN q \ {n})
  BY FS_RemoveElement DEF QueueType
<1>. QED  BY <1>1, <1>2 DEF QueueType

LEMMA AddNewType ==
    ASSUME NEW q, QueueType(q), NEW a \in Accounts
    PROVE  /\ QueueType(AddNew(q, a))
           /\ DOMAIN AddNew(q, a) = DOMAIN q \cup {NextNo(q)}
           /\ AddNew(q, a)[NextNo(q)] = a
           /\ \A m \in DOMAIN q : AddNew(q, a)[m] = q[m]
<1>1. /\ DOMAIN AddNew(q, a) = DOMAIN q \cup {NextNo(q)}
      /\ AddNew(q, a)[NextNo(q)] = a
      /\ \A m \in DOMAIN q : m # NextNo(q) => AddNew(q, a)[m] = q[m]
  BY DEF AddNew
<1>2. NextNo(q) \in Nat \ {0} /\ \A n \in DOMAIN q : n < NextNo(q) /\ n \in Nat
  BY NextNoIsLast DEF QueueType
<1>3. \A m \in DOMAIN q : m # NextNo(q)
  BY <1>2
<1>4. IsFiniteSet(DOMAIN q \cup {NextNo(q)})
  BY FS_AddElement DEF QueueType
<1>. QED  BY <1>1, <1>2, <1>3, <1>4 DEF QueueType

-----------------------------------------------------------------------------
(* Steps on one record and its place in the queue.                         *)

\* The place is kept, given up, or exchanged for the last one.
Kept(r, q, s, p) == s.lotteryNo = r.lotteryNo /\ p = q
Left(r, q, s, p) ==
    /\ s.lotteryNo = 0
    /\ p = IF r.lotteryNo = 0 THEN q ELSE Exclude(q, r.lotteryNo)
Shifted(r, q, a, s, p) ==
    /\ r.lotteryNo # 0
    /\ s.lotteryNo = NextNo(Exclude(q, r.lotteryNo))
    /\ p = AddNew(Exclude(q, r.lotteryNo), a)

Moved(r, q, a, s, p) == Kept(r, q, s, p) \/ Left(r, q, s, p) \/ Shifted(r, q, a, s, p)

\* A record becomes one with the same keys and power, and is not switched on.
Alike(r, s) ==
    /\ s \in Infos
    /\ s.pubKey = r.pubKey /\ s.lastKey = r.lastKey /\ s.lastPower = r.lastPower
    /\ s.status => r.status

LEMMA MovedType ==
    ASSUME NEW r, NEW q, QueueType(q), NEW a \in Accounts, NEW s, NEW p,
           Moved(r, q, a, s, p)
    PROVE  QueueType(p)
<1>1. CASE Kept(r, q, s, p)
  BY <1>1 DEF Kept
<1>2. CASE Left(r, q, s, p)
  BY <1>2, ExcludeType DEF Left
<1>3. CASE Shifted(r, q, a, s, p)
  <2>1. QueueType(Exclude(q, r.lotteryNo))
    BY ExcludeType
  <2>. QED  BY <1>3, <2>1, AddNewType DEF Shifted
<1>. QED  BY <1>1, <1>2, <1>3 DEF Moved

(***************************************************************************)
(* Such a step keeps the queue and the numbers in the records together.    *)
(***************************************************************************)
LEMMA MovedQueued ==
    ASSUME NEW f \in [Accounts -> Infos \cup {NoInfo}], NEW q, Queued(f, q),
           NEW a \in Accounts, f[a] # NoInfo,
           NEW r, r.lotteryNo = f[a].lotteryNo,
           NEW s \in Infos, NEW p, Moved(r, q, a, s, p),
           s.lotteryNo # 0 => IsActive(s)
    PROVE  Queued([f EXCEPT ![a] = s], p)
<1> DEFINE g == [f EXCEPT ![a] = s]
           n == f[a].lotteryNo
<1>0. /\ QueueType(q) /\ s # NoInfo
      /\ g[a] = s /\ \A b \in Accounts : b # a => g[b] = f[b]
      /\ \A b \in Accounts : f[b] # NoInfo => f[b].lotteryNo \in Nat
      /\ s.lotteryNo \in Nat
  BY NodingAssumption DEF Queued, Infos
<1>1. /\ \A m \in DOMAIN q : /\ q[m] \in Accounts /\ f[q[m]] # NoInfo
                             /\ f[q[m]].lotteryNo = m
                             /\ m \in Nat \ {0}
      /\ \A b \in Accounts : f[b] # NoInfo /\ f[b].lotteryNo # 0 =>
           f[b].lotteryNo \in DOMAIN q /\ q[f[b].lotteryNo] = b /\ IsActive(f[b])
  BY DEF Queued, QueueType
<1>2. QueueType(p)
  BY <1>0, MovedType
<1>3. \A m \in DOMAIN q : q[m] = a <=> m = n
  BY <1>1
<1>. HIDE DEF g, n
<1>4. CASE Kept(r, q, s, p)
  <2>1. p = q /\ s.lotteryNo = n
    BY <1>4 DEF Kept, n
  <2>2. \A m \in DOMAIN p : g[p[m]] # NoInfo /\ g[p[m]].lotteryNo = m
    BY <1>0, <1>1, <1>3, <2>1
  <2>3. \A b \in Accounts : g[b] # NoInfo /\ g[b].lotteryNo # 0 =>
          g[b].lotteryNo \in DOMAIN p /\ p[g[b].lotteryNo] = b /\ IsActive(g[b])
    <3>1. n # 0 => n \in DOMAIN q /\ q[n] = a
      BY <1>1 DEF n
    <3>. QED  BY <1>0, <1>1, <2>1, <3>1
  <2>. QED  BY <1>2, <2>2, <2>3 DEF Queued, g
<1>5. ASSUME NEW x, QueueType(x), DOMAIN x = DOMAIN q \ {n},
             \A m \in DOMAIN x : x[m] = q[m]
      PROVE  /\ \A m \in DOMAIN x : /\ x[m] \in Accounts /\ x[m] # a
                                    /\ g[x[m]] # NoInfo /\ g[x[m]].lotteryNo = m
             /\ \A b \in Accounts : b # a /\ g[b] # NoInfo /\ g[b].lotteryNo # 0 =>
                  g[b].lotteryNo \in DOMAIN x /\ x[g[b].lotteryNo] = b /\ IsActive(g[b])
  <2>1. \A m \in DOMAIN x : m \in DOMAIN q /\ m # n /\ x[m] = q[m] /\ q[m] # a
    BY <1>3, <1>5
  <2>2. \A b \in Accounts : b # a /\ f[b] # NoInfo /\ f[b].lotteryNo # 0 =>
          f[b].lotteryNo \in DOMAIN x
    BY <1>1, <1>3, <1>5
  <2>. QED  BY <1>0, <1>1, <1>5, <2>1, <2>2
<1>6. CASE Left(r, q, s, p)
  <2>1. DOMAIN p = DOMAIN q \ {n} /\ \A m \in DOMAIN p : p[m] = q[m]
    <3>1. CASE n = 0
      BY <1>1, <1>6, <3>1 DEF Left, n
    <3>2. CASE n # 0
      <4>1. p = Exclude(q, n)
        BY <1>6, <3>2 DEF Left, n
      <4>2. DOMAIN Exclude(q, n) = DOMAIN q \ {n}
            /\ \A m \in DOMAIN Exclude(q, n) : Exclude(q, n)[m] = q[m]
        BY ONLY <1>0, ExcludeType
      <4>. QED  BY <4>1, <4>2
    <3>. QED  BY <3>1, <3>2
  <2>2. s.lotteryNo = 0
    BY <1>6 DEF Left
  <2>3. /\ \A m \in DOMAIN p : g[p[m]] # NoInfo /\ g[p[m]].lotteryNo = m
        /\ \A b \in Accounts : b # a /\ g[b] # NoInfo /\ g[b].lotteryNo # 0 =>
             g[b].lotteryNo \in DOMAIN p /\ p[g[b].lotteryNo] = b /\ IsActive(g[b])
    BY <1>2, <1>5, <2>1
  <2>4. \A b \in Accounts : g[b] # NoInfo /\ g[b].lotteryNo # 0 => b # a
    BY <1>0, <2>2
  <2>. QED  BY <1>2, <2>3, <2>4 DEF Queued, g
<1>7. CASE Shifted(r, q, a, s, p)
  <2> DEFINE x == Exclude(q, n)
             k == NextNo(x)
  <2>1. p = AddNew(x, a) /\ s.lotteryNo = k /\ n # 0
    BY <1>7 DEF Shifted, n
  <2>2. QueueType(x) /\ DOMAIN x = DOMAIN q \ {n} /\ \A m \in DOMAIN x : x[m] = q[m]
    BY <1>0, ExcludeType
  <2>. HIDE DEF x
  <2>3. k \in Nat \ {0} /\ \A m \in DOMAIN x : m < k /\ m \in Nat
    BY <2>2, NextNoIsLast DEF QueueType
  <2>4. /\ DOMAIN p = DOMAIN x \cup {k} /\ p[k] = a
        /\ \A m \in DOMAIN x : p[m] = x[m]
    <3>1. /\ DOMAIN AddNew(x, a) = DOMAIN x \cup {NextNo(x)}
          /\ AddNew(x, a)[NextNo(x)] = a
          /\ \A m \in DOMAIN x : AddNew(x, a)[m] = x[m]
      BY ONLY <2>2, AddNewType
    <3>. QED  BY <2>1, <3>1
  <2>. HIDE DEF k
  <2>5. /\ \A m \in DOMAIN x : /\ x[m] \in Accounts /\ x[m] # a
                               /\ g[x[m]] # NoInfo /\ g[x[m]].lotteryNo = m
        /\ \A b \in Accounts : b # a /\ g[b] # NoInfo /\ g[b].lotteryNo # 0 =>
             g[b].lotteryNo \in DOMAIN x /\ x[g[b].lotteryNo] = b /\ IsActive(g[b])
    BY <1>5, <2>2
  <2>6. \A m \in DOMAIN p : g[p[m]] # NoInfo /\ g[p[m]].lotteryNo = m
    BY <1>0, <2>1, <2>4, <2>5
  <2>7. \A b \in Accounts : g[b] # NoInfo /\ g[b].lotteryNo # 0 =>
          g[b].lotteryNo \in DOMAIN p /\ p[g[b].lotteryNo] = b /\ IsActive(g[b])
    <3>1. IsActive(s)
      BY <2>1, <2>3
    <3>. QED  BY <1>0, <2>1, <2>4, <2>5, <3>1
  <2>. QED  BY <1>2, <2>6, <2>7 DEF Queued, g
<1>. QED  BY <1>4, <1>6, <1>7 DEF Moved

(***************************************************************************)
(* And lets nobody jump the queue.                                         *)
(***************************************************************************)
NoJump(q, p) ==
    \A m \in DOMAIN q, n \in DOMAIN p :
      m \in DOMAIN p /\ p[m] = q[m] /\ n < m =>
        \E k \in DOMAIN q : q[k] = p[n] /\ k < m

LEMMA MovedNoJump ==
    ASSUME NEW r, NEW q, QueueType(q), NEW a \in Accounts, NEW s, NEW p,
           Moved(r, q, a, s, p)
    PROVE  NoJump(q, p)
<1>1. CASE Kept(r, q, s, p)
  BY <1>1 DEF Kept, NoJump
<1>2. CASE Left(r, q, s, p)
  <2> DEFINE x == Exclude(q, r.lotteryNo)
  <2>0. /\ DOMAIN x = DOMAIN q \ {r.lotteryNo}
        /\ \A m \in DOMAIN x : x[m] = q[m]
    BY ExcludeType
  <2>1. \A m \in DOMAIN p : m \in DOMAIN q /\ p[m] = q[m]
    BY <1>2, <2>0 DEF Left
  <2>. QED  BY <2>1 DEF NoJump
<1>3. CASE Shifted(r, q, a, s, p)
  <2> DEFINE x == Exclude(q, r.lotteryNo)
             k == NextNo(x)
  <2>1. /\ QueueType(x) /\ DOMAIN x = DOMAIN q \ {r.lotteryNo}
        /\ \A m \in DOMAIN x : x[m] = q[m]
    BY ExcludeType
  <2>2. p = AddNew(x, a)
    BY <1>3 DEF Shifted
  <2>. HIDE DEF x
  <2>3. k \in Nat \ {0} /\ \A m \in DOMAIN x : m < k /\ m \in Nat
    BY <2>1, NextNoIsLast DEF QueueType
  <2>4. DOMAIN p = DOMAIN x \cup {k} /\ \A m \in DOMAIN x : p[m] = x[m]
    BY <2>1, <2>2, AddNewType
  <2>. HIDE DEF k
  <2>5. \A m \in DOMAIN p, n \in DOMAIN p : n < m => n \in DOMAIN x
    BY <2>3, <2>4
  <2>6. \A n \in DOMAIN x : n \in DOMAIN q /\ q[n] = p[n]
    BY <2>1, <2>4
  <2>. QED  BY <2>5, <2>6 DEF NoJump
<1>. QED  BY <1>1, <1>2, <1>3 DEF Moved

\* A step on the record r of account a and its place in the queue q.
GoodStep(r, q, a, s) ==
    /\ Alike(r, s.info)
    /\ Moved(r, q, a, s.info, s.queue)
    /\ (r.lotteryNo # 0 => IsActive(r)) => (s.info.lotteryNo # 0 => IsActive(s.info))

LEMMA KeepStep ==
    ASSUME NEW r \in Infos, NEW q, NEW a, NEW t \in Infos, Alike(r, t),
           t.lotteryNo = r.lotteryNo, IsActive(r) => IsActive(t)
    PROVE  GoodStep(r, q, a, [info |-> t, queue |-> q])
BY DEF GoodStep, Moved, Kept

LEMMA ExcludeStep ==
    ASSUME NEW r \in Infos, NEW q, NEW a, NEW t \in Infos, Alike(r, t),
           t.lotteryNo = r.lotteryNo
    PROVE  GoodStep(r, q, a, ExcludeAccount(t, q, a))
<1> DEFINE u == [t EXCEPT !.lotteryNo = 0]
<1>1. u \in Infos /\ u.lotteryNo = 0 /\ Alike(r, u)
  BY DEF Infos, Alike
<1>2. CASE t.lotteryNo = 0
  BY <1>2 DEF ExcludeAccount, GoodStep, Moved, Left
<1>3. CASE t.lotteryNo # 0
  <2>1. ExcludeAccount(t, q, a) = [info |-> u, queue |-> Exclude(q, r.lotteryNo)]
    BY <1>3 DEF ExcludeAccount
  <2>. HIDE DEF u
  <2>. QED  BY <1>1, <1>3, <2>1 DEF GoodStep, Moved, Left
<1>. QED  BY <1>2, <1>3

LEMMA DownshiftStep ==
    ASSUME NEW r \in Infos, NEW q, QueueType(q), NEW a, NEW t \in Infos, Alike(r, t),
           t.lotteryNo = r.lotteryNo, IsActive(r) => IsActive(t)
    PROVE  GoodStep(r, q, a, Downshift(t, q, a))
<1>1. CASE t.lotteryNo = 0
  <2>1. Downshift(t, q, a) = [info |-> t, queue |-> q]
    BY <1>1 DEF Downshift
  <2>. QED  BY <2>1, KeepStep
<1>2. CASE t.lotteryNo # 0
  <2> DEFINE k == NextNo(Exclude(q, r.lotteryNo))
             u == [t EXCEPT !.lotteryNo = k]
             p == AddNew(Exclude(q, r.lotteryNo), a)
  <2>1. k \in Nat
    BY ExcludeType, NextNoIsLast
  <2>2. Downshift(t, q, a) = [info |-> u, queue |-> p]
    BY <1>2 DEF Downshift
  <2>3. Shifted(r, q, a, u, p) <=> u.lotteryNo = k
    BY <1>2 DEF Shifted
  <2>. HIDE DEF k, p
  <2>4. /\ u \in Infos /\ u.lotteryNo = k /\ Alike(r, u)
        /\ u.status = t.status /\ u.jailed = t.jailed /\ u.banned = t.banned
    BY <2>1 DEF Infos, Alike
  <2>. HIDE DEF u
  <2>5. Moved(r, q, a, u, p)
    BY <2>3, <2>4 DEF Moved
  <2>6. IsActive(t) => IsActive(u)
    BY <2>4, NodingAssumption DEF IsActive
  <2>. QED  BY <1>2, <2>2, <2>4, <2>5, <2>6 DEF GoodStep
<1>. QED  BY <1>1, <1>2

LEMMA JailBounds ==
    /\ 0 \in 0..(JailAfter - 1) /\ JailAfter \in Nat /\ UnjailAfter \in Nat
    /\ NoInfo \notin Infos
BY NodingAssumption

LEMMA MarkTickStep ==
    ASSUME NEW r \in Infos
    PROVE  /\ Alike(r, MarkTick(r)) /\ MarkTick(r).lotteryNo = r.lotteryNo
           /\ IsActive(MarkTick(r)) <=> IsActive(r)
<1> DEFINE t == MarkTick(r)
<1>1. t \in Infos /\ Alike(r, t) /\ t.lotteryNo = r.lotteryNo
  BY JailBounds DEF MarkTick, Infos, Alike
<1>2. t.status = r.status /\ t.jailed = r.jailed /\ t.banned = r.banned
  BY DEF MarkTick, Infos
<1>. HIDE DEF t
<1>3. IsActive(t) <=> IsActive(r)
  BY <1>1, <1>2, JailBounds DEF IsActive
<1>. QED  BY <1>1, <1>3 DEF t

LEMMA MarkStrokeStep ==
    ASSUME NEW r \in Infos, NEW q, QueueType(q), NEW a, height \in Nat
    PROVE  GoodStep(r, q, a, MarkStroke(r, q, a))
<1>0. Alike(r, r) /\ r.missed \in Nat
  BY NodingAssumption DEF Alike, Infos
<1>1. CASE r.jailed
  <2>1. MarkStroke(r, q, a) = [info |-> r, queue |-> q]
    BY <1>1 DEF MarkStroke
  <2>. QED  BY <1>0, <2>1, KeepStep
<1>2. CASE ~r.jailed /\ r.missed + 1 >= JailAfter
  <2> DEFINE t == [r EXCEPT !.jailed = TRUE, !.missed = 0,
                            !.unjailAt = height + UnjailAfter]
  <2>1. MarkStroke(r, q, a) = ExcludeAccount(t, q, a)
    BY <1>2 DEF MarkStroke
  <2>2. t \in Infos /\ Alike(r, t) /\ t.lotteryNo = r.lotteryNo
    <3>1. height + UnjailAfter \in Nat
      BY JailBounds
    <3>. QED  BY <3>1, JailBounds DEF Infos, Alike
  <2>. HIDE DEF t
  <2>. QED  BY <2>1, <2>2, ExcludeStep
<1>3. CASE ~r.jailed /\ ~(r.missed + 1 >= JailAfter)
  <2> DEFINE t == [r EXCEPT !.missed = @ + 1]
  <2>1. MarkStroke(r, q, a) = Downshift(t, q, a)
    BY <1>3 DEF MarkStroke
  <2>2. r.missed + 1 \in 0..(JailAfter - 1)
    BY <1>0, <1>3, NodingAssumption
  <2>3. t \in Infos /\ Alike(r, t) /\ t.lotteryNo = r.lotteryNo
        /\ (IsActive(r) => IsActive(t))
    BY <2>2, NodingAssumption DEF Infos, Alike, IsActive
  <2>. HIDE DEF t
  <2>. QED  BY <2>1, <2>3, DownshiftStep
<1>. QED  BY <1>1, <1>2, <1>3

LEMMA MarkByzantineStep ==
    ASSUME NEW r \in Infos, NEW q, QueueType(q), NEW a
    PROVE  GoodStep(r, q, a, MarkByzantine(r, q, a))
<1>0. r.infractions \in Nat
  BY DEF Infos
<1>1. CASE r.infractions + 1 > 1
  <2> DEFINE t == [r EXCEPT !.infractions = @ + 1, !.banned = TRUE, !.status = FALSE]
  <2>1. MarkByzantine(r, q, a) = ExcludeAccount(t, q, a)
    BY <1>1 DEF MarkByzantine
  <2>2. t \in Infos /\ Alike(r, t) /\ t.lotteryNo = r.lotteryNo
    <3>1. r.infractions + 1 \in Nat
      BY <1>0
    <3>. QED  BY <3>1 DEF Infos, Alike
  <2>. HIDE DEF t
  <2>. QED  BY <2>1, <2>2, ExcludeStep
<1>2. CASE ~(r.infractions + 1 > 1)
  <2> DEFINE t == [r EXCEPT !.infractions = @ + 1]
  <2>1. MarkByzantine(r, q, a) = Downshift(t, q, a)
    BY <1>2 DEF MarkByzantine
  <2>2. t \in Infos /\ Alike(r, t) /\ t.lotteryNo = r.lotteryNo
        /\ (IsActive(r) => IsActive(t))
    <3>1. r.infractions + 1 \in Nat
      BY <1>0
    <3>2. t \in Infos /\ Alike(r, t) /\ t.lotteryNo = r.lotteryNo
      BY <3>1 DEF Infos, Alike
    <3>3. t.status = r.status /\ t.jailed = r.jailed /\ t.banned = r.banned
      BY DEF Infos
    <3>. HIDE DEF t
    <3>. QED  BY <3>2, <3>3, JailBounds DEF IsActive
  <2>. HIDE DEF t
  <2>. QED  BY <2>1, <2>2, DownshiftStep
<1>. QED  BY <1>1, <1>2

LEMMA SwitchedOffStep ==
    ASSUME NEW r \in Infos, NEW t \in Infos, Alike(r, t),
           t.lotteryNo = r.lotteryNo, NEW q, NEW a
    PROVE  /\ GoodStep(r, q, a, SwitchedOff(t, q, a))
           /\ ~SwitchedOff(t, q, a).info.status
<1> DEFINE u == [t EXCEPT !.status = FALSE]
<1>1. u \in Infos /\ Alike(r, u) /\ u.lotteryNo = r.lotteryNo /\ ~u.status
  BY DEF Infos, Alike
<1>2. SwitchedOff(t, q, a) = ExcludeAccount(u, q, a)
  BY DEF SwitchedOff
<1>. HIDE DEF u
<1>3. ~ExcludeAccount(u, q, a).info.status
  BY <1>1 DEF ExcludeAccount, Infos
<1>. QED  BY <1>1, <1>2, <1>3, ExcludeStep

LEMMA OnStatusUpdateStep ==
    ASSUME NEW r \in Infos, NEW t \in Infos, Alike(r, t),
           t.lotteryNo = r.lotteryNo, IsActive(r) => IsActive(t),
           NEW q, NEW a, NEW m
    PROVE  /\ GoodStep(r, q, a, OnStatusUpdate(t, q, a, m))
           /\ Unqualified(t, a, m) => ~OnStatusUpdate(t, q, a, m).info.status
<1>1. CASE Unqualified(t, a, m)
  BY <1>1, SwitchedOffStep DEF OnStatusUpdate
<1>2. CASE ~Unqualified(t, a, m)
  BY <1>2, KeepStep DEF OnStatusUpdate
<1>. QED  BY <1>1, <1>2

LEMMA OnStakeChangedStep ==
    ASSUME NEW r \in Infos, NEW q, QueueType(q), NEW a, NEW m
    PROVE  /\ OnStakeChanged(r, q, a, m).info = r
           /\ QueueType(OnStakeChanged(r, q, a, m).queue)
<1>1. QueueType(ExcludeAccount(r, q, a).queue)
  BY ExcludeType DEF ExcludeAccount
<1>. QED  BY <1>1 DEF OnStakeChanged

-----------------------------------------------------------------------------
(* The inductive invariant, for all constants.                             *)

\* The keys in a record are of its account, one is there while it is switched
\* on, and the last one sent goes with the last power sent.
KeysHeld(a, r) ==
    /\ r.pubKey \in KeysOf[a] \cup {NoKey} /\ r.lastKey \in KeysOf[a] \cup {NoKey}
    /\ r.status => r.pubKey # NoKey
    /\ r.lastPower = 0 <=> r.lastKey = NoKey

KeysOK == \A a \in Accounts : Has(a) => KeysHeld(a, info[a])

\* Votes are counted at the beginning of a block, all of them of known keys.
CountOK ==
    /\ \A k \in toCount : Found(k)
    /\ phase # "begun" => toCount = {}

IInv == TypeOK /\ QueueType(queue) /\ CountOK /\ SignersKnown /\ KeysOK

LEMMA KnownKeys ==
    /\ \A a \in Accounts : KeysOf[a] \subseteq Keys
    /\ NoKey \notin Keys
BY NodingAssumption DEF Keys

LEMMA RecordType ==
    ASSUME IInv, NEW a \in Accounts, Has(a)
    PROVE  info[a] \in Infos /\ KeysHeld(a, info[a])
BY DEF IInv, TypeOK, Has, KeysOK

LEMMA FoundType ==
    ASSUME IInv, NEW k, Found(k)
    PROVE  operator[k] \in Accounts /\ Has(operator[k]) /\ k \in Keys
BY DEF IInv, TypeOK, Found

(***************************************************************************)
(* What a step must do to keep the invariant, if it is neither the end of  *)
(* a block nor a restart.                                                  *)
(***************************************************************************)
RecordsKept ==
    /\ info' \in [Accounts -> Infos \cup {NoInfo}]
    /\ \A a \in Accounts : Has(a) => info'[a] # NoInfo
    /\ \A a \in Accounts : info'[a] # NoInfo => KeysHeld(a, info'[a])

OperatorsKept ==
    /\ DOMAIN operator \subseteq DOMAIN operator' /\ DOMAIN operator' \subseteq Keys
    /\ \A k \in DOMAIN operator' : /\ operator'[k] \in Accounts
                                   /\ operator'[k] = operator[k] \/ info'[operator'[k]] # NoInfo

LEMMA FoundKept ==
    ASSUME IInv, RecordsKept, OperatorsKept, NEW k, Found(k)
    PROVE  Found(k)'
<1>1. k \in DOMAIN operator /\ k \in DOMAIN operator' /\ Has(operator[k])
      /\ operator[k] \in Accounts
  BY FoundType DEF Found, OperatorsKept
<1>2. info'[operator'[k]] # NoInfo
  BY <1>1 DEF RecordsKept, OperatorsKept
<1>. QED  BY <1>1, <1>2 DEF Found, Has

LEMMA Frame ==
    ASSUME IInv, RecordsKept, OperatorsKept, QueueType(queue'), comet' = comet,
           height' \in Nat, phase' \in {"begun", "delivering", "ended"},
           toCount' \subseteq toCount \cup lastVals, phase' # "begun" => toCount' = {},
           meets' \subseteq Accounts, banished' \subseteq Accounts,
           halted' = halted, events' \in Nat
    PROVE  IInv'
<1>1. TypeOK'
  <2>1. toCount' \subseteq Keys
    BY DEF IInv, TypeOK
  <2>2. /\ DOMAIN queue' \subseteq Nat \ {0}
        /\ \A n \in DOMAIN queue' : queue'[n] \in Accounts
    BY DEF QueueType
  <2>. QED  BY <2>1, <2>2 DEF IInv, TypeOK, comet, RecordsKept, OperatorsKept
<1>2. \A k : Found(k) => Found(k)'
  BY FoundKept
<1>3. SignersKnown'
  BY <1>2 DEF IInv, SignersKnown, comet
<1>4. CountOK'
  <2>1. \A k \in toCount \cup lastVals : Found(k)
    BY DEF IInv, SignersKnown, CountOK
  <2>. QED  BY <1>2, <2>1 DEF CountOK
<1>5. KeysOK'
  BY DEF RecordsKept, KeysOK, Has
<1>6. QueueType(queue)'
  BY DEF QueueType
<1>. QED  BY <1>1, <1>3, <1>4, <1>5, <1>6 DEF IInv

LEMMA OperatorsUnchanged ==
    ASSUME IInv, operator' = operator
    PROVE  OperatorsKept
BY DEF IInv, TypeOK, OperatorsKept

\* The records stay as they are, or one becomes another with the same keys.
LEMMA RecordsUnchanged ==
    ASSUME IInv, info' = info
    PROVE  RecordsKept
BY DEF IInv, TypeOK, RecordsKept, KeysOK, Has

LEMMA AlikeHeld ==
    ASSUME NEW a \in Accounts, NEW r \in Infos, KeysHeld(a, r), NEW s, Alike(r, s)
    PROVE  s \in Infos /\ s # NoInfo /\ KeysHeld(a, s)
BY JailBounds DEF KeysHeld, Alike

LEMMA OneRecord ==
    ASSUME IInv, NEW a \in Accounts, NEW s \in Infos, KeysHeld(a, s),
           info' = [info EXCEPT ![a] = s]
    PROVE  RecordsKept
<1>1. info \in [Accounts -> Infos \cup {NoInfo}]
  BY DEF IInv, TypeOK
<1>2. s # NoInfo
  BY JailBounds
<1>. QED  BY <1>1, <1>2 DEF IInv, RecordsKept, KeysOK, Has

LEMMA OneRecordAlike ==
    ASSUME IInv, NEW a \in Accounts, Has(a), NEW s, Alike(info[a], s),
           info' = [info EXCEPT ![a] = s]
    PROVE  RecordsKept
<1>1. s \in Infos /\ KeysHeld(a, s)
  BY RecordType, AlikeHeld
<1>. QED  BY <1>1, OneRecord

LEMMA StoreGood ==
    ASSUME IInv, NEW a \in Accounts, Has(a), NEW s, GoodStep(info[a], queue, a, s),
           Store(a, s)
    PROVE  RecordsKept /\ QueueType(queue')
<1>1. info' = [info EXCEPT ![a] = s.info] /\ queue' = s.queue
  BY DEF Store
<1>2. Alike(info[a], s.info) /\ Moved(info[a], queue, a, s.info, s.queue)
  BY DEF GoodStep
<1>3. RecordsKept
  BY <1>1, <1>2, OneRecordAlike
<1>4. QueueType(s.queue)
  BY <1>2, MovedType DEF IInv
<1>. QED  BY <1>1, <1>3, <1>4

-----------------------------------------------------------------------------
(* The parts of a block before its end.                                    *)

\* What BeginBlocker leaves: every vote is of a known key, and its proposer too.
LEMMA BeginBlockerValue ==
    ASSUME IInv, NEW k \in vals, NEW absent \in SUBSET lastVals,
           BeginBlocker(k, absent)
    PROVE  LET a == operator[k]
               paid == Downshift(info[a], queue, a)
               f == [info EXCEPT ![a] = paid.info]
           IN  /\ a \in Accounts /\ Has(a)
               /\ queue' = paid.queue /\ toCount' = absent
               /\ \E T \in SUBSET {b \in Accounts : Has(b)} :
                    info' = [x \in Accounts |-> IF x \in T THEN MarkTick(f[x]) ELSE f[x]]
<1> DEFINE a == operator[k]
           paid == Downshift(info[a], queue, a)
           f == [info EXCEPT ![a] = paid.info]
           T == {operator[j] : j \in lastVals \ absent}
<1>1. Found(k) /\ \A j \in lastVals : Found(j)
  BY DEF IInv, SignersKnown
<1>2. a \in Accounts /\ Has(a)
  BY <1>1, FoundType
<1>3. T \in SUBSET {b \in Accounts : Has(b)}
  BY <1>1, FoundType
<1>4. info \in [Accounts -> Infos \cup {NoInfo}]
  BY DEF IInv, TypeOK
<1>. HIDE DEF paid
<1>5. /\ queue' = paid.queue /\ toCount' = absent
      /\ info' = [x \in Accounts |->
                    LET r == IF x = a THEN paid.info ELSE info[x]
                    IN  IF x \in T THEN MarkTick(r) ELSE r]
  BY <1>1 DEF BeginBlocker, paid
<1>6. \A x \in Accounts : f[x] = IF x = a THEN paid.info ELSE info[x]
  BY <1>2, <1>4
<1>. HIDE DEF T, f
<1>7. info' = [x \in Accounts |-> IF x \in T THEN MarkTick(f[x]) ELSE f[x]]
  BY <1>5, <1>6
<1>. QED  BY <1>2, <1>3, <1>5, <1>7 DEF paid, f

LEMMA BeginBlockerKeeps ==
    ASSUME IInv, NEW k \in vals, NEW absent \in SUBSET lastVals,
           BeginBlocker(k, absent)
    PROVE  IInv'
<1> DEFINE a == operator[k]
           paid == Downshift(info[a], queue, a)
           f == [info EXCEPT ![a] = paid.info]
<1>1. /\ a \in Accounts /\ Has(a)
      /\ queue' = paid.queue /\ toCount' = absent
      /\ \E T \in SUBSET {b \in Accounts : Has(b)} :
           info' = [x \in Accounts |-> IF x \in T THEN MarkTick(f[x]) ELSE f[x]]
  BY BeginBlockerValue
<1>2. PICK T \in SUBSET {b \in Accounts : Has(b)} :
        info' = [x \in Accounts |-> IF x \in T THEN MarkTick(f[x]) ELSE f[x]]
  BY <1>1
<1>. HIDE DEF a
<1>3. GoodStep(info[a], queue, a, paid)
  <2>1. info[a] \in Infos
    BY <1>1, RecordType
  <2>2. Alike(info[a], info[a])
    BY <2>1 DEF Alike
  <2>. QED  BY <1>1, <2>1, <2>2, DownshiftStep DEF IInv
<1>. HIDE DEF paid
<1>4. Alike(info[a], paid.info) /\ QueueType(paid.queue)
  BY <1>1, <1>3, MovedType DEF GoodStep, IInv
<1>5. ASSUME NEW x \in Accounts, Has(x) PROVE f[x] \in Infos /\ KeysHeld(x, f[x])
  <2>1. info[x] \in Infos /\ KeysHeld(x, info[x]) /\ info \in [Accounts -> Infos \cup {NoInfo}]
    BY <1>5, RecordType DEF IInv, TypeOK
  <2>2. CASE x = a
    BY <1>1, <1>4, <2>1, <2>2, AlikeHeld
  <2>3. CASE x # a
    BY <2>1, <2>3
  <2>. QED  BY <2>2, <2>3
<1>6. \A x \in Accounts : ~Has(x) => f[x] = NoInfo
  BY <1>1 DEF Has, IInv, TypeOK
<1>. HIDE DEF f
<1>7. ASSUME NEW x \in Accounts, Has(x)
      PROVE  info'[x] \in Infos /\ KeysHeld(x, info'[x])
  <2>1. CASE x \in T
    <3>1. Alike(f[x], MarkTick(f[x]))
      BY <1>5, <1>7, MarkTickStep
    <3>2. MarkTick(f[x]) \in Infos /\ KeysHeld(x, MarkTick(f[x]))
      BY <1>5, <1>7, <3>1, AlikeHeld
    <3>. QED  BY <1>2, <2>1, <3>2
  <2>2. CASE x \notin T
    BY <1>2, <1>5, <1>7, <2>2
  <2>. QED  BY <2>1, <2>2
<1>8. \A x \in Accounts : ~Has(x) => info'[x] = NoInfo
  BY <1>2, <1>6
<1>9. RecordsKept
  <2>1. info' = [x \in Accounts |-> info'[x]]
    BY <1>2
  <2>2. \A x \in Accounts : info'[x] \in Infos \cup {NoInfo}
    BY <1>7, <1>8
  <2>3. info' \in [Accounts -> Infos \cup {NoInfo}]
    BY <2>1, <2>2
  <2>. QED  BY <1>7, <1>8, <2>3, JailBounds DEF RecordsKept
<1>10. OperatorsKept
  BY OperatorsUnchanged DEF BeginBlocker
<1>11. /\ comet' = comet /\ height' \in Nat /\ phase' = "begun"
       /\ toCount' \subseteq toCount \cup lastVals
       /\ meets' = meets /\ banished' = banished /\ halted' = halted /\ events' = events
  BY <1>1 DEF BeginBlocker, IInv, TypeOK
<1>12. meets' \subseteq Accounts /\ banished' \subseteq Accounts /\ events' \in Nat
  BY <1>11 DEF IInv, TypeOK
<1>13. QueueType(queue')
  BY <1>1, <1>4
<1>. QED  BY <1>9, <1>10, <1>11, <1>12, <1>13, Frame

\* The step on one record that most parts of a block are.
LEMMA CountAbsenceStore ==
    ASSUME IInv, NEW k \in Keys, CountAbsence(k)
    PROVE  /\ operator[k] \in Accounts /\ Has(operator[k])
           /\ GoodStep(info[operator[k]], queue, operator[k],
                       MarkStroke(info[operator[k]], queue, operator[k]))
           /\ Store(operator[k], MarkStroke(info[operator[k]], queue, operator[k]))
<1>1. Found(k)
  BY DEF CountAbsence, IInv, CountOK
<1>2. operator[k] \in Accounts /\ Has(operator[k])
  BY <1>1, FoundType
<1>3. info[operator[k]] \in Infos /\ height \in Nat /\ QueueType(queue)
  BY <1>2, RecordType DEF IInv, TypeOK
<1>. QED  BY <1>2, <1>3, MarkStrokeStep DEF CountAbsence

LEMMA CountAbsenceKeeps ==
    ASSUME IInv, NEW k \in Keys, CountAbsence(k)
    PROVE  IInv'
<1>1. RecordsKept /\ QueueType(queue')
  BY CountAbsenceStore, StoreGood
<1>2. OperatorsKept
  BY OperatorsUnchanged DEF CountAbsence
<1>3. /\ comet' = comet /\ height' \in Nat /\ phase' = "begun"
      /\ toCount' \subseteq toCount \cup lastVals
      /\ meets' \subseteq Accounts /\ banished' \subseteq Accounts
      /\ halted' = halted /\ events' \in Nat
  BY DEF CountAbsence, Counting, IInv, TypeOK
<1>. QED  BY <1>1, <1>2, <1>3, Frame

LEMMA ReportType ==
    ASSUME IInv, NEW a \in Accounts, NEW r, NEW m
    PROVE  Report(a, r, m) \subseteq Accounts
BY DEF Report, IInv, TypeOK

LEMMA PunishStore ==
    ASSUME IInv, NEW k \in Keys, NEW penalised \in BOOLEAN, Punish(k, penalised)
    PROVE  LET a == operator[k]
           IN  /\ a \in Accounts /\ Has(a)
               /\ \E q : /\ QueueType(q) /\ (~penalised => q = queue)
                         /\ GoodStep(info[a], q, a, MarkByzantine(info[a], q, a))
                         /\ Store(a, MarkByzantine(info[a], q, a))
               /\ meets' \subseteq Accounts /\ banished' \subseteq Accounts
               /\ ~penalised => banished' = banished
<1> DEFINE a == operator[k]
<1>1. a \in Accounts /\ Has(a) /\ info[a] \in Infos /\ QueueType(queue)
      /\ meets \subseteq Accounts
  BY FoundType, RecordType DEF Punish, IInv, TypeOK
<1>2. PICK m \in IF penalised THEN {meets, meets \ {a}} ELSE {meets} :
        LET q == IF penalised THEN OnStakeChanged(info[a], queue, a, m).queue
                 ELSE queue
        IN  /\ Store(a, MarkByzantine(info[a], q, a))
            /\ meets' = m
            /\ banished' = IF penalised THEN Report(a, info[a], m) ELSE banished
  BY DEF Punish
<1> DEFINE q == IF penalised THEN OnStakeChanged(info[a], queue, a, m).queue ELSE queue
<1>3. QueueType(q) /\ (~penalised => q = queue)
  <2>1. QueueType(OnStakeChanged(info[a], queue, a, m).queue)
    BY <1>1, OnStakeChangedStep
  <2>. QED  BY <1>1, <2>1
<1>4. Store(a, MarkByzantine(info[a], q, a))
  BY <1>2
<1>5. /\ meets' \subseteq Accounts /\ banished' \subseteq Accounts
      /\ ~penalised => banished' = banished
  <2>1. Report(a, info[a], m) \subseteq Accounts /\ banished \subseteq Accounts
    BY <1>1, ReportType DEF IInv, TypeOK
  <2>. QED  BY <1>1, <1>2, <2>1
<1>. HIDE DEF q, a
<1>6. GoodStep(info[a], q, a, MarkByzantine(info[a], q, a))
  BY <1>1, <1>3, MarkByzantineStep
<1>. QED  BY <1>1, <1>3, <1>4, <1>5, <1>6 DEF a

LEMMA PunishKeeps ==
    ASSUME IInv, NEW k \in Keys, NEW penalised \in BOOLEAN, Punish(k, penalised)
    PROVE  IInv'
<1> DEFINE a == operator[k]
<1>1. PICK q : /\ QueueType(q)
               /\ GoodStep(info[a], q, a, MarkByzantine(info[a], q, a))
               /\ Store(a, MarkByzantine(info[a], q, a))
  BY PunishStore
<1>2. a \in Accounts /\ Has(a) /\ meets' \subseteq Accounts /\ banished' \subseteq Accounts
  BY PunishStore
<1>. HIDE DEF a
<1> DEFINE s == MarkByzantine(info[a], q, a)
<1>3. /\ Alike(info[a], s.info) /\ Moved(info[a], q, a, s.info, s.queue)
      /\ info' = [info EXCEPT ![a] = s.info] /\ queue' = s.queue
  BY <1>1 DEF GoodStep, Store
<1>. HIDE DEF s
<1>4. RecordsKept
  BY <1>2, <1>3, OneRecordAlike
<1>5. QueueType(queue')
  BY <1>1, <1>2, <1>3, MovedType
<1>6. OperatorsKept
  BY OperatorsUnchanged DEF Punish
<1>7. /\ comet' = comet /\ height' \in Nat /\ phase' = "begun"
      /\ toCount' \subseteq toCount \cup lastVals
      /\ halted' = halted /\ events' \in Nat
  BY DEF Punish, Judging, Event, IInv, TypeOK
<1>. QED  BY <1>2, <1>4, <1>5, <1>6, <1>7, Frame

-----------------------------------------------------------------------------
(* The transactions.                                                       *)

LEMMA TxFrame ==
    ASSUME IInv, Tx, RecordsKept, OperatorsKept, QueueType(queue'),
           meets' \subseteq Accounts, banished' \subseteq Accounts
    PROVE  IInv'
<1>1. /\ comet' = comet /\ height' \in Nat /\ phase' = "delivering"
      /\ toCount' = {} /\ halted' = halted /\ events' \in Nat
  BY DEF Tx, Delivering, Event, IInv, TypeOK
<1>2. toCount' \subseteq toCount \cup lastVals
  BY <1>1
<1>. QED  BY <1>1, <1>2, Frame

LEMMA SetsType ==
    ASSUME IInv
    PROVE  meets \subseteq Accounts /\ banished \subseteq Accounts /\ QueueType(queue)
BY DEF IInv, TypeOK

LEMMA NewInfoHeld ==
    ASSUME NEW a \in Accounts, NEW k \in KeysOf[a]
    PROVE  NewInfo(k) \in Infos /\ KeysHeld(a, NewInfo(k))
<1>1. k \in Keys /\ k # NoKey
  BY KnownKeys
<1>. QED  BY <1>1, JailBounds DEF NewInfo, Infos, KeysHeld

LEMMA StaffInfoHeld ==
    ASSUME NEW a \in Accounts
    PROVE  StaffInfo \in Infos /\ KeysHeld(a, StaffInfo)
BY JailBounds DEF StaffInfo, NewInfo, Infos, KeysHeld

LEMMA SwitchOnKeeps ==
    ASSUME IInv, NEW a \in Accounts, NEW k \in KeysOf[a], SwitchOn(a, k)
    PROVE  IInv'
<1> DEFINE s == IF Has(a) THEN [info[a] EXCEPT !.status = TRUE, !.pubKey = k]
                ELSE NewInfo(k)
<1>0. k \in Keys /\ k # NoKey
  BY KnownKeys
<1>1. s \in Infos /\ KeysHeld(a, s)
  <2>1. CASE Has(a)
    <3>1. info[a] \in Infos /\ KeysHeld(a, info[a])
      BY <2>1, RecordType
    <3>2. s = [info[a] EXCEPT !.status = TRUE, !.pubKey = k]
      BY <2>1
    <3>. HIDE DEF s
    <3>3. /\ s \in Infos /\ s.pubKey = k
          /\ s.lastKey = info[a].lastKey /\ s.lastPower = info[a].lastPower
      BY <1>0, <3>1, <3>2 DEF Infos
    <3>. QED  BY <1>0, <3>1, <3>3 DEF KeysHeld
  <2>2. CASE ~Has(a)
    BY <2>2, NewInfoHeld
  <2>. QED  BY <2>1, <2>2
<1>2. info' = [info EXCEPT ![a] = s]
  BY DEF SwitchOn
<1>. HIDE DEF s
<1>3. RecordsKept
  BY <1>1, <1>2, OneRecord
<1>4. OperatorsKept
  <2>1. operator' = WithOperator(operator, k, a)
    BY DEF SwitchOn
  <2>2. /\ DOMAIN operator' = DOMAIN operator \cup {k} /\ operator'[k] = a
        /\ \A j \in DOMAIN operator : j # k => operator'[j] = operator[j]
    BY <2>1 DEF WithOperator
  <2>3. info'[a] # NoInfo
    BY <1>1, <1>2, JailBounds DEF IInv, TypeOK
  <2>4. DOMAIN operator \subseteq Keys /\ \A j \in DOMAIN operator : operator[j] \in Accounts
    BY DEF IInv, TypeOK
  <2>. QED  BY <1>0, <2>2, <2>3, <2>4 DEF OperatorsKept
<1>5. queue' = queue /\ meets' = meets /\ banished' \subseteq Accounts /\ Tx
  BY SetsType DEF SwitchOn
<1>. QED  BY <1>3, <1>4, <1>5, SetsType, TxFrame

LEMMA SwitchOffStore ==
    ASSUME IInv, NEW a \in Accounts, SwitchOff(a)
    PROVE  /\ Has(a) /\ GoodStep(info[a], queue, a, SwitchedOff(info[a], queue, a))
           /\ Store(a, SwitchedOff(info[a], queue, a))
           /\ ~SwitchedOff(info[a], queue, a).info.status
<1>1. Has(a) /\ info[a] \in Infos
  BY RecordType DEF SwitchOff
<1>2. Alike(info[a], info[a])
  BY <1>1 DEF Alike
<1>. QED  BY <1>1, <1>2, SwitchedOffStep DEF SwitchOff

LEMMA SwitchOffKeeps ==
    ASSUME IInv, NEW a \in Accounts, SwitchOff(a)
    PROVE  IInv'
<1>1. RecordsKept /\ QueueType(queue')
  BY SwitchOffStore, StoreGood
<1>2. OperatorsKept
  BY OperatorsUnchanged DEF SwitchOff
<1>3. Tx /\ meets' = meets /\ banished' = banished
  BY DEF SwitchOff
<1>. QED  BY <1>1, <1>2, <1>3, SetsType, TxFrame

LEMMA UnjailValue ==
    ASSUME IInv, NEW a \in Accounts, Unjail(a)
    PROVE  LET s == [info[a] EXCEPT !.jailed = FALSE,
                                    !.status = @ /\ IsQualified(a, meets)]
           IN  /\ Has(a) /\ Alike(info[a], s) /\ s.lotteryNo = info[a].lotteryNo
               /\ info[a].jailed
               /\ info' = [info EXCEPT ![a] = s]
<1> DEFINE on == info[a].status /\ IsQualified(a, meets)
           s == [info[a] EXCEPT !.jailed = FALSE, !.status = on]
<1>1. Has(a) /\ info[a] \in Infos /\ info[a].jailed
  BY RecordType DEF Unjail
<1>2. on \in BOOLEAN
  BY <1>1 DEF Infos
<1>3. on => info[a].status
  OBVIOUS
<1>4. info' = [info EXCEPT ![a] = s]
  <2>1. info \in [Accounts -> Infos \cup {NoInfo}]
    BY DEF IInv, TypeOK
  <2>. QED  BY <2>1 DEF Unjail
<1>. HIDE DEF on
<1>5. Alike(info[a], s) /\ s.lotteryNo = info[a].lotteryNo
  BY <1>1, <1>2, <1>3 DEF Infos, Alike
<1>. QED  BY <1>1, <1>4, <1>5 DEF on

LEMMA UnjailKeeps ==
    ASSUME IInv, NEW a \in Accounts, Unjail(a)
    PROVE  IInv'
<1>1. RecordsKept
  BY UnjailValue, OneRecordAlike
<1>2. OperatorsKept
  BY OperatorsUnchanged DEF Unjail
<1>3. Tx /\ queue' = queue /\ meets' = meets /\ banished' \subseteq Accounts
  BY SetsType DEF Unjail
<1>. QED  BY <1>1, <1>2, <1>3, SetsType, TxFrame

LEMMA AddToStaffValue ==
    ASSUME IInv, NEW a \in Accounts, AddToStaff(a)
    PROVE  \E s \in Infos :
             /\ info' = [info EXCEPT ![a] = s] /\ KeysHeld(a, s)
             /\ Has(a) => /\ Alike(info[a], s) /\ s.lotteryNo = info[a].lotteryNo
                          /\ IsActive(info[a]) => IsActive(s)
             /\ ~Has(a) => s.lotteryNo = 0 /\ ~s.status
<1> DEFINE s == IF Has(a) THEN [info[a] EXCEPT !.staff = TRUE] ELSE StaffInfo
<1>1. info' = [info EXCEPT ![a] = s]
  <2>1. info \in [Accounts -> Infos \cup {NoInfo}]
    BY DEF IInv, TypeOK
  <2>. QED  BY <2>1 DEF AddToStaff
<1>2. CASE Has(a)
  <2>1. info[a] \in Infos /\ KeysHeld(a, info[a])
    BY <1>2, RecordType
  <2>2. s = [info[a] EXCEPT !.staff = TRUE]
    BY <1>2
  <2>. HIDE DEF s
  <2>3. /\ s \in Infos /\ Alike(info[a], s) /\ s.lotteryNo = info[a].lotteryNo
        /\ s.status = info[a].status /\ s.jailed = info[a].jailed
        /\ s.banned = info[a].banned
    BY <2>1, <2>2 DEF Infos, Alike
  <2>4. KeysHeld(a, s) /\ (IsActive(info[a]) => IsActive(s))
    BY <2>1, <2>3, AlikeHeld, JailBounds DEF IsActive
  <2>. QED  BY <1>1, <1>2, <2>3, <2>4
<1>3. CASE ~Has(a)
  <2>1. s \in Infos /\ KeysHeld(a, s)
    BY <1>3, StaffInfoHeld
  <2>2. s.lotteryNo = 0 /\ ~s.status
    BY <1>3 DEF StaffInfo, NewInfo
  <2>. HIDE DEF s
  <2>. QED  BY <1>1, <1>3, <2>1, <2>2
<1>. QED  BY <1>2, <1>3

LEMMA AddToStaffKeeps ==
    ASSUME IInv, NEW a \in Accounts, AddToStaff(a)
    PROVE  IInv'
<1>1. RecordsKept
  BY AddToStaffValue, OneRecord
<1>2. OperatorsKept
  BY OperatorsUnchanged DEF AddToStaff
<1>3. Tx /\ queue' = queue /\ meets' = meets /\ banished' = banished
  BY DEF AddToStaff
<1>. QED  BY <1>1, <1>2, <1>3, SetsType, TxFrame

LEMMA RemoveFromStaffStore ==
    ASSUME IInv, NEW a \in Accounts, RemoveFromStaff(a)
    PROVE  LET r == [info[a] EXCEPT !.staff = FALSE]
               s == OnStatusUpdate(r, queue, a, meets)
           IN  /\ Has(a) /\ GoodStep(info[a], queue, a, s) /\ Store(a, s)
               /\ banished' = Report(a, r, meets)
               /\ Unqualified(r, a, meets) => ~s.info.status
<1> DEFINE r == [info[a] EXCEPT !.staff = FALSE]
           s == OnStatusUpdate(r, queue, a, meets)
<1>1. Has(a) /\ info[a] \in Infos
  BY RecordType DEF RemoveFromStaff
<1>2. Store(a, s) /\ banished' = Report(a, r, meets)
  BY DEF RemoveFromStaff
<1>3. /\ r \in Infos /\ Alike(info[a], r) /\ r.lotteryNo = info[a].lotteryNo
      /\ r.status = info[a].status /\ r.jailed = info[a].jailed
      /\ r.banned = info[a].banned
  BY <1>1 DEF Infos, Alike
<1>. HIDE DEF r
<1>4. IsActive(info[a]) => IsActive(r)
  BY <1>3, JailBounds DEF IsActive
<1>5. GoodStep(info[a], queue, a, s) /\ (Unqualified(r, a, meets) => ~s.info.status)
  BY <1>1, <1>3, <1>4, OnStatusUpdateStep
<1>. QED  BY <1>1, <1>2, <1>5 DEF r

LEMMA RemoveFromStaffKeeps ==
    ASSUME IInv, NEW a \in Accounts, RemoveFromStaff(a)
    PROVE  IInv'
<1>1. RecordsKept /\ QueueType(queue')
  <2> DEFINE r == [info[a] EXCEPT !.staff = FALSE]
             s == OnStatusUpdate(r, queue, a, meets)
  <2>1. Has(a) /\ GoodStep(info[a], queue, a, s) /\ Store(a, s)
    BY RemoveFromStaffStore
  <2>. HIDE DEF s
  <2>. QED  BY <2>1, StoreGood
<1>2. OperatorsKept
  BY OperatorsUnchanged DEF RemoveFromStaff
<1>3. Tx /\ meets' = meets /\ banished' \subseteq Accounts
  BY ReportType DEF RemoveFromStaff
<1>. QED  BY <1>1, <1>2, <1>3, SetsType, TxFrame

\* Without a hook or with one that finds nobody nothing is stored.
LEMMA RequalifyStore ==
    ASSUME IInv, NEW a \in Accounts, NEW cause \in Causes, Requalify(a, cause)
    PROVE  \/ info' = info /\ queue' = queue /\ banished' = banished
           \/ /\ cause = "stake" /\ Has(a) /\ QueueType(queue')
              /\ info' = info /\ banished' \subseteq Accounts
           \/ \E m : LET s == OnStatusUpdate(info[a], queue, a, m)
                     IN  /\ Has(a) /\ GoodStep(info[a], queue, a, s) /\ Store(a, s)
                         /\ banished' = Report(a, info[a], m)
                         /\ Unqualified(info[a], a, m) => ~s.info.status
<1> DEFINE m == (meets \ {a}) \cup ({a} \ meets)
<1>1. cause \in {"status", "stake", "criteria"}
  BY NodingAssumption
<1>2. CASE ~(Has(a) /\ cause # "criteria")
  BY <1>2 DEF Requalify
<1>3. CASE Has(a) /\ cause # "criteria"
  <2>1. /\ Store(a, IF cause = "status"
                    THEN OnStatusUpdate(info[a], queue, a, m)
                    ELSE OnStakeChanged(info[a], queue, a, m))
        /\ banished' = Report(a, info[a], m)
    BY <1>3 DEF Requalify
  <2>2. info[a] \in Infos /\ Alike(info[a], info[a]) /\ QueueType(queue)
    BY <1>3, RecordType DEF Alike, IInv
  <2>. HIDE DEF m
  <2>3. CASE cause = "status"
    <3>1. /\ GoodStep(info[a], queue, a, OnStatusUpdate(info[a], queue, a, m))
          /\ Unqualified(info[a], a, m) => ~OnStatusUpdate(info[a], queue, a, m).info.status
      BY <2>2, OnStatusUpdateStep
    <3>2. Store(a, OnStatusUpdate(info[a], queue, a, m))
      BY <2>1, <2>3
    <3>. QED  BY <1>3, <2>1, <3>1, <3>2
  <2>4. CASE cause = "stake"
    <3>1. /\ OnStakeChanged(info[a], queue, a, m).info = info[a]
          /\ QueueType(OnStakeChanged(info[a], queue, a, m).queue)
      BY <2>2, OnStakeChangedStep
    <3>2. Store(a, OnStakeChanged(info[a], queue, a, m))
      BY <2>1, <2>4
    <3>3. info' = [info EXCEPT ![a] = info[a]] /\ QueueType(queue')
      BY <3>1, <3>2 DEF Store
    <3>4. info' = info
      BY <3>3 DEF IInv, TypeOK
    <3>5. banished' \subseteq Accounts
      BY <2>1, ReportType
    <3>. QED  BY <1>3, <2>4, <3>3, <3>4, <3>5
  <2>. QED  BY <1>1, <1>3, <2>3, <2>4
<1>. QED  BY <1>2, <1>3

LEMMA RequalifyKeeps ==
    ASSUME IInv, NEW a \in Accounts, NEW cause \in Causes, Requalify(a, cause)
    PROVE  IInv'
<1>1. RecordsKept /\ QueueType(queue') /\ banished' \subseteq Accounts
  <2>1. CASE info' = info /\ queue' = queue /\ banished' = banished
    BY <2>1, RecordsUnchanged, SetsType
  <2>2. CASE /\ cause = "stake" /\ Has(a) /\ QueueType(queue')
             /\ info' = info /\ banished' \subseteq Accounts
    BY <2>2, RecordsUnchanged
  <2>3. CASE \E m : LET s == OnStatusUpdate(info[a], queue, a, m)
                    IN  /\ Has(a) /\ GoodStep(info[a], queue, a, s) /\ Store(a, s)
                        /\ banished' = Report(a, info[a], m)
                        /\ Unqualified(info[a], a, m) => ~s.info.status
    <3>1. PICK m : LET s == OnStatusUpdate(info[a], queue, a, m)
                   IN  /\ Has(a) /\ GoodStep(info[a], queue, a, s) /\ Store(a, s)
                       /\ banished' = Report(a, info[a], m)
      BY <2>3
    <3> DEFINE s == OnStatusUpdate(info[a], queue, a, m)
    <3>2. Has(a) /\ GoodStep(info[a], queue, a, s) /\ Store(a, s)
      BY <3>1
    <3>. HIDE DEF s
    <3>3. RecordsKept /\ QueueType(queue')
      BY <3>2, StoreGood
    <3>. QED  BY <3>1, <3>3, ReportType
  <2>. QED  BY <2>1, <2>2, <2>3, RequalifyStore
<1>2. OperatorsKept
  BY OperatorsUnchanged DEF Requalify
<1>3. Tx /\ meets' \subseteq Accounts
  BY SetsType DEF Requalify
<1>. QED  BY <1>1, <1>2, <1>3, TxFrame

-----------------------------------------------------------------------------
(* Genesis.                                                                *)

LEMMA InitInvariant == Init => IInv
<1>. SUFFICES ASSUME Init PROVE IInv
  OBVIOUS
<1>1. PICK g \in Genesis :
        /\ info = [a \in Accounts |-> IF a \in DOMAIN g THEN NewInfo(g[a]) ELSE NoInfo]
        /\ operator = [k \in {g[a] : a \in DOMAIN g} |-> CHOOSE a \in DOMAIN g : g[a] = k]
        /\ meets \in {m \in SUBSET Accounts : DOMAIN g \subseteq m}
  BY DEF Init
<1>2. /\ height = 0 /\ phase = "genesis" /\ toCount = {}
      /\ queue = [n \in {} |-> 0]
      /\ lastVals = {} /\ vals = {} /\ nextVals = [k \in {} |-> 0]
      /\ halted = "no" /\ events = 0 /\ banished = {}
  BY DEF Init
<1>3. DOMAIN g \subseteq Accounts /\ \A a \in DOMAIN g : g[a] \in KeysOf[a]
  BY NodingAssumption
<1>4. \A a \in Accounts : a \in DOMAIN g =>
        NewInfo(g[a]) \in Infos /\ KeysHeld(a, NewInfo(g[a]))
  BY <1>3, NewInfoHeld
<1>5. info \in [Accounts -> Infos \cup {NoInfo}]
  BY <1>1, <1>4
<1>6. KeysOK
  BY <1>1, <1>4 DEF KeysOK, Has
<1>7. DOMAIN operator \subseteq Keys /\ \A k \in DOMAIN operator : operator[k] \in Accounts
  <2>1. DOMAIN operator = {g[a] : a \in DOMAIN g}
    BY <1>1
  <2>2. DOMAIN operator \subseteq Keys
    BY <1>3, <2>1, KnownKeys
  <2>3. \A k \in DOMAIN operator : operator[k] \in DOMAIN g
    BY <1>1, <2>1
  <2>. QED  BY <1>3, <2>2, <2>3
<1>8. DOMAIN queue = {} /\ DOMAIN nextVals = {}
  BY <1>2
<1>9. QueueType(queue)
  BY <1>8, FS_EmptySet DEF QueueType
<1>10. TypeOK
  BY <1>1, <1>2, <1>5, <1>7, <1>8 DEF TypeOK
<1>11. CountOK /\ SignersKnown
  BY <1>2, <1>8 DEF CountOK, SignersKnown
<1>. QED  BY <1>6, <1>9, <1>10, <1>11 DEF IInv

LEMMA ImportedHeld ==
    ASSUME NEW a \in Accounts, NEW r \in Infos, KeysHeld(a, r), NEW on \in BOOLEAN,
           on => r.status
    PROVE  /\ Imported(r, on) \in Infos /\ KeysHeld(a, Imported(r, on))
           /\ Imported(r, on).lotteryNo = 0 /\ Imported(r, on).lastPower = 0
           /\ Imported(r, on).status => r.status
<1> DEFINE st == on \/ (r.jailed /\ r.status)
           s == [r EXCEPT !.status = st, !.lastPower = 0, !.lastKey = NoKey,
                          !.lotteryNo = 0]
<1>1. s = Imported(r, on)
  BY DEF Imported
<1>2. st \in BOOLEAN /\ (st => r.status)
  BY DEF Infos
<1>. HIDE DEF st
<1>3. /\ s \in Infos /\ s.pubKey = r.pubKey /\ s.lastKey = NoKey /\ s.lastPower = 0
      /\ s.lotteryNo = 0 /\ s.status = st
  BY <1>2 DEF Infos
<1>. HIDE DEF s
<1>4. KeysHeld(a, s)
  BY <1>2, <1>3 DEF KeysHeld
<1>5. s.status => r.status
  BY <1>2, <1>3
<1>. QED  BY ONLY <1>1, <1>3, <1>4, <1>5

LEMMA RestartValue ==
    ASSUME IInv, Restart
    PROVE  /\ info' \in [Accounts -> Infos \cup {NoInfo}]
           /\ \A a \in Accounts : ~Has(a) => info'[a] = NoInfo
           /\ \A a \in Accounts : Has(a) =>
                /\ info'[a] \in Infos /\ KeysHeld(a, info'[a])
                /\ info'[a].lotteryNo = 0 /\ info'[a].lastPower = 0
                /\ info'[a].status => info[a].status
<1>1. info' = [a \in Accounts |-> IF Has(a) THEN Imported(info[a], a \in Active) ELSE NoInfo]
  BY DEF Restart
<1>2. ASSUME NEW a \in Accounts, Has(a)
      PROVE  LET s == Imported(info[a], a \in Active)
             IN  /\ s \in Infos /\ KeysHeld(a, s)
                 /\ s.lotteryNo = 0 /\ s.lastPower = 0
                 /\ s.status => info[a].status
  <2> DEFINE on == a \in Active
  <2>1. info[a] \in Infos /\ KeysHeld(a, info[a])
    BY <1>2, RecordType
  <2>2. on \in BOOLEAN /\ (on => info[a].status)
    BY DEF Active, IsActive
  <2>. HIDE DEF on
  <2>3. LET s == Imported(info[a], on)
        IN  /\ s \in Infos /\ KeysHeld(a, s)
            /\ s.lotteryNo = 0 /\ s.lastPower = 0
            /\ s.status => info[a].status
    BY <2>1, <2>2, ImportedHeld
  <2>. QED  BY <2>3 DEF on
<1>3. \A a \in Accounts : info'[a] = IF Has(a) THEN Imported(info[a], a \in Active) ELSE NoInfo
  BY <1>1
<1>4. ASSUME NEW a \in Accounts, Has(a)
      PROVE  /\ info'[a] \in Infos /\ KeysHeld(a, info'[a])
             /\ info'[a].lotteryNo = 0 /\ info'[a].lastPower = 0
             /\ info'[a].status => info[a].status
  <2> DEFINE s == Imported(info[a], a \in Active)
  <2>1. /\ s \in Infos /\ KeysHeld(a, s)
        /\ s.lotteryNo = 0 /\ s.lastPower = 0
        /\ s.status => info[a].status
    BY <1>2, <1>4
  <2>2. info'[a] = s
    BY <1>3, <1>4
  <2>. HIDE DEF s
  <2>. QED  BY <2>1, <2>2
<1>5. info' \in [Accounts -> Infos \cup {NoInfo}]
  <2>1. info' = [a \in Accounts |-> info'[a]]
    BY <1>1
  <2>2. \A a \in Accounts : info'[a] \in Infos \cup {NoInfo}
    BY <1>3, <1>4
  <2>. QED  BY <2>1, <2>2
<1>. QED  BY <1>3, <1>4, <1>5

LEMMA RestartKeeps ==
    ASSUME IInv, Restart
    PROVE  IInv'
<1>1. /\ info' \in [Accounts -> Infos \cup {NoInfo}]
      /\ KeysOK'
  BY RestartValue DEF KeysOK, Has
<1>2. /\ phase = "ended" /\ phase' = "genesis" /\ height' = height
      /\ operator' = [k \in {info[a].pubKey : a \in Active} |->
                        CHOOSE a \in Active : info[a].pubKey = k]
      /\ queue' = [n \in {} |-> 0]
      /\ lastVals' = {} /\ vals' = {} /\ nextVals' = [k \in {} |-> 0]
      /\ halted' \in {"no", "import"} /\ events' = events + 1
      /\ toCount' = toCount /\ meets' = meets /\ banished' = banished
  BY DEF Restart, Event
<1>3. toCount = {}
  BY <1>2 DEF IInv, CountOK
<1>4. \A a \in Active : a \in Accounts /\ info[a].pubKey \in Keys
  <2>1. ASSUME NEW a \in Active PROVE a \in Accounts /\ info[a].pubKey \in Keys
    <3>1. a \in Accounts /\ Has(a) /\ info[a].status
      BY DEF Active, IsActive, Has
    <3>. QED  BY <3>1, RecordType, KnownKeys DEF KeysHeld
  <2>. QED  BY <2>1
<1>5. DOMAIN operator' \subseteq Keys /\ \A k \in DOMAIN operator' : operator'[k] \in Accounts
  <2>1. DOMAIN operator' = {info[a].pubKey : a \in Active}
    BY <1>2
  <2>2. \A k \in DOMAIN operator' : operator'[k] \in Active
    BY <1>2, <2>1
  <2>. QED  BY <1>4, <2>1, <2>2
<1>6. DOMAIN queue' = {} /\ DOMAIN nextVals' = {}
  BY <1>2
<1>7. QueueType(queue)'
  BY <1>6, FS_EmptySet DEF QueueType
<1>8. TypeOK'
  <2>1. /\ height' \in Nat /\ events' \in Nat
        /\ meets' \subseteq Accounts /\ banished' \subseteq Accounts
    BY <1>2 DEF IInv, TypeOK
  <2>2. /\ phase' \in {"genesis", "begun", "delivering", "ended"}
        /\ toCount' \subseteq Keys
        /\ halted' \in {"no", "duplicate", "unknown", "empty", "import"}
        /\ lastVals' \subseteq Keys /\ vals' \subseteq Keys
    BY <1>2, <1>3
  <2>. QED  BY <1>1, <1>5, <1>6, <2>1, <2>2 DEF TypeOK
<1>9. CountOK' /\ SignersKnown'
  BY <1>2, <1>3, <1>6 DEF CountOK, SignersKnown
<1>. QED  BY <1>1, <1>7, <1>8, <1>9 DEF IInv

-----------------------------------------------------------------------------
(* The end of a block.                                                     *)

Places(ties) == Placement(Slices, MaxValidators, ties)

Powers(rank, ties) ==
    [a \in Top(rank) \cup Lucky(Top(rank)) |->
       IF a \in Top(rank) THEN Slices[Places(ties)[rank[a]]].power ELSE LuckyPower]

Updates(power) == UNION {UpdatesFor(a, power) : a \in {x \in Accounts : Has(x)}}

Placed(rest, numbers) ==
    [n \in DOMAIN rest \cup Range(numbers) |->
       IF n \in Range(numbers) THEN AntiFunction(numbers)[n] ELSE rest[n]]

\* What EndBlocker does, given the ranking and the ties.
EndsWith(rank, ties, top, lucky, rest, numbers) ==
    LET place == Placement(Slices, MaxValidators, ties)
        power == [a \in top \cup lucky |->
                    IF a \in top THEN Slices[place[rank[a]]].power ELSE LuckyPower]
        upd == UNION {UpdatesFor(a, power) : a \in {x \in Accounts : Has(x)}}
        next == Updated(nextVals, upd)
        added == Range(numbers)
    IN  /\ info' = [a \in Accounts |-> Gathered(a, top, power, numbers)]
        /\ queue' = [n \in DOMAIN rest \cup added |->
                       IF n \in added THEN AntiFunction(numbers)[n] ELSE rest[n]]
        /\ halted' = Verdict(upd, DOMAIN next)
        /\ nextVals' = next
        /\ vals' = DOMAIN (IF phase = "genesis" THEN next ELSE nextVals)

Ended(rank, ties) ==
    LET power == Powers(rank, ties)
        numbers == Numbers(rank, Top(rank))
        next == Updated(nextVals, Updates(power))
    IN  /\ rank \in Rankings[Active] /\ ties \in SUBSET (2..TopSeats)
        /\ info' = [a \in Accounts |-> Gathered(a, Top(rank), power, numbers)]
        /\ queue' = Placed(QueueOfRest(Top(rank)), numbers)
        /\ halted' = Verdict(Updates(power), DOMAIN next)
        /\ nextVals' = next
        /\ vals' = DOMAIN (IF phase = "genesis" THEN next ELSE nextVals)

LEMMA EndBlockerValue ==
    ASSUME EndBlocker
    PROVE  /\ \E rank, ties : Ended(rank, ties)
           /\ toCount = {} \/ phase = "genesis"
           /\ phase' = "ended" /\ operator' = Refreshed(operator) /\ lastVals' = vals
           /\ UNCHANGED <<height, toCount, meets, events, banished>>
<1>1. \E rank \in Rankings[Active] :
      \E top \in {Top(rank)}, ties \in SUBSET (2..TopSeats) :
      \E lucky \in {Lucky(top)}, rest \in {QueueOfRest(top)}, numbers \in {Numbers(rank, top)} :
        EndsWith(rank, ties, top, lucky, rest, numbers)
  BY DEF EndBlocker, EndsWith
<1>2. PICK rank \in Rankings[Active], ties \in SUBSET (2..TopSeats) :
        EndsWith(rank, ties, Top(rank), Lucky(Top(rank)), QueueOfRest(Top(rank)),
                 Numbers(rank, Top(rank)))
  BY <1>1
<1>3. Ended(rank, ties)
  BY <1>2 DEF EndsWith, Ended, Powers, Updates, Placed, Places
<1>4. \E r, t : Ended(r, t)
  BY <1>3
<1>. QED  BY <1>4 DEF EndBlocker, Delivering

(***************************************************************************)
(* The seats, and who gets them.                                           *)
(***************************************************************************)
LEMMA SeatFacts ==
    /\ IsFiniteSet(Active) /\ Active \subseteq Accounts /\ Cardinality(Active) \in Nat
    /\ TopSeats \in Nat /\ TopSeats <= MaxValidators /\ TopSeats <= Cardinality(Active)
    /\ Cardinality(Active) <= MaxValidators => TopSeats = Cardinality(Active)
    /\ LuckySeats \in Nat /\ LuckySeats <= LotteryValidators
    /\ MaxValidators \in Nat \ {0} /\ LotteryValidators \in Nat
<1>1. IsFiniteSet(Accounts) /\ MaxValidators \in Nat \ {0} /\ LotteryValidators \in Nat
  BY NodingAssumption
<1>2. Active \subseteq Accounts
  BY DEF Active
<1>3. IsFiniteSet(Active) /\ Cardinality(Active) \in Nat
  BY <1>1, <1>2, FS_Subset, FS_CardinalityType
<1>4. /\ TopSeats \in Nat /\ TopSeats <= MaxValidators /\ TopSeats <= Cardinality(Active)
      /\ Cardinality(Active) <= MaxValidators => TopSeats = Cardinality(Active)
  BY <1>1, <1>3 DEF TopSeats, Least
<1>5. LuckySeats \in Nat /\ LuckySeats <= LotteryValidators
  BY <1>1, <1>3, <1>4 DEF LuckySeats, Least
<1>. QED  BY <1>1, <1>2, <1>3, <1>4, <1>5

LEMMA RankType ==
    ASSUME NEW rank \in Rankings[Active]
    PROVE  /\ rank \in [Active -> 1..Cardinality(Active)]
           /\ \A a, b \in Active : rank[a] = rank[b] => a = b
<1>1. Active \in SUBSET Accounts
  BY SeatFacts
<1>. QED  BY <1>1 DEF Rankings

LEMMA PowersType ==
    ASSUME NEW rank \in Rankings[Active], NEW ties \in SUBSET (2..TopSeats)
    PROVE  /\ DOMAIN Powers(rank, ties) = Top(rank) \cup Lucky(Top(rank))
           /\ Top(rank) \subseteq Active /\ Lucky(Top(rank)) \subseteq Active \ Top(rank)
           /\ \A a \in Lucky(Top(rank)) : info[a].lotteryNo # 0
           /\ \A a \in DOMAIN Powers(rank, ties) : Powers(rank, ties)[a] \in Nat \ {0}
<1>1. /\ DOMAIN Powers(rank, ties) = Top(rank) \cup Lucky(Top(rank))
      /\ Top(rank) \subseteq Active /\ Lucky(Top(rank)) \subseteq Active \ Top(rank)
      /\ \A a \in Lucky(Top(rank)) : info[a].lotteryNo # 0
  BY DEF Powers, Top, Lucky
<1>0. \A i \in 1..Len(Slices) : Slices[i] \in [part : Fractions, power : Nat]
  <2> DEFINE R == [part : Fractions, power : Nat]
  <2>1. Slices \in Seq(R)
    BY NodingAssumption
  <2>. HIDE DEF R
  <2>2. \A i \in 1..Len(Slices) : Slices[i] \in R
    BY <2>1
  <2>. QED  BY <2>2 DEF R
<1>2. LuckyPower \in Nat \ {0}
  BY NodingAssumption
<1>3. ASSUME NEW a \in Top(rank)
      PROVE  Slices[Places(ties)[rank[a]]].power \in Nat \ {0}
  <2> DEFINE n == rank[a]
             p == Generators(Slices, MaxValidators, ties)[n].slice
  <2>1. Slices \in Seq([part : Fractions, power : Nat]) /\ ValidSlices(Slices)
    BY NodingAssumption
  <2>2. Slices \in Seq(SliceType)
    <3>1. ASSUME NEW x \in [part : Fractions, power : Nat] PROVE x \in SliceType
      BY DEF SliceType, Fractions, SignedFractions, Positive
    <3>. HIDE DEF SliceType
    <3>2. \A i \in 1..Len(Slices) : Slices[i] \in [part : Fractions, power : Nat]
      BY <1>0
    <3>3. \A i \in 1..Len(Slices) : Slices[i] \in SliceType
      BY <3>1, <3>2
    <3>4. Len(Slices) \in Nat /\ Slices = [i \in 1..Len(Slices) |-> Slices[i]]
      BY <2>1
    <3>. HIDE DEF SliceType
    <3>. QED  BY <3>3, <3>4
  <2>3. n \in 1..MaxValidators
    <3>1. a \in Active /\ rank[a] <= TopSeats
      BY DEF Top
    <3>. QED  BY <3>1, RankType, SeatFacts
  <2>4. InSlices(Generators(Slices, MaxValidators, ties)[n], Slices, n)
    BY <2>1, <2>2, <2>3, SeatFacts, GeneratorsInSlices
  <2>5. p \in 1..Len(Slices) /\ Places(ties)[n] = p
    BY <2>3, <2>4 DEF InSlices, Places, Placement
  <2>. HIDE DEF p, n
  <2>6. p \in DOMAIN Slices /\ Slices[p] \in [part : Fractions, power : Nat]
    <3>1. DOMAIN Slices = 1..Len(Slices)
      BY <2>1
    <3>. QED  BY <1>0, <2>5, <3>1
  <2>7. Slices[p].power > 0 /\ Slices[p].power \in Nat
    BY <2>1, <2>6 DEF ValidSlices
  <2>8. Slices[p].power \in Nat \ {0}
    BY <2>7
  <2>. QED  BY <2>5, <2>8 DEF n
<1>4. \A a \in DOMAIN Powers(rank, ties) :
        Powers(rank, ties)[a] = IF a \in Top(rank) THEN Slices[Places(ties)[rank[a]]].power
                                ELSE LuckyPower
  BY DEF Powers
<1>. QED  BY <1>1, <1>2, <1>3, <1>4

(***************************************************************************)
(* The queue without those at the top.                                     *)
(***************************************************************************)
LEMMA RestType ==
    ASSUME QueueType(queue), NEW top
    PROVE  /\ QueueType(QueueOfRest(top))
           /\ DOMAIN QueueOfRest(top) = DOMAIN queue \ {info[a].lotteryNo : a \in top}
           /\ \A n \in DOMAIN QueueOfRest(top) : QueueOfRest(top)[n] = queue[n]
<1>1. /\ DOMAIN QueueOfRest(top) = DOMAIN queue \ {info[a].lotteryNo : a \in top}
      /\ \A n \in DOMAIN QueueOfRest(top) : QueueOfRest(top)[n] = queue[n]
  BY DEF QueueOfRest
<1>2. IsFiniteSet(DOMAIN QueueOfRest(top))
  BY <1>1, FS_Subset DEF QueueType
<1>. QED  BY <1>1, <1>2 DEF QueueType

(***************************************************************************)
(* Newcomers get different numbers, all of them behind the rest.           *)
(***************************************************************************)
LEMMA NumbersType ==
    ASSUME QueueType(queue), NEW rank \in Rankings[Active], NEW top
    PROVE  LET numbers == Numbers(rank, top)
               first == NextNo(QueueOfRest(top))
           IN  /\ numbers \in [Newcomers(top) -> Nat \ {0}]
               /\ first \in Nat \ {0} /\ \A a \in Newcomers(top) : numbers[a] >= first
               /\ \A n \in DOMAIN QueueOfRest(top) : n < first
               /\ \A a, b \in Newcomers(top) : numbers[a] = numbers[b] => a = b
<1> DEFINE numbers == Numbers(rank, top)
           first == NextNo(QueueOfRest(top))
           new == Newcomers(top)
           Before(a) == {b \in new : rank[b] < rank[a]}
<1>1. first \in Nat \ {0} /\ \A n \in DOMAIN QueueOfRest(top) : n < first
  BY RestType, NextNoIsLast
<1>2. numbers = [a \in new |-> first + Cardinality(Before(a))]
  BY DEF Numbers
<1>3. new \subseteq Active /\ IsFiniteSet(new)
  BY SeatFacts, FS_Subset DEF Newcomers
<1>4. /\ \A a \in new : rank[a] \in Nat
      /\ \A a, b \in new : rank[a] = rank[b] => a = b
  BY <1>3, RankType, SeatFacts
<1>. HIDE DEF numbers, first, new
<1>5. ASSUME NEW a \in new
      PROVE  IsFiniteSet(Before(a)) /\ Cardinality(Before(a)) \in Nat
  BY <1>3, FS_Subset, FS_CardinalityType
<1>6. ASSUME NEW a \in new, NEW b \in new, rank[a] < rank[b]
      PROVE  Cardinality(Before(a)) < Cardinality(Before(b))
  <2>1. a \in Before(b) /\ a \notin Before(a)
    BY <1>4, <1>6
  <2>2. Before(a) \subseteq Before(b)
    BY <1>4, <1>6
  <2>3. IsFiniteSet(Before(b)) /\ Cardinality(Before(b)) \in Nat
        /\ Cardinality(Before(a)) \in Nat
    BY <1>5
  <2>. HIDE DEF Before
  <2>4. Cardinality(Before(a)) <= Cardinality(Before(b))
        /\ (Cardinality(Before(b)) = Cardinality(Before(a)) => Before(b) = Before(a))
    BY <2>2, <2>3, FS_Subset
  <2>. QED  BY <2>1, <2>3, <2>4
<1>. HIDE DEF Before
<1>7. /\ numbers \in [new -> Nat \ {0}]
      /\ \A a \in new : numbers[a] >= first /\ numbers[a] = first + Cardinality(Before(a))
  BY <1>1, <1>2, <1>5
<1>8. ASSUME NEW a \in new, NEW b \in new, numbers[a] = numbers[b] PROVE a = b
  <2>1. Cardinality(Before(a)) = Cardinality(Before(b))
    BY <1>1, <1>5, <1>7, <1>8
  <2>2. ~(rank[a] < rank[b]) /\ ~(rank[b] < rank[a])
    BY <1>5, <1>6, <2>1
  <2>. QED  BY <1>4, <2>2
<1>. QED  BY <1>1, <1>7, <1>8 DEF numbers, first, new

\* Who is at the top, who has a seat and with which power, and the numbers of
\* the newcomers, as far as the properties depend on them.
Round(top, power, numbers) ==
    /\ top \subseteq DOMAIN power /\ DOMAIN power \subseteq Active
    /\ \A a \in DOMAIN power : power[a] \in Nat \ {0}
    /\ \A a \in DOMAIN power : a \notin top => info[a].lotteryNo # 0
    /\ numbers \in [Newcomers(top) -> Nat \ {0}]
    /\ \A a, b \in Newcomers(top) : numbers[a] = numbers[b] => a = b
    /\ \A n \in DOMAIN QueueOfRest(top), a \in Newcomers(top) : n < numbers[a]

LEMMA EndedRound ==
    ASSUME QueueType(queue), NEW rank, NEW ties, Ended(rank, ties)
    PROVE  Round(Top(rank), Powers(rank, ties), Numbers(rank, Top(rank)))
<1> DEFINE top == Top(rank)
           power == Powers(rank, ties)
           numbers == Numbers(rank, top)
           first == NextNo(QueueOfRest(top))
<1>1. rank \in Rankings[Active] /\ ties \in SUBSET (2..TopSeats)
  BY DEF Ended
<1>2. /\ DOMAIN power = top \cup Lucky(top)
      /\ top \subseteq Active /\ Lucky(top) \subseteq Active \ top
      /\ \A a \in Lucky(top) : info[a].lotteryNo # 0
      /\ \A a \in DOMAIN power : power[a] \in Nat \ {0}
  BY <1>1, PowersType
<1>3. /\ numbers \in [Newcomers(top) -> Nat \ {0}]
      /\ first \in Nat \ {0} /\ \A a \in Newcomers(top) : numbers[a] >= first
      /\ \A n \in DOMAIN QueueOfRest(top) : n < first
      /\ \A a, b \in Newcomers(top) : numbers[a] = numbers[b] => a = b
  BY <1>1, NumbersType
<1>4. \A n \in DOMAIN QueueOfRest(top) : n \in Nat
  BY RestType DEF QueueType
<1>. HIDE DEF top, power, numbers, first
<1>5. \A n \in DOMAIN QueueOfRest(top), a \in Newcomers(top) : n < numbers[a]
  BY <1>3, <1>4
<1>6. Round(top, power, numbers)
  BY <1>2, <1>3, <1>5 DEF Round
<1>. QED  BY <1>6 DEF top, power, numbers

(***************************************************************************)
(* The records when a block has ended.                                     *)
(***************************************************************************)
LEMMA GatheredValue ==
    ASSUME IInv, NEW top, NEW power, NEW numbers, Round(top, power, numbers),
           NEW a \in Accounts, Has(a)
    PROVE  LET r == info[a]
               s == Gathered(a, top, power, numbers)
           IN  /\ s \in Infos
               /\ s.status = r.status /\ s.jailed = r.jailed /\ s.banned = r.banned
               /\ s.pubKey = r.pubKey
               /\ a \in DOMAIN power => s.lastPower = power[a] /\ s.lastKey = r.pubKey
               /\ a \notin DOMAIN power => s.lastPower = 0 /\ s.lastKey = NoKey
               /\ s.lotteryNo = IF a \in top THEN 0
                                ELSE IF a \in Newcomers(top) THEN numbers[a]
                                ELSE r.lotteryNo
<1> DEFINE r == info[a]
           s == Gathered(a, top, power, numbers)
<1>1. r \in Infos /\ r # NoInfo /\ (r.lastPower = 0 <=> r.lastKey = NoKey)
  BY RecordType DEF KeysHeld, Has
<1>2. /\ r.pubKey \in Keys \cup {NoKey} /\ r.lotteryNo \in Nat
  BY <1>1 DEF Infos
<1>3. /\ a \in top => a \in DOMAIN power /\ a \notin Newcomers(top)
      /\ a \in Newcomers(top) => a \notin DOMAIN power
      /\ DOMAIN numbers = Newcomers(top)
      /\ a \in DOMAIN power => power[a] \in Nat
      /\ a \in DOMAIN numbers => numbers[a] \in Nat
  BY DEF Round, Newcomers
<1>. HIDE DEF r
<1>4. CASE a \in top
  <2>1. s = [r EXCEPT !.lastPower = power[a], !.lastKey = r.pubKey, !.lotteryNo = 0]
    BY <1>1, <1>3, <1>4 DEF Gathered, r
  <2>. HIDE DEF s
  <2>2. /\ s \in Infos /\ s.status = r.status /\ s.jailed = r.jailed
        /\ s.banned = r.banned /\ s.pubKey = r.pubKey
        /\ s.lastPower = power[a] /\ s.lastKey = r.pubKey /\ s.lotteryNo = 0
    BY <1>1, <1>2, <1>3, <2>1, <1>4 DEF Infos
  <2>. QED  BY <1>3, <1>4, <2>2 DEF r, s
<1>5. CASE a \in DOMAIN power /\ a \notin top
  <2>1. s = [r EXCEPT !.lastPower = power[a], !.lastKey = r.pubKey]
    BY <1>1, <1>3, <1>5 DEF Gathered, r
  <2>. HIDE DEF s
  <2>. QED  BY <1>1, <1>2, <1>3, <1>5, <2>1 DEF Infos, r, s
<1>6. CASE a \in Newcomers(top)
  <2>1. s = [r EXCEPT !.lastPower = 0, !.lastKey = NoKey, !.lotteryNo = numbers[a]]
    BY <1>1, <1>3, <1>6 DEF Gathered, r
  <2>. HIDE DEF s
  <2>2. /\ s \in Infos /\ s.status = r.status /\ s.jailed = r.jailed
        /\ s.banned = r.banned /\ s.pubKey = r.pubKey
        /\ s.lastPower = 0 /\ s.lastKey = NoKey /\ s.lotteryNo = numbers[a]
    BY <1>1, <1>2, <1>3, <2>1, <1>6 DEF Infos
  <2>. QED  BY <1>3, <1>6, <2>2 DEF r, s
<1>7. CASE a \notin DOMAIN power /\ a \notin Newcomers(top)
  <2>1. s = IF r.lastPower = 0 THEN r ELSE [r EXCEPT !.lastPower = 0, !.lastKey = NoKey]
    BY <1>1, <1>3, <1>7 DEF Gathered, r
  <2>. HIDE DEF s
  <2>2. CASE r.lastPower = 0
    <3>1. s = r
      BY <2>1, <2>2
    <3>. QED  BY <1>1, <1>3, <1>7, <2>2, <3>1 DEF r, s
  <2>3. CASE r.lastPower # 0
    <3>1. s = [r EXCEPT !.lastPower = 0, !.lastKey = NoKey]
      BY <2>1, <2>3
    <3>2. /\ s \in Infos /\ s.status = r.status /\ s.jailed = r.jailed
          /\ s.banned = r.banned /\ s.pubKey = r.pubKey
          /\ s.lastPower = 0 /\ s.lastKey = NoKey /\ s.lotteryNo = r.lotteryNo
      BY <1>1, <3>1 DEF Infos
    <3>. QED  BY <1>3, <1>7, <3>2 DEF r, s
  <2>. QED  BY <2>2, <2>3
<1>. QED  BY <1>4, <1>5, <1>6, <1>7

(***************************************************************************)
(* The queue when a block has ended.                                       *)
(***************************************************************************)
\* The queue q is the rest, and the accounts of S at their numbers.
IsPlaced(rest, S, numbers, q) ==
    /\ QueueType(q)
    /\ DOMAIN q = DOMAIN rest \cup {numbers[a] : a \in S}
    /\ \A n \in DOMAIN rest : q[n] = rest[n]
    /\ \A a \in S : q[numbers[a]] = a

LEMMA PlacedValue ==
    ASSUME NEW rest, QueueType(rest), NEW S \in SUBSET Accounts,
           NEW numbers \in [S -> Nat \ {0}],
           \A a, b \in S : numbers[a] = numbers[b] => a = b,
           \A n \in DOMAIN rest, a \in S : n < numbers[a]
    PROVE  IsPlaced(rest, S, numbers, Placed(rest, numbers))
<1> DEFINE q == Placed(rest, numbers)
           R == Range(numbers)
<1>1. R = {numbers[a] : a \in S}
  BY DEF Range
<1>2. DOMAIN q = DOMAIN rest \cup {numbers[a] : a \in S}
  BY <1>1 DEF Placed
<1>3. \A n \in DOMAIN rest : n \in Nat /\ n \notin R
  BY <1>1 DEF QueueType
<1>4. \A n \in DOMAIN rest : q[n] = rest[n]
  BY <1>3 DEF Placed
<1>5. ASSUME NEW a \in S PROVE q[numbers[a]] = a
  <2> DEFINE n == numbers[a]
  <2>1. n \in R
    BY <1>1
  <2>2. q[n] = AntiFunction(numbers)[n]
    BY <2>1 DEF Placed
  <2>3. AntiFunction(numbers)[n] = CHOOSE b \in S : n \in R => numbers[b] = n
    BY <2>1 DEF AntiFunction, Inverse
  <2>4. n \in R => numbers[a] = n
    OBVIOUS
  <2>. HIDE DEF n, R
  <2>5. \A b \in S : (n \in R => numbers[b] = n) => b = a
    BY <2>1 DEF n
  <2>6. (CHOOSE b \in S : n \in R => numbers[b] = n) = a
    BY <2>4, <2>5
  <2>. QED  BY <2>2, <2>3, <2>6 DEF n
<1>6. QueueType(q)
  <2>1. IsFiniteSet(S)
    BY NodingAssumption, FS_Subset
  <2>2. IsFiniteSet({numbers[a] : a \in S})
    <3> DEFINE T == {numbers[a] : a \in S}
    <3>1. numbers \in Surjection(S, T)
      BY DEF Surjection
    <3>. QED  BY <2>1, <3>1, FS_Surjection
  <2>3. IsFiniteSet(DOMAIN q)
    <3> DEFINE T == {numbers[a] : a \in S}
               D == DOMAIN rest
    <3>1. IsFiniteSet(T) /\ IsFiniteSet(D) /\ DOMAIN q = D \cup T
      BY <1>2, <2>2 DEF QueueType
    <3>. HIDE DEF T, D
    <3>2. IsFiniteSet(D \cup T)
      BY ONLY <3>1, FS_Union
    <3>. QED  BY <3>1, <3>2
  <2>4. DOMAIN q \subseteq Nat \ {0}
    BY <1>2 DEF QueueType
  <2>5. \A n \in DOMAIN q : q[n] \in Accounts
    BY <1>2, <1>4, <1>5 DEF QueueType
  <2>. QED  BY <2>3, <2>4, <2>5 DEF QueueType
<1>. QED  BY <1>2, <1>4, <1>5, <1>6 DEF IsPlaced, q

(***************************************************************************)
(* What CometBFT is told.                                                  *)
(***************************************************************************)
LEMMA UpdatesValue ==
    ASSUME IInv, NEW top, NEW power, NEW numbers, Round(top, power, numbers),
           NEW u \in Updates(power)
    PROVE  /\ u.by \in Accounts /\ Has(u.by) /\ u \in UpdatesFor(u.by, power)
           /\ u.power # 0 => /\ u.by \in DOMAIN power /\ u.power = power[u.by]
                             /\ u.key = info[u.by].pubKey
           /\ u.power = 0 => u.key = info[u.by].lastKey /\ u.key # NoKey
           /\ u.power \in Nat
<1>1. PICK a \in {x \in Accounts : Has(x)} : u \in UpdatesFor(a, power)
  BY DEF Updates
<1>2. a \in Accounts /\ Has(a)
  BY <1>1
<1>3. info[a].lastPower = 0 <=> info[a].lastKey = NoKey
  BY <1>2, RecordType DEF KeysHeld
<1>4. a \in DOMAIN power => power[a] \in Nat \ {0}
  BY DEF Round
<1>5. \/ u = Removal(a) /\ info[a].lastKey # NoKey
      \/ u = [by |-> a, key |-> info[a].pubKey, power |-> power[a]] /\ a \in DOMAIN power
  BY <1>1, <1>3 DEF UpdatesFor
<1>6. u.by = a
  BY <1>5 DEF Removal
<1>. QED  BY <1>1, <1>2, <1>4, <1>5, <1>6 DEF Removal

LEMMA UpdatedType ==
    ASSUME IInv, NEW top, NEW power, NEW numbers, Round(top, power, numbers)
    PROVE  LET next == Updated(nextVals, Updates(power))
           IN  /\ DOMAIN next \subseteq DOMAIN nextVals \cup {info[a].pubKey : a \in Active}
               /\ \A k \in DOMAIN next : next[k] \in Nat \ {0}
<1> DEFINE upd == Updates(power)
           next == Updated(nextVals, upd)
           removed == {u.key : u \in {w \in upd : w.power = 0}}
<1>1. \A u \in upd : /\ u.power \in Nat
                     /\ u.power # 0 => \E a \in Active : u.key = info[a].pubKey
  BY UpdatesValue DEF Round
<1>2. \A k \in DOMAIN nextVals : nextVals[k] \in Nat \ {0}
  BY DEF IInv, TypeOK
<1>. HIDE DEF upd
<1>3. /\ DOMAIN next = (DOMAIN nextVals \cup {u.key : u \in upd}) \ removed
      /\ \A k \in DOMAIN next : next[k] = IF \E u \in upd : u.key = k
                                          THEN (CHOOSE u \in upd : u.key = k).power
                                          ELSE nextVals[k]
  BY DEF Updated
<1>. HIDE DEF next
<1>4. \A k \in DOMAIN next : \A u \in upd : u.key = k => u.power # 0
  BY <1>3
<1>5. DOMAIN next \subseteq DOMAIN nextVals \cup {info[a].pubKey : a \in Active}
  BY <1>1, <1>3, <1>4
<1>6. ASSUME NEW k \in DOMAIN next PROVE next[k] \in Nat \ {0}
  <2>1. CASE \E u \in upd : u.key = k
    <3> DEFINE u == CHOOSE x \in upd : x.key = k
    <3>1. u \in upd /\ u.key = k
      BY <2>1
    <3>2. next[k] = u.power
      BY <1>3, <2>1
    <3>. HIDE DEF u
    <3>. QED  BY <1>1, <1>4, <3>1, <3>2
  <2>2. CASE ~ \E u \in upd : u.key = k
    BY <1>2, <1>3, <2>2
  <2>. QED  BY <2>1, <2>2
<1>. QED  BY <1>5, <1>6 DEF upd, next

(***************************************************************************)
(* The index of the keys.                                                  *)
(***************************************************************************)
LEMMA RefreshedValue ==
    ASSUME IInv
    PROVE  LET idx == Refreshed(operator)
           IN  /\ DOMAIN idx = DOMAIN operator \cup {info[a].pubKey : a \in Active}
               /\ \A k \in DOMAIN idx : \/ k \in DOMAIN operator /\ idx[k] = operator[k]
                                        \/ idx[k] \in Active
               /\ \A a \in Active : idx[info[a].pubKey] \in Active
               /\ {info[a].pubKey : a \in Active} \subseteq Keys
<1> DEFINE idx == Refreshed(operator)
           users(k) == {a \in Active : info[a].pubKey = k}
<1>1. /\ DOMAIN idx = DOMAIN operator \cup {info[a].pubKey : a \in Active}
      /\ \A k \in DOMAIN idx : idx[k] = IF users(k) = {} THEN operator[k] ELSE Max(users(k))
  BY DEF Refreshed
<1>2. ASSUME NEW k, users(k) # {} PROVE Max(users(k)) \in Active
  <2> DEFINE U == users(k)
  <2>1. U \subseteq Active
    OBVIOUS
  <2>2. IsFiniteSet(U) /\ U # {} /\ \A n \in U : n \in Int
    <3>1. Accounts \subseteq Nat
      BY NodingAssumption
    <3>. QED  BY <1>2, <2>1, <3>1, SeatFacts, FS_Subset
  <2>. HIDE DEF U
  <2>3. Max(U) \in U
    BY <2>2, MaxOfFinite
  <2>. QED  BY <2>1, <2>3 DEF U
<1>3. \A a \in Active : info[a].pubKey \in Keys
  <2>1. ASSUME NEW a \in Active PROVE info[a].pubKey \in Keys
    <3>1. a \in Accounts /\ Has(a) /\ info[a].status
      BY DEF Active, IsActive, Has
    <3>. QED  BY <3>1, RecordType, KnownKeys DEF KeysHeld
  <2>. QED  BY <2>1
<1>4. \A k : users(k) = {} => k \notin {info[a].pubKey : a \in Active}
  OBVIOUS
<1>. HIDE DEF idx, users
<1>5. \A k \in DOMAIN idx : \/ k \in DOMAIN operator /\ idx[k] = operator[k]
                            \/ idx[k] \in Active
  BY <1>1, <1>2, <1>4
<1>6. \A a \in Active : idx[info[a].pubKey] \in Active
  BY <1>1, <1>2, <1>4
<1>. QED  BY <1>1, <1>3, <1>5, <1>6 DEF idx

LEMMA EndedRecords ==
    ASSUME IInv, NEW top, NEW power, NEW numbers, Round(top, power, numbers),
           info' = [a \in Accounts |-> Gathered(a, top, power, numbers)]
    PROVE  /\ info' \in [Accounts -> Infos \cup {NoInfo}]
           /\ \A a \in Accounts : Has(a)' <=> Has(a)
           /\ KeysOK'
<1>1. \A a \in Accounts : info'[a] = Gathered(a, top, power, numbers)
  OBVIOUS
<1>2. \A a \in Accounts : ~Has(a) => info'[a] = NoInfo
  <2>1. \A a \in top \cup DOMAIN power \cup DOMAIN numbers : Has(a)
    BY DEF Round, Newcomers, Active, IsActive, Has
  <2>. QED  BY <1>1, <2>1 DEF Gathered, Has
<1>3. ASSUME NEW a \in Accounts, Has(a)
      PROVE  info'[a] \in Infos /\ KeysHeld(a, info'[a])
  <2> DEFINE s == Gathered(a, top, power, numbers)
  <2>1. /\ s \in Infos /\ s.status = info[a].status /\ s.pubKey = info[a].pubKey
        /\ a \in DOMAIN power => s.lastPower = power[a] /\ s.lastKey = info[a].pubKey
        /\ a \notin DOMAIN power => s.lastPower = 0 /\ s.lastKey = NoKey
    BY <1>3, GatheredValue
  <2>2. info'[a] = s
    BY <1>1
  <2>3. KeysHeld(a, info[a])
    BY <1>3, RecordType
  <2>4. a \in DOMAIN power => power[a] # 0 /\ info[a].status
    BY DEF Round, Active, IsActive
  <2>. HIDE DEF s
  <2>5. KeysHeld(a, s)
    BY <2>1, <2>3, <2>4 DEF KeysHeld
  <2>. QED  BY <2>1, <2>2, <2>5
<1>4. info' \in [Accounts -> Infos \cup {NoInfo}]
  <2>1. info' = [a \in Accounts |-> info'[a]]
    OBVIOUS
  <2>2. \A a \in Accounts : info'[a] \in Infos \cup {NoInfo}
    BY <1>2, <1>3
  <2>. QED  BY <2>1, <2>2
<1>5. \A a \in Accounts : info'[a] # NoInfo <=> Has(a)
  BY <1>2, <1>3, JailBounds
<1>. QED  BY <1>3, <1>4, <1>5 DEF KeysOK, Has

LEMMA EndBlockerKeeps ==
    ASSUME IInv, EndBlocker
    PROVE  IInv'
<1>1. PICK rank, ties : Ended(rank, ties)
  BY EndBlockerValue
<1> DEFINE top == Top(rank)
           power == Powers(rank, ties)
           numbers == Numbers(rank, top)
           next == Updated(nextVals, Updates(power))
<1>2. /\ toCount = {} \/ phase = "genesis"
      /\ phase' = "ended" /\ operator' = Refreshed(operator) /\ lastVals' = vals
      /\ height' = height /\ toCount' = toCount /\ meets' = meets /\ events' = events
      /\ banished' = banished
  BY EndBlockerValue
<1>3. Round(top, power, numbers)
  BY <1>1, EndedRound DEF IInv
<1>4. /\ info' = [a \in Accounts |-> Gathered(a, top, power, numbers)]
      /\ queue' = Placed(QueueOfRest(top), numbers)
      /\ halted' = Verdict(Updates(power), DOMAIN next)
      /\ nextVals' = next
      /\ vals' = DOMAIN (IF phase = "genesis" THEN next ELSE nextVals)
  BY <1>1 DEF Ended
<1>. HIDE DEF top, power, numbers
<1>5. /\ info' \in [Accounts -> Infos \cup {NoInfo}]
      /\ \A a \in Accounts : Has(a)' <=> Has(a)
      /\ KeysOK'
  BY <1>3, <1>4, EndedRecords
<1>6. QueueType(queue)'
  <2>1. QueueType(QueueOfRest(top))
    BY RestType DEF IInv
  <2>2. Newcomers(top) \in SUBSET Accounts
    BY DEF Newcomers, Active
  <2>3. QueueType(Placed(QueueOfRest(top), numbers))
    BY <1>3, <2>1, <2>2, PlacedValue DEF Round, IsPlaced
  <2>. QED  BY <1>4, <2>3 DEF QueueType
<1>7. /\ DOMAIN next \subseteq DOMAIN nextVals \cup {info[a].pubKey : a \in Active}
      /\ \A k \in DOMAIN next : next[k] \in Nat \ {0}
  BY <1>3, UpdatedType
<1>8. /\ DOMAIN operator' = DOMAIN operator \cup {info[a].pubKey : a \in Active}
      /\ \A k \in DOMAIN operator' : \/ k \in DOMAIN operator /\ operator'[k] = operator[k]
                                     \/ operator'[k] \in Active
      /\ \A a \in Active : operator'[info[a].pubKey] \in Active
      /\ {info[a].pubKey : a \in Active} \subseteq Keys
  BY <1>2, RefreshedValue
<1>9. \A a \in Active : a \in Accounts /\ Has(a)
  BY DEF Active, IsActive, Has
<1>. HIDE DEF next
<1>10. ASSUME NEW k, Found(k) \/ k \in {info[a].pubKey : a \in Active}
       PROVE  Found(k)'
  <2>1. k \in DOMAIN operator'
    BY <1>8, <1>10 DEF Found
  <2>2. operator'[k] \in Accounts /\ info'[operator'[k]] # NoInfo
    <3>1. \/ Found(k) /\ operator'[k] = operator[k]
          \/ operator'[k] \in Active
      BY <1>8, <1>10, <2>1
    <3>. QED  BY <1>5, <1>9, <3>1, FoundType DEF Has
  <2>. QED  BY <2>1, <2>2 DEF Found, Has
<1>11. \A k \in DOMAIN nextVals \cup lastVals \cup vals \cup DOMAIN next : Found(k)'
  BY <1>7, <1>10 DEF IInv, SignersKnown
<1>12. SignersKnown'
  BY <1>2, <1>4, <1>11 DEF SignersKnown
<1>13. CountOK'
  BY <1>2 DEF IInv, CountOK
<1>14. TypeOK'
  <2>1. DOMAIN operator' \subseteq Keys /\ \A k \in DOMAIN operator' : operator'[k] \in Accounts
    BY <1>8, <1>9 DEF IInv, TypeOK
  <2>2. DOMAIN nextVals \subseteq Keys /\ DOMAIN next \subseteq Keys
    BY <1>7, <1>8 DEF IInv, TypeOK
  <2>3. lastVals' \subseteq Keys /\ vals' \subseteq Keys /\ DOMAIN nextVals' \subseteq Keys
        /\ \A k \in DOMAIN nextVals' : nextVals'[k] \in Nat \ {0}
    BY <1>2, <1>4, <1>7, <2>2 DEF IInv, TypeOK
  <2>4. halted' \in {"no", "duplicate", "unknown", "empty", "import"}
    BY <1>4 DEF Verdict
  <2>5. DOMAIN queue' \subseteq Nat \ {0} /\ \A n \in DOMAIN queue' : queue'[n] \in Accounts
    BY <1>6 DEF QueueType
  <2>. QED  BY <1>2, <1>5, <2>1, <2>3, <2>4, <2>5 DEF IInv, TypeOK
<1>. QED  BY <1>5, <1>6, <1>12, <1>13, <1>14 DEF IInv

-----------------------------------------------------------------------------
(* The theorems that hold for all constants.                               *)

LEMMA Inductive == IInv /\ [Next]_vars => IInv'
<1>. SUFFICES ASSUME IInv, [Next]_vars PROVE IInv'
  OBVIOUS
<1>1. CASE \E k \in vals, absent \in SUBSET lastVals : BeginBlocker(k, absent)
  BY <1>1, BeginBlockerKeeps
<1>2. CASE \E k \in Keys : CountAbsence(k)
  BY <1>2, CountAbsenceKeeps
<1>3. CASE \E k \in Keys, penalised \in BOOLEAN : Punish(k, penalised)
  BY <1>3, PunishKeeps
<1>4. CASE \E a \in Accounts : \E k \in KeysOf[a] : SwitchOn(a, k)
  BY <1>4, SwitchOnKeeps
<1>5. CASE \E a \in Accounts : SwitchOff(a) \/ Unjail(a)
  BY <1>5, SwitchOffKeeps, UnjailKeeps
<1>6. CASE \E a \in Staff : AddToStaff(a) \/ RemoveFromStaff(a)
  <2>1. Staff \subseteq Accounts
    BY NodingAssumption
  <2>. QED  BY <1>6, <2>1, AddToStaffKeeps, RemoveFromStaffKeeps
<1>7. CASE \E a \in Accounts, cause \in Causes : Requalify(a, cause)
  BY <1>7, RequalifyKeeps
<1>8. CASE EndBlocker
  BY <1>8, EndBlockerKeeps
<1>9. CASE Restart
  BY <1>9, RestartKeeps
<1>10. CASE UNCHANGED vars
  BY <1>10 DEF vars, store, comet, IInv, TypeOK, QueueType, CountOK, SignersKnown,
              KeysOK, Found, Has
<1>. QED  BY <1>1, <1>2, <1>3, <1>4, <1>5, <1>6, <1>7, <1>8, <1>9, <1>10 DEF Next

LEMMA Invariance == Spec => []IInv
BY InitInvariant, Inductive, PTL DEF Spec

(***************************************************************************)
(* The state of x/noding and of CometBFT's sets stays well formed: in      *)
(* particular no power sent is zero or belongs to no key, and a record     *)
(* never counts more missed blocks than the parameter allows.              *)
(***************************************************************************)
THEOREM NodingTypeCorrect == Spec => []TypeOK
<1>1. IInv => TypeOK
  BY DEF IInv
<1>. QED  BY <1>1, Invariance, PTL

(***************************************************************************)
(* Whoever may still vote, propose or be accused has a record that is      *)
(* found by the key CometBFT knows, through key changes, restarts and      *)
(* whatever becomes of the qualification: markStrokesAndTicks never stops  *)
(* half way and punishWrongdoers never misses its man.                     *)
(***************************************************************************)
THEOREM SignersAlwaysKnown == Spec => []SignersKnown
<1>1. IInv => SignersKnown
  BY DEF IInv
<1>. QED  BY <1>1, Invariance, PTL

-----------------------------------------------------------------------------
(* The queue matches the records, unless a change of somebody's stake takes *)
(* a validator out of the queue and leaves its record as it is.             *)

NoStakeHook == "stake" \notin Causes

LEMMA StoreQueued ==
    ASSUME IInv, Queued(info, queue), NEW a \in Accounts, Has(a), NEW s,
           GoodStep(info[a], queue, a, s), Store(a, s)
    PROVE  Queued(info', queue') /\ NoJump(queue, queue')
<1> DEFINE r == info[a]
<1>1. /\ Alike(r, s.info) /\ Moved(r, queue, a, s.info, s.queue)
      /\ (r.lotteryNo # 0 => IsActive(r)) => (s.info.lotteryNo # 0 => IsActive(s.info))
      /\ info' = [info EXCEPT ![a] = s.info] /\ queue' = s.queue
  BY DEF GoodStep, Store
<1>2. info \in [Accounts -> Infos \cup {NoInfo}] /\ info[a] # NoInfo /\ QueueType(queue)
  BY DEF IInv, TypeOK, Has
<1>3. s.info \in Infos
  BY <1>1 DEF Alike
<1>4. r.lotteryNo # 0 => IsActive(r)
  BY <1>2 DEF Queued
<1>5. s.info.lotteryNo # 0 => IsActive(s.info)
  BY <1>1, <1>4
<1>. DEFINE t == s.info
            p == s.queue
<1>. HIDE DEF t, p
<1>6. Queued([info EXCEPT ![a] = t], p)
  BY <1>1, <1>2, <1>3, <1>5, MovedQueued DEF t, p
<1>7. NoJump(queue, p)
  BY <1>1, <1>2, MovedNoJump DEF p, t
<1>. QED  BY <1>1, <1>6, <1>7 DEF t, p

\* Records that keep their numbers and whoever is active.
LEMMA SameQueued ==
    ASSUME NEW f, NEW g, NEW q, Queued(f, q),
           \A a \in Accounts : f[a] # NoInfo =>
             /\ g[a] # NoInfo /\ g[a].lotteryNo = f[a].lotteryNo
             /\ IsActive(f[a]) => IsActive(g[a]),
           \A a \in Accounts : f[a] = NoInfo => g[a] = NoInfo \/ g[a].lotteryNo = 0
    PROVE  Queued(g, q)
<1>1. QueueType(q) /\ \A n \in DOMAIN q : q[n] \in Accounts
  BY DEF Queued, QueueType
<1>2. \A n \in DOMAIN q : g[q[n]] # NoInfo /\ g[q[n]].lotteryNo = n
  BY <1>1 DEF Queued
<1>3. ASSUME NEW a \in Accounts, g[a] # NoInfo, g[a].lotteryNo # 0
      PROVE  g[a].lotteryNo \in DOMAIN q /\ q[g[a].lotteryNo] = a /\ IsActive(g[a])
  <2>1. f[a] # NoInfo /\ g[a].lotteryNo = f[a].lotteryNo /\ (IsActive(f[a]) => IsActive(g[a]))
    BY <1>3
  <2>. QED  BY <1>3, <2>1 DEF Queued
<1>. QED  BY <1>1, <1>2, <1>3 DEF Queued

LEMMA BeginBlockerQueued ==
    ASSUME IInv, Queued(info, queue), NEW k \in vals, NEW absent \in SUBSET lastVals,
           BeginBlocker(k, absent)
    PROVE  Queued(info', queue') /\ NoJump(queue, queue')
<1> DEFINE a == operator[k]
           paid == Downshift(info[a], queue, a)
           f == [info EXCEPT ![a] = paid.info]
<1>1. /\ a \in Accounts /\ Has(a)
      /\ queue' = paid.queue
      /\ \E T \in SUBSET {b \in Accounts : Has(b)} :
           info' = [x \in Accounts |-> IF x \in T THEN MarkTick(f[x]) ELSE f[x]]
  BY BeginBlockerValue
<1>2. PICK T \in SUBSET {b \in Accounts : Has(b)} :
        info' = [x \in Accounts |-> IF x \in T THEN MarkTick(f[x]) ELSE f[x]]
  BY <1>1
<1>. HIDE DEF a
<1>3. info[a] \in Infos /\ info \in [Accounts -> Infos \cup {NoInfo}] /\ QueueType(queue)
      /\ info[a] # NoInfo
  BY <1>1, RecordType DEF IInv, TypeOK, Has
<1>4. GoodStep(info[a], queue, a, paid)
  <2>1. Alike(info[a], info[a])
    BY <1>3 DEF Alike
  <2>. QED  BY <1>1, <1>3, <2>1, DownshiftStep
<1>. HIDE DEF paid
<1>5. /\ Alike(info[a], paid.info) /\ Moved(info[a], queue, a, paid.info, paid.queue)
      /\ (info[a].lotteryNo # 0 => IsActive(info[a])) =>
           (paid.info.lotteryNo # 0 => IsActive(paid.info))
  BY <1>4 DEF GoodStep
<1>6. paid.info.lotteryNo # 0 => IsActive(paid.info)
  BY <1>1, <1>3, <1>5 DEF Queued
<1>7. paid.info \in Infos
  BY <1>5 DEF Alike
<1>8. Queued(f, paid.queue) /\ NoJump(queue, paid.queue)
  <2> DEFINE t == paid.info
             p == paid.queue
  <2>. HIDE DEF t, p
  <2>1. Queued([info EXCEPT ![a] = t], p) /\ NoJump(queue, p)
    BY <1>1, <1>3, <1>5, <1>6, <1>7, MovedQueued, MovedNoJump DEF t, p
  <2>. QED  BY <2>1 DEF t, p
<1>9. \A x \in Accounts : f[x] # NoInfo => f[x] \in Infos
  BY <1>3, <1>7
<1>10. \A b \in T : b \in Accounts /\ f[b] # NoInfo
  <2>1. \A b \in T : b \in Accounts /\ info[b] # NoInfo
    BY DEF Has
  <2>. QED  BY <1>3, <1>7, <2>1, JailBounds
<1>. HIDE DEF f
<1>11. ASSUME NEW x \in Accounts, f[x] # NoInfo
       PROVE  /\ info'[x] # NoInfo /\ info'[x].lotteryNo = f[x].lotteryNo
              /\ IsActive(f[x]) => IsActive(info'[x])
  <2>1. f[x] \in Infos
    BY <1>9, <1>11
  <2>2. CASE x \in T
    <3>1. /\ MarkTick(f[x]) \in Infos /\ MarkTick(f[x]).lotteryNo = f[x].lotteryNo
          /\ MarkTick(f[x]).status = f[x].status /\ MarkTick(f[x]).jailed = f[x].jailed
          /\ MarkTick(f[x]).banned = f[x].banned
      BY <2>1, JailBounds DEF MarkTick, Infos
    <3>2. info'[x] = MarkTick(f[x]) /\ info'[x] # NoInfo
      BY <1>2, <2>2, <3>1, JailBounds
    <3>. QED  BY <3>1, <3>2 DEF IsActive
  <2>3. CASE x \notin T
    BY <1>2, <1>11, <2>3
  <2>. QED  BY <2>2, <2>3
<1>12. \A x \in Accounts : f[x] = NoInfo => info'[x] = NoInfo
  BY <1>2, <1>10
<1>13. Queued(info', paid.queue)
  BY <1>8, <1>11, <1>12, SameQueued
<1>. QED  BY <1>1, <1>8, <1>13

\* Nothing happens to the queue in these.
LEMMA SwitchOnQueued ==
    ASSUME IInv, Queued(info, queue), NEW a \in Accounts, NEW k \in KeysOf[a], SwitchOn(a, k)
    PROVE  Queued(info', queue') /\ queue' = queue
<1> DEFINE s == IF Has(a) THEN [info[a] EXCEPT !.status = TRUE, !.pubKey = k] ELSE NewInfo(k)
<1>1. info \in [Accounts -> Infos \cup {NoInfo}] /\ queue' = queue
  BY DEF IInv, TypeOK, SwitchOn
<1>2. info' = [info EXCEPT ![a] = s] /\ (Has(a) => ~info[a].status)
  BY <1>1 DEF SwitchOn, MaySwitchOn
<1>3. Has(a) => info[a] \in Infos
  BY RecordType
<1>4. /\ s # NoInfo
      /\ Has(a) => s.lotteryNo = info[a].lotteryNo
      /\ ~Has(a) => s.lotteryNo = 0
  <2>1. CASE Has(a)
    <3>1. k \in Keys
      BY KnownKeys
    <3>2. s = [info[a] EXCEPT !.status = TRUE, !.pubKey = k]
      BY <2>1
    <3>3. s \in Infos /\ s.lotteryNo = info[a].lotteryNo
      BY <1>3, <2>1, <3>1, <3>2 DEF Infos
    <3>. QED  BY <2>1, <3>3, JailBounds
  <2>2. CASE ~Has(a)
    <3>1. s = NewInfo(k) /\ NewInfo(k) # NoInfo
      BY <2>2, NewInfoHeld, JailBounds
    <3>. QED  BY <2>2, <3>1 DEF NewInfo
  <2>. QED  BY <2>1, <2>2
<1>. HIDE DEF s
<1>5. ASSUME NEW b \in Accounts, info[b] # NoInfo
      PROVE  /\ info'[b] # NoInfo /\ info'[b].lotteryNo = info[b].lotteryNo
             /\ IsActive(info[b]) => IsActive(info'[b])
  <2>1. CASE b = a
    <3>1. info'[b] = s /\ Has(a) /\ ~IsActive(info[b])
      BY <1>1, <1>2, <1>5, <2>1 DEF Has, IsActive
    <3>. QED  BY <1>4, <2>1, <3>1
  <2>2. CASE b # a
    BY <1>1, <1>2, <1>5, <2>2
  <2>. QED  BY <2>1, <2>2
<1>6. \A b \in Accounts : info[b] = NoInfo => info'[b] = NoInfo \/ info'[b].lotteryNo = 0
  BY <1>1, <1>2, <1>4 DEF Has
<1>7. Queued(info', queue)
  BY <1>5, <1>6, SameQueued
<1>. QED  BY <1>1, <1>7

LEMMA UnjailQueued ==
    ASSUME IInv, Queued(info, queue), NEW a \in Accounts, Unjail(a)
    PROVE  Queued(info', queue') /\ queue' = queue
<1> DEFINE s == [info[a] EXCEPT !.jailed = FALSE, !.status = @ /\ IsQualified(a, meets)]
<1>1. info \in [Accounts -> Infos \cup {NoInfo}] /\ queue' = queue
  BY DEF IInv, TypeOK, Unjail
<1>2. /\ Has(a) /\ Alike(info[a], s) /\ s.lotteryNo = info[a].lotteryNo
      /\ info[a].jailed /\ info' = [info EXCEPT ![a] = s]
  BY UnjailValue
<1>. HIDE DEF s
<1>3. s # NoInfo
  BY <1>2, JailBounds DEF Alike
<1>4. /\ \A b \in Accounts : info[b] # NoInfo =>
           /\ info'[b] # NoInfo /\ info'[b].lotteryNo = info[b].lotteryNo
           /\ IsActive(info[b]) => IsActive(info'[b])
      /\ \A b \in Accounts : info[b] = NoInfo => info'[b] = NoInfo
  BY <1>1, <1>2, <1>3 DEF IsActive, Has
<1>5. Queued(info', queue)
  BY <1>4, SameQueued
<1>. QED  BY <1>1, <1>5

LEMMA AddToStaffQueued ==
    ASSUME IInv, Queued(info, queue), NEW a \in Accounts, AddToStaff(a)
    PROVE  Queued(info', queue') /\ queue' = queue
<1>1. info \in [Accounts -> Infos \cup {NoInfo}] /\ queue' = queue
  BY DEF IInv, TypeOK, AddToStaff
<1>2. PICK s \in Infos :
             /\ info' = [info EXCEPT ![a] = s] /\ KeysHeld(a, s)
             /\ Has(a) => /\ Alike(info[a], s) /\ s.lotteryNo = info[a].lotteryNo
                          /\ IsActive(info[a]) => IsActive(s)
             /\ ~Has(a) => s.lotteryNo = 0 /\ ~s.status
  BY AddToStaffValue
<1>3. s # NoInfo
  BY JailBounds
<1>4. \A b \in Accounts : info[b] # NoInfo =>
        /\ info'[b] # NoInfo /\ info'[b].lotteryNo = info[b].lotteryNo
        /\ IsActive(info[b]) => IsActive(info'[b])
  BY <1>1, <1>2, <1>3 DEF Has
<1>5. \A b \in Accounts : info[b] = NoInfo => info'[b] = NoInfo \/ info'[b].lotteryNo = 0
  BY <1>1, <1>2 DEF Has
<1>6. Queued(info', queue)
  BY <1>4, <1>5, SameQueued
<1>. QED  BY <1>1, <1>6

LEMMA EndBlockerQueued ==
    ASSUME IInv, Queued(info, queue), EndBlocker
    PROVE  Queued(info', queue') /\ NoJump(queue, queue')
<1>1. PICK rank, ties : Ended(rank, ties)
  BY EndBlockerValue
<1> DEFINE top == Top(rank)
           power == Powers(rank, ties)
           numbers == Numbers(rank, top)
           rest == QueueOfRest(top)
           new == Newcomers(top)
<1>2. Round(top, power, numbers)
  BY <1>1, EndedRound DEF IInv
<1>3. /\ info' = [a \in Accounts |-> Gathered(a, top, power, numbers)]
      /\ queue' = Placed(rest, numbers)
  BY <1>1 DEF Ended
<1>. HIDE DEF top, power, numbers
<1>4. /\ QueueType(rest)
      /\ DOMAIN rest = DOMAIN queue \ {info[a].lotteryNo : a \in top}
      /\ \A n \in DOMAIN rest : rest[n] = queue[n]
  BY RestType DEF IInv
<1>5. /\ new \subseteq Active \ top /\ \A a \in new : info[a].lotteryNo = 0
      /\ \A a \in Active : a \notin top /\ info[a].lotteryNo = 0 => a \in new
      /\ \A a \in Active : a \in Accounts /\ Has(a)
      /\ top \subseteq Active
  BY <1>2 DEF Newcomers, Active, IsActive, Has, Round
<1>6. /\ numbers \in [new -> Nat \ {0}]
      /\ \A n \in DOMAIN rest, a \in new : n < numbers[a]
  BY <1>2 DEF Round
<1>7. /\ QueueType(queue')
      /\ DOMAIN queue' = DOMAIN rest \cup {numbers[a] : a \in new}
      /\ \A n \in DOMAIN rest : queue'[n] = queue[n]
      /\ \A a \in new : queue'[numbers[a]] = a
  <2>1. new \in SUBSET Accounts
    BY <1>5
  <2>2. \A a, b \in new : numbers[a] = numbers[b] => a = b
    BY <1>2 DEF Round
  <2>. HIDE DEF rest, new
  <2> DEFINE q == Placed(rest, numbers)
  <2>3. IsPlaced(rest, new, numbers, q)
    BY <1>4, <1>6, <2>1, <2>2, PlacedValue
  <2>4. queue' = q
    BY <1>3
  <2>. HIDE DEF q
  <2>. QED  BY <1>4, <2>3, <2>4 DEF IsPlaced
<1>8. ASSUME NEW a \in Accounts, Has(a)
      PROVE  /\ info'[a] # NoInfo
             /\ info'[a].lotteryNo = IF a \in top THEN 0
                                     ELSE IF a \in new THEN numbers[a]
                                     ELSE info[a].lotteryNo
             /\ IsActive(info[a]) => IsActive(info'[a])
  <2> DEFINE s == Gathered(a, top, power, numbers)
  <2>1. /\ s \in Infos
        /\ s.status = info[a].status /\ s.jailed = info[a].jailed /\ s.banned = info[a].banned
        /\ s.lotteryNo = IF a \in top THEN 0
                         ELSE IF a \in new THEN numbers[a]
                         ELSE info[a].lotteryNo
    BY <1>2, <1>8, GatheredValue
  <2>2. info'[a] = s
    BY <1>3
  <2>. HIDE DEF s
  <2>. QED  BY <2>1, <2>2, JailBounds DEF IsActive
<1>9. \A a \in Accounts : ~Has(a) => info'[a] = NoInfo
  <2>1. info' \in [Accounts -> Infos \cup {NoInfo}] /\ \A a \in Accounts : Has(a)' <=> Has(a)
    BY <1>2, <1>3, EndedRecords
  <2>. QED  BY <2>1 DEF Has
<1>10. /\ \A n \in DOMAIN queue : /\ queue[n] \in Accounts /\ Has(queue[n])
                                  /\ info[queue[n]].lotteryNo = n /\ n \in Nat \ {0}
       /\ \A a \in Accounts : Has(a) /\ info[a].lotteryNo # 0 =>
            /\ info[a].lotteryNo \in DOMAIN queue /\ queue[info[a].lotteryNo] = a
            /\ IsActive(info[a])
  BY DEF Queued, QueueType, Has
<1>. HIDE DEF rest, new
<1>11. ASSUME NEW n \in DOMAIN queue'
       PROVE  info'[queue'[n]] # NoInfo /\ info'[queue'[n]].lotteryNo = n
  <2>1. CASE n \in DOMAIN rest
    <3> DEFINE b == queue[n]
    <3>1. /\ n \in DOMAIN queue /\ queue'[n] = b
          /\ b \in Accounts /\ Has(b) /\ info[b].lotteryNo = n /\ n # 0
      BY <1>4, <1>7, <1>10, <2>1
    <3>2. b \notin top
      BY <1>4, <2>1, <3>1
    <3>3. b \notin new
      BY <1>5, <3>1
    <3>. HIDE DEF b
    <3>. QED  BY <1>8, <3>1, <3>2, <3>3
  <2>2. CASE n \notin DOMAIN rest
    <3>1. PICK a \in new : n = numbers[a]
      BY <1>7, <2>2
    <3>2. queue'[n] = a /\ a \in Accounts /\ Has(a) /\ a \notin top
      BY <1>5, <1>7, <3>1
    <3>. QED  BY <1>8, <3>1, <3>2
  <2>. QED  BY <2>1, <2>2
<1>12. ASSUME NEW a \in Accounts, info'[a] # NoInfo, info'[a].lotteryNo # 0
       PROVE  /\ info'[a].lotteryNo \in DOMAIN queue' /\ queue'[info'[a].lotteryNo] = a
              /\ IsActive(info'[a])
  <2>1. Has(a) /\ a \notin top
    BY <1>8, <1>9, <1>12
  <2>2. CASE a \in new
    <3>1. info'[a].lotteryNo = numbers[a]
      BY <1>8, <2>1, <2>2
    <3>2. IsActive(info[a])
      BY <1>5, <2>2 DEF Active
    <3>. QED  BY <1>7, <1>8, <2>1, <2>2, <3>1, <3>2
  <2>3. CASE a \notin new
    <3> DEFINE n == info[a].lotteryNo
    <3>1. info'[a].lotteryNo = n /\ n # 0
      BY <1>8, <1>12, <2>1, <2>3
    <3>2. n \in DOMAIN queue /\ queue[n] = a /\ IsActive(info[a])
      BY <1>10, <2>1, <3>1
    <3>3. ASSUME NEW b \in top, info[b].lotteryNo = n PROVE FALSE
      <4>1. b \in Accounts /\ Has(b)
        BY <1>5
      <4>2. queue[n] = b
        BY <1>10, <3>1, <3>3, <4>1
      <4>. QED  BY <2>1, <3>2, <4>2
    <3>4. n \in DOMAIN rest
      BY <1>4, <3>2, <3>3
    <3>. HIDE DEF n
    <3>. QED  BY <1>7, <1>8, <2>1, <3>1, <3>2, <3>4
  <2>. QED  BY <2>2, <2>3
<1>13. NoJump(queue, queue')
  <2>1. ASSUME NEW m \in DOMAIN queue, NEW n \in DOMAIN queue',
               m \in DOMAIN queue', queue'[m] = queue[m], n < m
        PROVE  \E k \in DOMAIN queue : queue[k] = queue'[n] /\ k < m
    <3>1. m \in DOMAIN rest
      <4>1. ASSUME NEW b \in new, m = numbers[b] PROVE FALSE
        <5>1. queue[m] = b /\ info[b].lotteryNo = 0
          BY <1>5, <1>7, <2>1, <4>1
        <5>. QED  BY <1>10, <5>1
      <4>. QED  BY <1>7, <2>1, <4>1
    <3>2. n \in DOMAIN rest
      <4>1. ASSUME NEW c \in new, n = numbers[c] PROVE FALSE
        <5>1. m < n /\ m \in Nat /\ n \in Nat
          BY <1>6, <1>10, <3>1, <4>1
        <5>. QED  BY <2>1, <5>1
      <4>. QED  BY <1>7, <4>1
    <3>3. n \in DOMAIN queue /\ queue'[n] = queue[n]
      BY <1>4, <1>7, <3>2
    <3>. QED  BY <2>1, <3>3
  <2>. QED  BY <2>1 DEF NoJump
<1>. QED  BY <1>7, <1>11, <1>12, <1>13 DEF Queued

LEMMA EmptyQueued ==
    ASSUME NEW f, NEW q, DOMAIN q = {},
           \A a \in Accounts : f[a] # NoInfo => f[a].lotteryNo = 0
    PROVE  Queued(f, q)
<1>1. QueueType(q)
  BY FS_EmptySet DEF QueueType
<1>. QED  BY <1>1 DEF Queued

LEMMA InitQueued == Init => Queued(info, queue)
<1>. SUFFICES ASSUME Init PROVE Queued(info, queue)
  OBVIOUS
<1>1. PICK g \in Genesis :
        info = [a \in Accounts |-> IF a \in DOMAIN g THEN NewInfo(g[a]) ELSE NoInfo]
  BY DEF Init
<1>2. DOMAIN queue = {}
  BY DEF Init
<1>3. \A a \in Accounts : info[a] # NoInfo => info[a].lotteryNo = 0
  BY <1>1 DEF NewInfo
<1>. QED  BY <1>2, <1>3, EmptyQueued

LEMMA SameNoJump == ASSUME NEW q PROVE NoJump(q, q)
BY DEF NoJump

LEMMA QueuedKept ==
    ASSUME NoStakeHook, IInv, Queued(info, queue), [Next]_vars
    PROVE  Queued(info', queue') /\ NoJump(queue, queue')
<1>1. CASE \E k \in vals, absent \in SUBSET lastVals : BeginBlocker(k, absent)
  BY <1>1, BeginBlockerQueued
<1>2. ASSUME NEW k \in Keys, CountAbsence(k)
      PROVE  Queued(info', queue') /\ NoJump(queue, queue')
  <2> DEFINE a == operator[k]
             s == MarkStroke(info[a], queue, a)
  <2>1. a \in Accounts /\ Has(a) /\ GoodStep(info[a], queue, a, s) /\ Store(a, s)
    BY <1>2, CountAbsenceStore
  <2>. HIDE DEF a, s
  <2>. QED  BY <2>1, StoreQueued
<1>3. ASSUME NEW k \in Keys, NEW penalised \in BOOLEAN, Punish(k, penalised)
      PROVE  Queued(info', queue') /\ NoJump(queue, queue')
  <2> DEFINE a == operator[k]
             s == MarkByzantine(info[a], queue, a)
  <2>1. ~penalised
    BY <1>3 DEF Punish, NoStakeHook
  <2>2. a \in Accounts /\ Has(a) /\ GoodStep(info[a], queue, a, s) /\ Store(a, s)
    BY <1>3, <2>1, PunishStore
  <2>. HIDE DEF a, s
  <2>. QED  BY <2>2, StoreQueued
<1>4. ASSUME NEW a \in Accounts, NEW k \in KeysOf[a], SwitchOn(a, k)
      PROVE  Queued(info', queue') /\ NoJump(queue, queue')
  BY <1>4, SwitchOnQueued, SameNoJump
<1>5. ASSUME NEW a \in Accounts, SwitchOff(a)
      PROVE  Queued(info', queue') /\ NoJump(queue, queue')
  <2> DEFINE s == SwitchedOff(info[a], queue, a)
  <2>1. Has(a) /\ GoodStep(info[a], queue, a, s) /\ Store(a, s)
    BY <1>5, SwitchOffStore
  <2>. HIDE DEF s
  <2>. QED  BY <2>1, StoreQueued
<1>6. ASSUME NEW a \in Accounts, Unjail(a)
      PROVE  Queued(info', queue') /\ NoJump(queue, queue')
  BY <1>6, UnjailQueued, SameNoJump
<1>7. ASSUME NEW a \in Accounts, AddToStaff(a)
      PROVE  Queued(info', queue') /\ NoJump(queue, queue')
  BY <1>7, AddToStaffQueued, SameNoJump
<1>8. ASSUME NEW a \in Accounts, RemoveFromStaff(a)
      PROVE  Queued(info', queue') /\ NoJump(queue, queue')
  <2> DEFINE r == [info[a] EXCEPT !.staff = FALSE]
             s == OnStatusUpdate(r, queue, a, meets)
  <2>1. Has(a) /\ GoodStep(info[a], queue, a, s) /\ Store(a, s)
    BY <1>8, RemoveFromStaffStore
  <2>. HIDE DEF s
  <2>. QED  BY <2>1, StoreQueued
<1>9. ASSUME NEW a \in Accounts, NEW cause \in Causes, Requalify(a, cause)
      PROVE  Queued(info', queue') /\ NoJump(queue, queue')
  <2>1. cause # "stake"
    BY DEF NoStakeHook
  <2>2. CASE info' = info /\ queue' = queue
    BY <2>2, SameNoJump
  <2>3. CASE \E m : LET s == OnStatusUpdate(info[a], queue, a, m)
                    IN  Has(a) /\ GoodStep(info[a], queue, a, s) /\ Store(a, s)
    <3>1. PICK m : LET s == OnStatusUpdate(info[a], queue, a, m)
                   IN  Has(a) /\ GoodStep(info[a], queue, a, s) /\ Store(a, s)
      BY <2>3
    <3> DEFINE s == OnStatusUpdate(info[a], queue, a, m)
    <3>2. Has(a) /\ GoodStep(info[a], queue, a, s) /\ Store(a, s)
      BY <3>1
    <3>. HIDE DEF s
    <3>. QED  BY <3>2, StoreQueued
  <2>. QED  BY <1>9, <2>1, <2>2, <2>3, RequalifyStore
<1>10. CASE EndBlocker
  BY <1>10, EndBlockerQueued
<1>11. CASE Restart
  <2>1. DOMAIN queue' = {}
    BY <1>11 DEF Restart
  <2>2. \A a \in Accounts : info'[a] # NoInfo => info'[a].lotteryNo = 0
    BY <1>11, RestartValue
  <2>3. NoJump(queue, queue')
    BY <2>1 DEF NoJump
  <2>. QED  BY <2>1, <2>2, <2>3, EmptyQueued
<1>12. CASE UNCHANGED vars
  <2>1. info' = info /\ queue' = queue
    BY <1>12 DEF vars, store
  <2>. QED  BY <2>1, SameNoJump
<1>13. Staff \subseteq Accounts
  BY NodingAssumption
<1>. QED
  BY <1>1, <1>2, <1>3, <1>4, <1>5, <1>6, <1>7, <1>8, <1>9, <1>10, <1>11, <1>12, <1>13 DEF Next

QueueInv == IInv /\ Queued(info, queue)

LEMMA QueueInvariance == ASSUME NoStakeHook PROVE Spec => []QueueInv
<1>1. Init => QueueInv
  BY InitInvariant, InitQueued DEF QueueInv
<1>2. QueueInv /\ [Next]_vars => QueueInv'
  BY Inductive, QueuedKept DEF QueueInv
<1>. QED  BY <1>1, <1>2, PTL DEF Spec

(***************************************************************************)
(* Unless a stake changes, the queue and the numbers in the records are    *)
(* each other's inverse whatever strokes, infractions, key changes and     *)
(* losses of the qualification come in between.  The hypothesis is there   *)
(* because OnStakeChanged takes a validator out of the queue and forgets   *)
(* to store that in its record.                                            *)
(***************************************************************************)
THEOREM QueueAlwaysMatches == ASSUME NoStakeHook PROVE Spec => []QueueMatches
<1>1. QueueInv => QueueMatches
  BY DEF QueueInv, Queued, QueueMatches, Has, Active
<1>. QED  BY <1>1, QueueInvariance, PTL

(***************************************************************************)
(* Unless a stake changes, nobody jumps the queue: a validator that keeps  *)
(* its number is overtaken by nobody, at the end of a block and by any     *)
(* punishment or payment.                                                  *)
(***************************************************************************)
THEOREM NobodyJumpsTheQueue == ASSUME NoStakeHook PROVE Spec => NoQueueJumping
<1>1. QueueInv /\ [Next]_vars =>
        [\A m \in DOMAIN queue, n \in DOMAIN queue' :
           m \in DOMAIN queue' /\ queue'[m] = queue[m] /\ n < m =>
             \E k \in DOMAIN queue : queue[k] = queue'[n] /\ k < m]_vars
  BY QueuedKept DEF QueueInv, NoJump
<1>. QED  BY <1>1, QueueInvariance, PTL DEF Spec, NoQueueJumping

-----------------------------------------------------------------------------
(* The seats.                                                              *)

\* A seat of the top for every rank, and one of the luckies for every number.
LEMMA TopCount ==
    ASSUME NEW rank \in Rankings[Active]
    PROVE  /\ IsFiniteSet(Top(rank)) /\ Cardinality(Top(rank)) \in Nat
           /\ Cardinality(Top(rank)) <= TopSeats
<1> DEFINE top == Top(rank)
           f == [a \in top |-> rank[a]]
<1>1. top \subseteq Active /\ \A a \in top : rank[a] <= TopSeats
  BY DEF Top
<1>2. IsFiniteSet(top) /\ Cardinality(top) \in Nat
  BY <1>1, SeatFacts, FS_Subset, FS_CardinalityType
<1>3. \A a \in top : rank[a] \in 1..TopSeats
  BY <1>1, RankType, SeatFacts
<1>4. \A a, b \in top : rank[a] = rank[b] => a = b
  BY <1>1, RankType
<1>. HIDE DEF top
<1>5. f \in Injection(top, 1..TopSeats)
  BY <1>3, <1>4 DEF Injection, IsInjective
<1>. HIDE DEF f
<1>6. IsFiniteSet(1..TopSeats) /\ Cardinality(1..TopSeats) = TopSeats
  <2>1. IsFiniteSet(1..TopSeats) /\ Cardinality(1..TopSeats) = IF 1 > TopSeats THEN 0 ELSE TopSeats - 1 + 1
    BY SeatFacts, FS_Interval
  <2>. QED  BY <2>1, SeatFacts
<1>7. Cardinality(top) <= Cardinality(1..TopSeats)
  <2> DEFINE T == 1..TopSeats
  <2>. HIDE DEF T
  <2>1. f \in Injection(top, T) /\ IsFiniteSet(top) /\ IsFiniteSet(T)
    BY <1>2, <1>5, <1>6 DEF T
  <2>2. Cardinality(top) <= Cardinality(T)
    BY <2>1, FS_Injection
  <2>. QED  BY <2>2 DEF T
<1>. QED  BY <1>2, <1>6, <1>7 DEF top

LEMMA LastNoValue ==
    ASSUME NEW q, QueueType(q), NEW count \in Nat
    PROVE  LET upto == {m \in DOMAIN q : m <= LastNo(q, count)}
           IN  IsFiniteSet(upto) /\ Cardinality(upto) \in Nat /\ Cardinality(upto) <= count
<1> DEFINE D == DOMAIN q
           Upto(n) == {m \in D : m <= n}
           first == {n \in D : Cardinality(Upto(n)) <= count}
           last == LastNo(q, count)
<1>1. IsFiniteSet(D) /\ \A n \in D : n \in Nat \ {0}
  BY DEF QueueType
<1>2. last = IF first = {} THEN 0 ELSE Max(first)
  BY DEF LastNo
<1>3. IsFiniteSet(Upto(last)) /\ Cardinality(Upto(last)) \in Nat
  BY <1>1, FS_Subset, FS_CardinalityType
<1>4. CASE first = {}
  <2>1. Upto(last) = {}
    BY <1>1, <1>2, <1>4
  <2>2. Cardinality(Upto(last)) = 0
    BY <2>1, FS_EmptySet
  <2>. QED  BY <1>3, <2>2
<1>5. CASE first # {}
  <2>1. IsFiniteSet(first) /\ \A n \in first : n \in Int
    <3>1. first \subseteq D
      OBVIOUS
    <3>. HIDE DEF first, D
    <3>. QED  BY <1>1, <3>1, FS_Subset
  <2>2. Max(first) \in first
    <3>. HIDE DEF first
    <3>. QED  BY <1>5, <2>1, MaxOfFinite
  <2>3. last \in first
    BY <1>2, <1>5, <2>2
  <2>4. Cardinality(Upto(last)) <= count
    BY <2>3
  <2>. QED  BY <1>3, <2>4
<1>. QED  BY <1>4, <1>5

LEMMA LuckyCount ==
    ASSUME IInv, Queued(info, queue), NEW rank \in Rankings[Active]
    PROVE  LET lucky == Lucky(Top(rank))
           IN  /\ IsFiniteSet(lucky) /\ Cardinality(lucky) \in Nat
               /\ Cardinality(lucky) <= LuckySeats
<1> DEFINE top == Top(rank)
           lucky == Lucky(top)
           rest == QueueOfRest(top)
           last == LastNo(rest, LuckySeats)
           upto == {m \in DOMAIN rest : m <= last}
           f == [a \in lucky |-> info[a].lotteryNo]
<1>1. /\ QueueType(rest)
      /\ DOMAIN rest = DOMAIN queue \ {info[a].lotteryNo : a \in top}
  BY RestType DEF IInv
<1>2. IsFiniteSet(upto) /\ Cardinality(upto) \in Nat /\ Cardinality(upto) <= LuckySeats
  <2>. HIDE DEF rest
  <2>. QED  BY <1>1, SeatFacts, LastNoValue
<1>3. /\ \A a \in lucky : /\ a \in Active /\ a \notin top
                          /\ info[a].lotteryNo # 0 /\ info[a].lotteryNo <= last
      /\ top \subseteq Active
  BY DEF Lucky, Top
<1>. HIDE DEF top, lucky, rest, last
<1>4. \A a \in Active : a \in Accounts /\ info[a] # NoInfo
  BY DEF Active, IsActive
<1>5. \A a \in Active : info[a].lotteryNo # 0 =>
        info[a].lotteryNo \in DOMAIN queue /\ queue[info[a].lotteryNo] = a
  BY <1>4 DEF Queued
<1>6. \A a \in lucky : info[a].lotteryNo \in upto
  <2>1. ASSUME NEW a \in lucky, NEW b \in top, info[b].lotteryNo = info[a].lotteryNo
        PROVE  FALSE
    BY <1>3, <1>5, <2>1
  <2>. QED  BY <1>1, <1>3, <1>5, <2>1
<1>7. \A a, b \in lucky : info[a].lotteryNo = info[b].lotteryNo => a = b
  BY <1>3, <1>5
<1>8. IsFiniteSet(lucky) /\ Cardinality(lucky) \in Nat
  <2>1. lucky \subseteq Active
    BY <1>3
  <2>. QED  BY <2>1, SeatFacts, FS_Subset, FS_CardinalityType
<1>. HIDE DEF upto
<1>9. f \in Injection(lucky, upto)
  BY <1>6, <1>7 DEF Injection, IsInjective
<1>. HIDE DEF f
<1>10. Cardinality(lucky) <= Cardinality(upto)
  BY <1>2, <1>8, <1>9, FS_Injection
<1>11. Cardinality(lucky) <= LuckySeats
  BY <1>2, <1>8, <1>10, SeatFacts
<1>. QED  BY <1>8, <1>11 DEF lucky, top

\* If there are enough seats, everyone is at the top.
LEMMA AllAtTop ==
    ASSUME NEW rank \in Rankings[Active], Cardinality(Active) <= MaxValidators
    PROVE  Top(rank) = Active
<1>1. TopSeats = Cardinality(Active) /\ Cardinality(Active) \in Nat
  BY SeatFacts
<1>2. \A a \in Active : rank[a] \in 1..Cardinality(Active)
  BY RankType
<1>3. \A a \in Active : rank[a] <= TopSeats
  BY <1>1, <1>2
<1>. QED  BY <1>3 DEF Top

LEMMA EndBlockerSeats ==
    ASSUME IInv, Queued(info, queue), EndBlocker
    PROVE  SeatsRespected'
<1>1. PICK rank, ties : Ended(rank, ties)
  BY EndBlockerValue
<1> DEFINE top == Top(rank)
           lucky == Lucky(top)
           power == Powers(rank, ties)
           numbers == Numbers(rank, top)
<1>2. rank \in Rankings[Active] /\ ties \in SUBSET (2..TopSeats)
  BY <1>1 DEF Ended
<1>3. Round(top, power, numbers)
  BY <1>1, EndedRound DEF IInv
<1>4. info' = [a \in Accounts |-> Gathered(a, top, power, numbers)]
  BY <1>1 DEF Ended
<1>5. /\ DOMAIN power = top \cup lucky /\ top \subseteq Active
      /\ \A a \in DOMAIN power : power[a] \in Nat \ {0}
  BY <1>2, PowersType
<1>6. /\ IsFiniteSet(top) /\ Cardinality(top) \in Nat /\ Cardinality(top) <= TopSeats
  BY <1>2, TopCount
<1>7. /\ IsFiniteSet(lucky) /\ Cardinality(lucky) \in Nat
      /\ Cardinality(lucky) <= LuckySeats
  BY <1>2, LuckyCount
<1>8. Cardinality(Active) <= MaxValidators => top = Active
  BY <1>2, AllAtTop
<1>. HIDE DEF top, lucky, power, numbers
<1>9. /\ DOMAIN power \subseteq Active
      /\ \A a \in Active : a \in Accounts /\ Has(a)
      /\ \A a \in Newcomers(top) : numbers[a] # 0
      /\ \A a \in Active : a \notin top /\ info[a].lotteryNo = 0 => a \in Newcomers(top)
  BY <1>3 DEF Round, Active, IsActive, Has, Newcomers
<1>10. ASSUME NEW a \in Accounts, Has(a)
       PROVE  /\ info'[a] # NoInfo
              /\ info'[a].lastPower # 0 <=> a \in DOMAIN power
              /\ IsActive(info'[a]) <=> a \in Active
              /\ a \in Active /\ a \notin DOMAIN power => info'[a].lotteryNo # 0
  <2> DEFINE s == Gathered(a, top, power, numbers)
  <2>1. /\ s \in Infos
        /\ s.status = info[a].status /\ s.jailed = info[a].jailed /\ s.banned = info[a].banned
        /\ a \in DOMAIN power => s.lastPower = power[a]
        /\ a \notin DOMAIN power => s.lastPower = 0
        /\ s.lotteryNo = IF a \in top THEN 0
                         ELSE IF a \in Newcomers(top) THEN numbers[a]
                         ELSE info[a].lotteryNo
    BY <1>3, <1>10, GatheredValue
  <2>2. info'[a] = s
    BY <1>4
  <2>. HIDE DEF s
  <2>3. info'[a] # NoInfo
    BY <2>1, <2>2, JailBounds
  <2>4. info'[a].lastPower # 0 <=> a \in DOMAIN power
    BY <1>5, <2>1, <2>2
  <2>5. IsActive(info'[a]) <=> a \in Active
    BY <1>10, <2>1, <2>2, <2>3 DEF Active, IsActive, Has
  <2>6. a \in Active /\ a \notin DOMAIN power => info'[a].lotteryNo # 0
    BY <1>5, <1>9, <2>1, <2>2
  <2>. QED  BY <2>3, <2>4, <2>5, <2>6
<1>11. \A a \in Accounts : ~Has(a) => info'[a] = NoInfo
  <2>1. info' \in [Accounts -> Infos \cup {NoInfo}] /\ \A a \in Accounts : Has(a)' <=> Has(a)
    BY <1>3, <1>4, EndedRecords
  <2>. QED  BY <2>1 DEF Has
<1>12. Active' = Active
  BY <1>9, <1>10, <1>11 DEF Active, IsActive
<1>13. Powered' = DOMAIN power
  BY <1>9, <1>10, <1>11 DEF Powered, Has
<1>14. Cardinality(DOMAIN power) <= MaxValidators + LotteryValidators
  <2>1. Cardinality(top \cup lucky) <= Cardinality(top) + Cardinality(lucky)
    <3>1. IsFiniteSet(top \cap lucky)
      BY <1>6, FS_Intersection
    <3>2. Cardinality(top \cap lucky) \in Nat
      BY <3>1, FS_CardinalityType
    <3>3. Cardinality(top \cup lucky) =
            Cardinality(top) + Cardinality(lucky) - Cardinality(top \cap lucky)
      BY <1>6, <1>7, FS_Union
    <3>. QED  BY <1>6, <1>7, <3>2, <3>3
  <2>2. Cardinality(top \cup lucky) \in Nat
    BY <1>6, <1>7, FS_Union, FS_CardinalityType
  <2>. QED  BY <1>5, <1>6, <1>7, <2>1, <2>2, SeatFacts
<1>15. Cardinality(Active) <= MaxValidators => DOMAIN power = Active
  BY <1>5, <1>8, <1>9
<1>16. \A a \in Active : a \notin DOMAIN power => info'[a].lotteryNo # 0
  BY <1>9, <1>10
<1>. QED  BY <1>9, <1>12, <1>13, <1>14, <1>15, <1>16 DEF SeatsRespected

LEMMA SeatsKept ==
    ASSUME IInv, Queued(info, queue), SeatsRespected, [Next]_vars
    PROVE  SeatsRespected'
<1>1. CASE EndBlocker
  BY <1>1, EndBlockerSeats
<1>2. CASE UNCHANGED vars
  BY <1>2 DEF vars, store, SeatsRespected, Powered, Active, Has
<1>3. ASSUME Next, ~EndBlocker PROVE phase' # "ended"
  <2>1. \A k, absent : BeginBlocker(k, absent) => phase' = "begun"
    BY DEF BeginBlocker
  <2>2. \A k : CountAbsence(k) => phase' = "begun"
    BY DEF CountAbsence, Counting
  <2>3. \A k, penalised : Punish(k, penalised) => phase' = "begun"
    BY DEF Punish, Judging
  <2>4. Tx => phase' = "delivering"
    BY DEF Tx
  <2>5. \A a, k : SwitchOn(a, k) => Tx
    BY DEF SwitchOn
  <2>6. \A a : SwitchOff(a) \/ Unjail(a) \/ AddToStaff(a) \/ RemoveFromStaff(a) => Tx
    BY DEF SwitchOff, Unjail, AddToStaff, RemoveFromStaff
  <2>7. \A a, cause : Requalify(a, cause) => Tx
    BY DEF Requalify
  <2>8. Restart => phase' = "genesis"
    BY DEF Restart
  <2>. QED  BY <1>3, <2>1, <2>2, <2>3, <2>4, <2>5, <2>6, <2>7, <2>8 DEF Next
<1>4. phase' # "ended" => SeatsRespected'
  BY DEF SeatsRespected
<1>. QED  BY <1>1, <1>2, <1>3, <1>4

(***************************************************************************)
(* Unless a stake changes, every block ends with power for active          *)
(* validators alone, for no more of them than there are seats, for all of  *)
(* them if there are enough, and with everyone else in the queue.          *)
(***************************************************************************)
THEOREM SeatsAlwaysRespected == ASSUME NoStakeHook PROVE Spec => []SeatsRespected
<1>1. Init => SeatsRespected
  BY DEF Init, SeatsRespected
<1>2. QueueInv /\ SeatsRespected /\ [Next]_vars => SeatsRespected'
  BY SeatsKept DEF QueueInv
<1>. QED  BY <1>1, <1>2, QueueInvariance, PTL DEF Spec

-----------------------------------------------------------------------------
(* CometBFT's set, if no two operators switch on with the same key.        *)

DistinctKeys == \A a, b \in Accounts : a # b => KeysOf[a] \cap KeysOf[b] = {}

\* What was last sent about every account stays as it is.
SentKept ==
    \A a \in Accounts :
      /\ Has(a) => /\ info'[a] # NoInfo /\ info'[a].lastKey = info[a].lastKey
                   /\ info'[a].lastPower = info[a].lastPower
      /\ ~Has(a) => info'[a] = NoInfo \/ info'[a].lastPower = 0

LEMMA SentAgrees ==
    ASSUME SentKept, CometAgrees, nextVals' = nextVals, halted' = halted
    PROVE  CometAgrees'
<1>1. Powered' = Powered
  BY DEF SentKept, Powered, Has
<1>2. \A a \in Powered : /\ info'[a].lastKey = info[a].lastKey
                         /\ info'[a].lastPower = info[a].lastPower
  BY DEF SentKept, Powered
<1>3. halted' \notin {"duplicate", "unknown"}
  BY DEF CometAgrees
<1>4. DOMAIN nextVals' = {info'[a].lastKey : a \in Powered}
  BY <1>2 DEF CometAgrees
<1>5. \A a \in Powered : nextVals'[info'[a].lastKey] = info'[a].lastPower
  BY <1>2 DEF CometAgrees
<1>6. \A a, b \in Powered : info'[a].lastKey = info'[b].lastKey => a = b
  BY <1>2 DEF CometAgrees
<1>. QED  BY <1>1, <1>3, <1>4, <1>5, <1>6 DEF CometAgrees

LEMMA AlikeSent ==
    ASSUME IInv, NEW a \in Accounts, Has(a), NEW s, Alike(info[a], s),
           info' = [info EXCEPT ![a] = s]
    PROVE  SentKept
<1>1. info \in [Accounts -> Infos \cup {NoInfo}]
  BY DEF IInv, TypeOK
<1>2. s # NoInfo /\ s.lastKey = info[a].lastKey /\ s.lastPower = info[a].lastPower
  BY JailBounds DEF Alike
<1>. QED  BY <1>1, <1>2 DEF SentKept, Has

LEMMA StoreSent ==
    ASSUME IInv, NEW a \in Accounts, Has(a), NEW q, NEW s, GoodStep(info[a], q, a, s),
           Store(a, s)
    PROVE  SentKept
<1>1. Alike(info[a], s.info) /\ info' = [info EXCEPT ![a] = s.info]
  BY DEF GoodStep, Store
<1>. QED  BY <1>1, AlikeSent

LEMMA SameSent == ASSUME info' = info PROVE SentKept
BY DEF SentKept, Has

LEMMA BeginBlockerSent ==
    ASSUME IInv, NEW k \in vals, NEW absent \in SUBSET lastVals, BeginBlocker(k, absent)
    PROVE  SentKept
<1> DEFINE a == operator[k]
           paid == Downshift(info[a], queue, a)
           f == [info EXCEPT ![a] = paid.info]
<1>1. /\ a \in Accounts /\ Has(a)
      /\ \E T \in SUBSET {b \in Accounts : Has(b)} :
           info' = [x \in Accounts |-> IF x \in T THEN MarkTick(f[x]) ELSE f[x]]
  BY BeginBlockerValue
<1>2. PICK T \in SUBSET {b \in Accounts : Has(b)} :
        info' = [x \in Accounts |-> IF x \in T THEN MarkTick(f[x]) ELSE f[x]]
  BY <1>1
<1>. HIDE DEF a
<1>3. info[a] \in Infos /\ info \in [Accounts -> Infos \cup {NoInfo}] /\ QueueType(queue)
  BY <1>1, RecordType DEF IInv, TypeOK
<1>4. Alike(info[a], paid.info)
  <2>1. Alike(info[a], info[a])
    BY <1>3 DEF Alike
  <2>2. GoodStep(info[a], queue, a, paid)
    BY <1>1, <1>3, <2>1, DownshiftStep
  <2>. QED  BY <2>2 DEF GoodStep
<1>. HIDE DEF paid
<1>5. ASSUME NEW x \in Accounts, Has(x)
      PROVE  f[x] \in Infos /\ f[x].lastKey = info[x].lastKey
             /\ f[x].lastPower = info[x].lastPower
  <2>1. info[x] \in Infos
    BY <1>5, RecordType
  <2>2. CASE x = a
    BY <1>3, <1>4, <2>2 DEF Alike
  <2>3. CASE x # a
    BY <1>3, <2>1, <2>3
  <2>. QED  BY <2>2, <2>3
<1>6. \A x \in Accounts : ~Has(x) => f[x] = NoInfo
  BY <1>1, <1>3 DEF Has
<1>. HIDE DEF f
<1>7. ASSUME NEW x \in Accounts, Has(x)
      PROVE  /\ info'[x] # NoInfo /\ info'[x].lastKey = info[x].lastKey
             /\ info'[x].lastPower = info[x].lastPower
  <2>1. CASE x \in T
    <3>1. /\ MarkTick(f[x]) \in Infos /\ MarkTick(f[x]).lastKey = f[x].lastKey
          /\ MarkTick(f[x]).lastPower = f[x].lastPower
      BY <1>5, <1>7, JailBounds DEF MarkTick, Infos
    <3>2. info'[x] = MarkTick(f[x])
      BY <1>2, <2>1
    <3>. QED  BY <1>5, <1>7, <3>1, <3>2, JailBounds
  <2>2. CASE x \notin T
    BY <1>2, <1>5, <1>7, <2>2, JailBounds
  <2>. QED  BY <2>1, <2>2
<1>8. \A x \in Accounts : ~Has(x) => info'[x] = NoInfo
  BY <1>2, <1>6
<1>. QED  BY <1>7, <1>8 DEF SentKept

LEMMA SwitchOnSent ==
    ASSUME IInv, NEW a \in Accounts, NEW k \in KeysOf[a], SwitchOn(a, k)
    PROVE  SentKept
<1>1. info \in [Accounts -> Infos \cup {NoInfo}]
  BY DEF IInv, TypeOK
<1>2. CASE Has(a)
  <2> DEFINE s == [info[a] EXCEPT !.status = TRUE, !.pubKey = k]
  <2>1. info' = [info EXCEPT ![a] = s]
    BY <1>1, <1>2 DEF SwitchOn
  <2>2. info[a] \in Infos /\ k \in Keys
    BY <1>2, RecordType, KnownKeys
  <2>3. s \in Infos /\ s.lastKey = info[a].lastKey /\ s.lastPower = info[a].lastPower
    BY <2>2 DEF Infos
  <2>. HIDE DEF s
  <2>4. s # NoInfo
    BY <2>3, JailBounds
  <2>. QED  BY <1>1, <1>2, <2>1, <2>3, <2>4 DEF SentKept, Has
<1>3. CASE ~Has(a)
  <2>1. info' = [info EXCEPT ![a] = NewInfo(k)] /\ NewInfo(k).lastPower = 0
    BY <1>1, <1>3 DEF SwitchOn, NewInfo
  <2>. QED  BY <1>1, <1>3, <2>1 DEF SentKept, Has
<1>. QED  BY <1>2, <1>3

LEMMA AddToStaffSent ==
    ASSUME IInv, NEW a \in Accounts, AddToStaff(a)
    PROVE  SentKept
<1>1. CASE Has(a)
  <2>1. PICK s \in Infos : info' = [info EXCEPT ![a] = s] /\ Alike(info[a], s)
    BY <1>1, AddToStaffValue
  <2>. QED  BY <1>1, <2>1, AlikeSent
<1>2. CASE ~Has(a)
  <2>1. info \in [Accounts -> Infos \cup {NoInfo}]
    BY DEF IInv, TypeOK
  <2>2. info' = [info EXCEPT ![a] = StaffInfo] /\ StaffInfo.lastPower = 0
    BY <1>2, <2>1 DEF AddToStaff, StaffInfo, NewInfo
  <2>. QED  BY <1>2, <2>1, <2>2 DEF SentKept, Has
<1>. QED  BY <1>1, <1>2

\* The updates of an account, and whose key an update is for.
LEMMA UpdatesMember ==
    ASSUME NEW power, NEW a \in Accounts, Has(a)
    PROVE  LET r == info[a]
           IN  /\ a \in DOMAIN power /\ (r.pubKey # r.lastKey \/ r.lastPower # power[a]) =>
                    \E u \in Updates(power) : u.key = r.pubKey /\ u.by = a
               /\ a \in DOMAIN power /\ r.lastKey # r.pubKey /\ r.lastKey # NoKey =>
                    Removal(a) \in Updates(power)
               /\ a \notin DOMAIN power /\ r.lastPower # 0 => Removal(a) \in Updates(power)
<1>1. \A u \in UpdatesFor(a, power) : u \in Updates(power)
  BY DEF Updates
<1>2. ASSUME a \in DOMAIN power,
             info[a].pubKey # info[a].lastKey \/ info[a].lastPower # power[a]
      PROVE  \E u \in Updates(power) : u.key = info[a].pubKey /\ u.by = a
  <2> DEFINE u == [by |-> a, key |-> info[a].pubKey, power |-> power[a]]
  <2>1. u \in UpdatesFor(a, power)
    BY <1>2 DEF UpdatesFor
  <2>2. u.key = info[a].pubKey /\ u.by = a
    OBVIOUS
  <2>. QED  BY <1>1, <2>1, <2>2
<1>3. ASSUME a \in DOMAIN power, info[a].lastKey # info[a].pubKey, info[a].lastKey # NoKey
      PROVE  Removal(a) \in Updates(power)
  BY <1>1, <1>3 DEF UpdatesFor
<1>4. ASSUME a \notin DOMAIN power, info[a].lastPower # 0
      PROVE  Removal(a) \in Updates(power)
  BY <1>1, <1>4 DEF UpdatesFor
<1>. QED  BY <1>2, <1>3, <1>4

LEMMA OneUpdatePerKey ==
    ASSUME DistinctKeys, IInv, NEW top, NEW power, NEW numbers, Round(top, power, numbers)
    PROVE  /\ \A u, w \in Updates(power) : u.key = w.key => u = w
           /\ \A u \in Updates(power) : u.key \in KeysOf[u.by]
           /\ \A a \in DOMAIN power : info[a].pubKey \in KeysOf[a]
           /\ \A a \in DOMAIN power, u \in Updates(power) :
                u.key = info[a].pubKey => u.by = a /\ u.power = power[a]
<1>1. \A a \in Accounts : Has(a) => KeysHeld(a, info[a])
  BY DEF IInv, KeysOK
<1>2. \A a \in DOMAIN power : /\ a \in Accounts /\ Has(a) /\ info[a].status
                              /\ power[a] # 0
  BY DEF Round, Active, IsActive, Has
<1>3. \A a \in DOMAIN power : info[a].pubKey \in KeysOf[a]
  BY <1>1, <1>2 DEF KeysHeld
<1>4. ASSUME NEW u \in Updates(power)
      PROVE  /\ u.by \in Accounts /\ Has(u.by) /\ u \in UpdatesFor(u.by, power)
             /\ u.key \in KeysOf[u.by]
             /\ u.power # 0 => /\ u.by \in DOMAIN power /\ u.power = power[u.by]
                               /\ u.key = info[u.by].pubKey
  <2>1. /\ u.by \in Accounts /\ Has(u.by) /\ u \in UpdatesFor(u.by, power)
        /\ u.power # 0 => /\ u.by \in DOMAIN power /\ u.power = power[u.by]
                          /\ u.key = info[u.by].pubKey
        /\ u.power = 0 => u.key = info[u.by].lastKey /\ u.key # NoKey
    BY UpdatesValue
  <2>2. u.key \in KeysOf[u.by]
    BY <1>1, <1>3, <2>1 DEF KeysHeld
  <2>. QED  BY <2>1, <2>2
<1>5. ASSUME NEW a \in Accounts, NEW u \in UpdatesFor(a, power),
             NEW w \in UpdatesFor(a, power), u.key = w.key
      PROVE  u = w
  <2> DEFINE x == [by |-> a, key |-> info[a].pubKey, power |-> power[a]]
             y == Removal(a)
  <2>1. y.key = info[a].lastKey /\ x.key = info[a].pubKey
    BY DEF Removal
  <2>2. CASE a \in DOMAIN power
    <3>1. /\ u = x \/ (u = y /\ info[a].lastKey # info[a].pubKey)
          /\ w = x \/ (w = y /\ info[a].lastKey # info[a].pubKey)
      BY <2>2 DEF UpdatesFor
    <3>. HIDE DEF x, y
    <3>. QED  BY <1>5, <2>1, <3>1
  <2>3. CASE a \notin DOMAIN power
    BY <2>3 DEF UpdatesFor
  <2>. QED  BY <2>2, <2>3
<1>6. ASSUME NEW u \in Updates(power), NEW w \in Updates(power), u.key = w.key
      PROVE  u = w
  <2>1. u.by = w.by
    BY <1>4, <1>6 DEF DistinctKeys
  <2>. QED  BY <1>4, <1>5, <1>6, <2>1
<1>7. ASSUME NEW a \in DOMAIN power, NEW u \in Updates(power), u.key = info[a].pubKey
      PROVE  u.by = a /\ u.power = power[a]
  <2>1. u.by = a
    BY <1>2, <1>3, <1>4, <1>7 DEF DistinctKeys
  <2>2. u.power # 0
    <3>1. ASSUME u.power = 0 PROVE FALSE
      <4>1. u \in UpdatesFor(a, power)
        BY <1>4, <2>1
      <4>2. \/ u = Removal(a) /\ info[a].lastKey # info[a].pubKey
            \/ u = [by |-> a, key |-> info[a].pubKey, power |-> power[a]]
        BY <4>1 DEF UpdatesFor
      <4>. QED  BY <1>2, <1>7, <3>1, <4>2 DEF Removal
    <3>. QED  BY <3>1
  <2>. QED  BY <1>4, <2>1, <2>2
<1>. QED  BY <1>3, <1>4, <1>6, <1>7

(***************************************************************************)
(* The powers CometBFT has after the updates are the ones given.           *)
(***************************************************************************)
LEMMA UpdatedAgrees ==
    ASSUME DistinctKeys, IInv, CometAgrees, NEW top, NEW power, NEW numbers,
           Round(top, power, numbers)
    PROVE  LET next == Updated(nextVals, Updates(power))
           IN  /\ DOMAIN next = {info[a].pubKey : a \in DOMAIN power}
               /\ \A a \in DOMAIN power : next[info[a].pubKey] = power[a]
               /\ Verdict(Updates(power), DOMAIN next) \notin {"duplicate", "unknown"}
<1> DEFINE upd == Updates(power)
           next == Updated(nextVals, upd)
           removed == {u.key : u \in {w \in upd : w.power = 0}}
<1>1. /\ \A u, w \in upd : u.key = w.key => u = w
      /\ \A u \in upd : u.key \in KeysOf[u.by]
      /\ \A a \in DOMAIN power : info[a].pubKey \in KeysOf[a]
      /\ \A a \in DOMAIN power, u \in upd :
           u.key = info[a].pubKey => u.by = a /\ u.power = power[a]
  BY OneUpdatePerKey
<1>2. \A u \in upd :
        /\ u.by \in Accounts /\ Has(u.by)
        /\ u.power # 0 => u.by \in DOMAIN power /\ u.key = info[u.by].pubKey
        /\ u.power = 0 => u.key = info[u.by].lastKey /\ u.key # NoKey
  BY UpdatesValue
<1>3. \A a \in DOMAIN power : a \in Accounts /\ Has(a) /\ power[a] # 0
  BY DEF Round, Active, IsActive, Has
<1>4. \A a \in Accounts : Has(a) => (info[a].lastPower = 0 <=> info[a].lastKey = NoKey)
  BY DEF IInv, KeysOK, KeysHeld
<1>5. \A a \in Accounts : Has(a) =>
        /\ a \in DOMAIN power /\ (info[a].pubKey # info[a].lastKey
                                  \/ info[a].lastPower # power[a]) =>
             \E u \in upd : u.key = info[a].pubKey
        /\ a \in DOMAIN power /\ info[a].lastKey # info[a].pubKey /\ info[a].lastKey # NoKey =>
             Removal(a) \in upd
        /\ a \notin DOMAIN power /\ info[a].lastPower # 0 => Removal(a) \in upd
  BY UpdatesMember
<1>6. \A a \in Accounts : Removal(a).key = info[a].lastKey /\ Removal(a).power = 0
  BY DEF Removal
<1>7. /\ DOMAIN nextVals = {info[a].lastKey : a \in Powered}
      /\ \A a \in Powered : nextVals[info[a].lastKey] = info[a].lastPower
      /\ \A a : a \in Powered <=> a \in Accounts /\ Has(a) /\ info[a].lastPower # 0
  BY DEF CometAgrees, Powered
<1>. HIDE DEF upd
<1>8. /\ DOMAIN next = (DOMAIN nextVals \cup {u.key : u \in upd}) \ removed
      /\ \A k \in DOMAIN next : next[k] = IF \E u \in upd : u.key = k
                                          THEN (CHOOSE u \in upd : u.key = k).power
                                          ELSE nextVals[k]
  BY DEF Updated
<1>. HIDE DEF next
<1>9. ASSUME NEW k \in DOMAIN next PROVE \E a \in DOMAIN power : k = info[a].pubKey
  <2>1. CASE \E u \in upd : u.key = k
    BY <1>2, <1>8, <2>1
  <2>2. CASE ~ \E u \in upd : u.key = k
    <3>1. PICK a \in Powered : k = info[a].lastKey
      BY <1>7, <1>8, <2>2
    <3>2. a \in Accounts /\ Has(a) /\ info[a].lastPower # 0 /\ info[a].lastKey # NoKey
      BY <1>4, <1>7
    <3>3. Removal(a) \notin upd
      BY <1>6, <2>2, <3>1, <3>2
    <3>. QED  BY <1>5, <3>1, <3>2, <3>3
  <2>. QED  BY <2>1, <2>2
<1>10. ASSUME NEW a \in DOMAIN power
       PROVE  info[a].pubKey \in DOMAIN next /\ next[info[a].pubKey] = power[a]
  <2> DEFINE k == info[a].pubKey
  <2>1. k \notin removed
    BY <1>1, <1>3
  <2>2. CASE \E u \in upd : u.key = k
    <3> DEFINE u == CHOOSE x \in upd : x.key = k
    <3>1. u \in upd /\ u.key = k
      BY <2>2
    <3>2. k \in DOMAIN next
      BY <1>8, <2>1, <3>1
    <3>3. next[k] = u.power
      BY <1>8, <2>2, <3>2
    <3>. HIDE DEF u
    <3>. QED  BY <1>1, <3>1, <3>2, <3>3
  <2>3. CASE ~ \E u \in upd : u.key = k
    <3>1. info[a].lastKey = k /\ info[a].lastPower = power[a]
      BY <1>3, <1>5, <2>3
    <3>2. a \in Powered
      BY <1>3, <1>7, <3>1
    <3>3. k \in DOMAIN nextVals /\ nextVals[k] = power[a]
      BY <1>7, <3>1, <3>2
    <3>4. k \in DOMAIN next
      BY <1>8, <2>1, <3>3
    <3>. QED  BY <1>8, <2>3, <3>3, <3>4
  <2>. QED  BY <2>2, <2>3
<1>11. ASSUME NEW u \in upd, u.power = 0 PROVE u.key \in DOMAIN nextVals
  <2>1. u.by \in Powered /\ u.key = info[u.by].lastKey
    BY <1>2, <1>4, <1>7, <1>11
  <2>. QED  BY <1>7, <2>1
<1>12. Verdict(upd, DOMAIN next) \notin {"duplicate", "unknown"}
  <2>1. ~ \E u, w \in upd : u # w /\ u.key = w.key
    BY <1>1
  <2>2. ~ \E u \in upd : u.power = 0 /\ u.key \notin DOMAIN nextVals
    BY <1>11
  <2>. QED  BY <2>1, <2>2 DEF Verdict
<1>13. DOMAIN next = {info[a].pubKey : a \in DOMAIN power}
  BY <1>9, <1>10
<1>. QED  BY <1>10, <1>12, <1>13 DEF next, upd

LEMMA EndBlockerAgrees ==
    ASSUME DistinctKeys, IInv, CometAgrees, EndBlocker
    PROVE  CometAgrees'
<1>1. PICK rank, ties : Ended(rank, ties)
  BY EndBlockerValue
<1> DEFINE top == Top(rank)
           power == Powers(rank, ties)
           numbers == Numbers(rank, top)
           next == Updated(nextVals, Updates(power))
<1>2. Round(top, power, numbers)
  BY <1>1, EndedRound DEF IInv
<1>3. /\ info' = [a \in Accounts |-> Gathered(a, top, power, numbers)]
      /\ halted' = Verdict(Updates(power), DOMAIN next)
      /\ nextVals' = next
  BY <1>1 DEF Ended
<1>. HIDE DEF top, power, numbers
<1>4. /\ DOMAIN next = {info[a].pubKey : a \in DOMAIN power}
      /\ \A a \in DOMAIN power : next[info[a].pubKey] = power[a]
      /\ Verdict(Updates(power), DOMAIN next) \notin {"duplicate", "unknown"}
  BY <1>2, UpdatedAgrees
<1>5. \A a \in DOMAIN power : info[a].pubKey \in KeysOf[a]
  BY <1>2, OneUpdatePerKey
<1>6. \A a \in DOMAIN power : a \in Accounts /\ Has(a) /\ power[a] # 0
  BY <1>2 DEF Round, Active, IsActive, Has
<1>7. ASSUME NEW a \in Accounts, Has(a)
      PROVE  /\ a \in DOMAIN power => info'[a].lastPower = power[a]
                                      /\ info'[a].lastKey = info[a].pubKey
             /\ a \notin DOMAIN power => info'[a].lastPower = 0
  <2> DEFINE s == Gathered(a, top, power, numbers)
  <2>1. /\ a \in DOMAIN power => s.lastPower = power[a] /\ s.lastKey = info[a].pubKey
        /\ a \notin DOMAIN power => s.lastPower = 0
    BY <1>2, <1>7, GatheredValue
  <2>2. info'[a] = s
    BY <1>3
  <2>. HIDE DEF s
  <2>. QED  BY <2>1, <2>2
<1>8. \A a \in Accounts : Has(a)' <=> Has(a)
  BY <1>2, <1>3, EndedRecords
<1>9. Powered' = DOMAIN power
  <2>1. \A a : a \in Powered' <=> a \in Accounts /\ Has(a)' /\ info'[a].lastPower # 0
    BY DEF Powered, Has
  <2>2. \A a : a \in Powered' <=> a \in DOMAIN power
    BY <1>6, <1>7, <1>8, <2>1
  <2>3. \A a : a \in DOMAIN power <=> a \in Powered'
    BY <2>2
  <2>. QED  BY <2>3
<1>. HIDE DEF next
<1>10. \A a \in DOMAIN power : info'[a].lastPower = power[a] /\ info'[a].lastKey = info[a].pubKey
  BY <1>6, <1>7
<1>11. DOMAIN nextVals' = {info'[a].lastKey : a \in DOMAIN power}
  <2>1. {info[a].pubKey : a \in DOMAIN power} = {info'[a].lastKey : a \in DOMAIN power}
    BY <1>10
  <2>. QED  BY <1>3, <1>4, <2>1
<1>12. \A a \in DOMAIN power : nextVals'[info'[a].lastKey] = info'[a].lastPower
  BY <1>3, <1>4, <1>10
<1>13. \A a, b \in DOMAIN power : info'[a].lastKey = info'[b].lastKey => a = b
  BY <1>5, <1>6, <1>10 DEF DistinctKeys
<1>14. halted' \notin {"duplicate", "unknown"}
  BY <1>3, <1>4
<1>. QED  BY <1>9, <1>11, <1>12, <1>13, <1>14 DEF CometAgrees


LEMMA AgreesKept ==
    ASSUME DistinctKeys, IInv, CometAgrees, [Next]_vars
    PROVE  CometAgrees'
<1>1. ASSUME SentKept, comet' = comet, halted' = halted PROVE CometAgrees'
  BY <1>1, SentAgrees DEF comet
<1>2. ASSUME NEW k \in vals, NEW absent \in SUBSET lastVals, BeginBlocker(k, absent)
      PROVE  CometAgrees'
  BY <1>1, <1>2, BeginBlockerSent DEF BeginBlocker
<1>3. ASSUME NEW k \in Keys, CountAbsence(k) PROVE CometAgrees'
  <2> DEFINE a == operator[k]
             s == MarkStroke(info[a], queue, a)
  <2>1. a \in Accounts /\ Has(a) /\ GoodStep(info[a], queue, a, s) /\ Store(a, s)
    BY <1>3, CountAbsenceStore
  <2>2. comet' = comet /\ halted' = halted
    BY <1>3 DEF CountAbsence
  <2>. HIDE DEF a, s
  <2>. QED  BY <1>1, <2>1, <2>2, StoreSent
<1>4. ASSUME NEW k \in Keys, NEW penalised \in BOOLEAN, Punish(k, penalised)
      PROVE  CometAgrees'
  <2> DEFINE a == operator[k]
  <2>1. PICK q : /\ GoodStep(info[a], q, a, MarkByzantine(info[a], q, a))
                 /\ Store(a, MarkByzantine(info[a], q, a))
    BY <1>4, PunishStore
  <2>2. a \in Accounts /\ Has(a)
    BY <1>4, PunishStore
  <2>3. comet' = comet /\ halted' = halted
    BY <1>4 DEF Punish
  <2> DEFINE s == MarkByzantine(info[a], q, a)
  <2>4. GoodStep(info[a], q, a, s) /\ Store(a, s)
    BY <2>1
  <2>. HIDE DEF a, s
  <2>. QED  BY <1>1, <2>2, <2>3, <2>4, StoreSent
<1>5. Tx => comet' = comet /\ halted' = halted
  BY DEF Tx
<1>6. ASSUME NEW a \in Accounts, NEW k \in KeysOf[a], SwitchOn(a, k) PROVE CometAgrees'
  BY <1>1, <1>5, <1>6, SwitchOnSent DEF SwitchOn
<1>7. ASSUME NEW a \in Accounts, SwitchOff(a) PROVE CometAgrees'
  <2> DEFINE s == SwitchedOff(info[a], queue, a)
  <2>1. Has(a) /\ GoodStep(info[a], queue, a, s) /\ Store(a, s)
    BY <1>7, SwitchOffStore
  <2>2. Tx
    BY <1>7 DEF SwitchOff
  <2>. HIDE DEF s
  <2>. QED  BY <1>1, <1>5, <2>1, <2>2, StoreSent
<1>8. ASSUME NEW a \in Accounts, Unjail(a) PROVE CometAgrees'
  BY <1>1, <1>5, <1>8, UnjailValue, AlikeSent DEF Unjail
<1>9. ASSUME NEW a \in Accounts, AddToStaff(a) PROVE CometAgrees'
  BY <1>1, <1>5, <1>9, AddToStaffSent DEF AddToStaff
<1>10. ASSUME NEW a \in Accounts, RemoveFromStaff(a) PROVE CometAgrees'
  <2> DEFINE r == [info[a] EXCEPT !.staff = FALSE]
             s == OnStatusUpdate(r, queue, a, meets)
  <2>1. Has(a) /\ GoodStep(info[a], queue, a, s) /\ Store(a, s)
    BY <1>10, RemoveFromStaffStore
  <2>2. Tx
    BY <1>10 DEF RemoveFromStaff
  <2>. HIDE DEF s
  <2>. QED  BY <1>1, <1>5, <2>1, <2>2, StoreSent
<1>11. ASSUME NEW a \in Accounts, NEW cause \in Causes, Requalify(a, cause)
       PROVE  CometAgrees'
  <2>1. Tx
    BY <1>11 DEF Requalify
  <2>2. CASE info' = info
    BY <1>1, <1>5, <2>1, <2>2, SameSent
  <2>3. CASE \E m : LET s == OnStatusUpdate(info[a], queue, a, m)
                    IN  Has(a) /\ GoodStep(info[a], queue, a, s) /\ Store(a, s)
    <3>1. PICK m : LET s == OnStatusUpdate(info[a], queue, a, m)
                   IN  Has(a) /\ GoodStep(info[a], queue, a, s) /\ Store(a, s)
      BY <2>3
    <3> DEFINE s == OnStatusUpdate(info[a], queue, a, m)
    <3>2. Has(a) /\ GoodStep(info[a], queue, a, s) /\ Store(a, s)
      BY <3>1
    <3>. HIDE DEF s
    <3>. QED  BY <1>1, <1>5, <2>1, <3>2, StoreSent
  <2>. QED  BY <1>11, <2>2, <2>3, RequalifyStore
<1>12. CASE EndBlocker
  BY <1>12, EndBlockerAgrees
<1>13. CASE Restart
  <2>1. DOMAIN nextVals' = {} /\ halted' \in {"no", "import"}
    BY <1>13 DEF Restart
  <2>2. \A a \in Accounts : info'[a] # NoInfo => info'[a].lastPower = 0
    BY <1>13, RestartValue
  <2>3. Powered' = {}
    BY <2>2 DEF Powered, Has
  <2>. QED  BY <2>1, <2>3 DEF CometAgrees
<1>14. CASE UNCHANGED vars
  <2>1. info' = info /\ comet' = comet /\ halted' = halted
    BY <1>14 DEF vars, store
  <2>. QED  BY <1>1, <2>1, SameSent
<1>15. Staff \subseteq Accounts
  BY NodingAssumption
<1>. QED
  BY <1>2, <1>3, <1>4, <1>6, <1>7, <1>8, <1>9, <1>10, <1>11, <1>12, <1>13, <1>14, <1>15
     DEF Next

LEMMA InitAgrees == Init => CometAgrees
<1>. SUFFICES ASSUME Init PROVE CometAgrees
  OBVIOUS
<1>1. PICK g \in Genesis :
        info = [a \in Accounts |-> IF a \in DOMAIN g THEN NewInfo(g[a]) ELSE NoInfo]
  BY DEF Init
<1>2. DOMAIN nextVals = {} /\ halted = "no"
  BY DEF Init
<1>3. Powered = {}
  <2>1. \A a \in Accounts : info[a] # NoInfo => info[a].lastPower = 0
    BY <1>1 DEF NewInfo
  <2>. QED  BY <2>1 DEF Powered, Has
<1>. QED  BY <1>2, <1>3 DEF CometAgrees

(***************************************************************************)
(* If no two operators switch on with the same key, CometBFT refuses no    *)
(* update, and its set is what the records remember as last sent.  The run *)
(* noding_leap shows why the hypothesis is there: an operator who takes    *)
(* over the key of another makes EndBlocker send two updates of one key.   *)
(***************************************************************************)
THEOREM CometAlwaysAgrees == ASSUME DistinctKeys PROVE Spec => []CometAgrees
<1>1. Init => IInv /\ CometAgrees
  BY InitInvariant, InitAgrees
<1>2. IInv /\ CometAgrees /\ [Next]_vars => (IInv /\ CometAgrees)'
  BY Inductive, AgreesKept
<1>. QED  BY <1>1, <1>2, PTL DEF Spec

-----------------------------------------------------------------------------
(* Who has been banished is switched off, not only out of the active ones. *)

BanishedOff == \A a \in banished : Has(a) /\ ~info[a].status

\* Nobody is switched on, and who is reported now is off.
StatusKept ==
    /\ \A a \in Accounts : Has(a) => info'[a] # NoInfo /\ (info'[a].status => info[a].status)
    /\ \A a \in banished' : a \in banished \/ (info'[a] # NoInfo /\ ~info'[a].status)

LEMMA StatusOff ==
    ASSUME IInv, BanishedOff, StatusKept
    PROVE  BanishedOff'
<1>1. banished \subseteq Accounts
  BY DEF IInv, TypeOK
<1>. QED  BY <1>1 DEF BanishedOff, StatusKept, Has

LEMMA AlikeStatus ==
    ASSUME IInv, NEW a \in Accounts, Has(a), NEW s, Alike(info[a], s),
           info' = [info EXCEPT ![a] = s]
    PROVE  /\ \A b \in Accounts : Has(b) =>
                info'[b] # NoInfo /\ (info'[b].status => info[b].status)
           /\ info'[a] = s /\ s # NoInfo
<1>1. info \in [Accounts -> Infos \cup {NoInfo}]
  BY DEF IInv, TypeOK
<1>2. s # NoInfo /\ (s.status => info[a].status)
  BY JailBounds DEF Alike
<1>. QED  BY <1>1, <1>2 DEF Has

LEMMA StoreStatus ==
    ASSUME IInv, NEW a \in Accounts, Has(a), NEW q, NEW s, GoodStep(info[a], q, a, s),
           Store(a, s), banished' \subseteq banished \cup {a},
           a \in banished' => a \in banished \/ ~s.info.status
    PROVE  StatusKept
<1>1. Alike(info[a], s.info) /\ info' = [info EXCEPT ![a] = s.info]
  BY DEF GoodStep, Store
<1>2. /\ \A b \in Accounts : Has(b) =>
           info'[b] # NoInfo /\ (info'[b].status => info[b].status)
      /\ info'[a] = s.info /\ s.info # NoInfo
  BY <1>1, AlikeStatus
<1>. QED  BY <1>2 DEF StatusKept

LEMMA BeginBlockerStatus ==
    ASSUME IInv, NEW k \in vals, NEW absent \in SUBSET lastVals, BeginBlocker(k, absent)
    PROVE  StatusKept
<1> DEFINE a == operator[k]
           paid == Downshift(info[a], queue, a)
           f == [info EXCEPT ![a] = paid.info]
<1>1. /\ a \in Accounts /\ Has(a)
      /\ \E T \in SUBSET {b \in Accounts : Has(b)} :
           info' = [x \in Accounts |-> IF x \in T THEN MarkTick(f[x]) ELSE f[x]]
  BY BeginBlockerValue
<1>2. PICK T \in SUBSET {b \in Accounts : Has(b)} :
        info' = [x \in Accounts |-> IF x \in T THEN MarkTick(f[x]) ELSE f[x]]
  BY <1>1
<1>. HIDE DEF a
<1>3. info[a] \in Infos /\ info \in [Accounts -> Infos \cup {NoInfo}] /\ QueueType(queue)
  BY <1>1, RecordType DEF IInv, TypeOK
<1>4. Alike(info[a], paid.info)
  <2>1. Alike(info[a], info[a])
    BY <1>3 DEF Alike
  <2>2. GoodStep(info[a], queue, a, paid)
    BY <1>1, <1>3, <2>1, DownshiftStep
  <2>. QED  BY <2>2 DEF GoodStep
<1>. HIDE DEF paid
<1>5. ASSUME NEW x \in Accounts, Has(x)
      PROVE  f[x] \in Infos /\ (f[x].status => info[x].status)
  <2>1. info[x] \in Infos
    BY <1>5, RecordType
  <2>2. CASE x = a
    BY <1>3, <1>4, <2>2 DEF Alike
  <2>3. CASE x # a
    BY <1>3, <2>1, <2>3
  <2>. QED  BY <2>2, <2>3
<1>. HIDE DEF f
<1>6. ASSUME NEW x \in Accounts, Has(x)
      PROVE  info'[x] # NoInfo /\ (info'[x].status => info[x].status)
  <2>1. CASE x \in T
    <3>1. MarkTick(f[x]) \in Infos /\ MarkTick(f[x]).status = f[x].status
      BY <1>5, <1>6, JailBounds DEF MarkTick, Infos
    <3>2. info'[x] = MarkTick(f[x])
      BY <1>2, <2>1
    <3>. QED  BY <1>5, <1>6, <3>1, <3>2, JailBounds
  <2>2. CASE x \notin T
    BY <1>2, <1>5, <1>6, <2>2, JailBounds
  <2>. QED  BY <2>1, <2>2
<1>7. banished' = banished
  BY DEF BeginBlocker
<1>. QED  BY <1>6, <1>7 DEF StatusKept

LEMMA EndBlockerStatus ==
    ASSUME IInv, EndBlocker
    PROVE  StatusKept
<1>1. PICK rank, ties : Ended(rank, ties)
  BY EndBlockerValue
<1> DEFINE top == Top(rank)
           power == Powers(rank, ties)
           numbers == Numbers(rank, top)
<1>2. Round(top, power, numbers)
  BY <1>1, EndedRound DEF IInv
<1>3. info' = [a \in Accounts |-> Gathered(a, top, power, numbers)]
  BY <1>1 DEF Ended
<1>4. banished' = banished
  BY EndBlockerValue
<1>. HIDE DEF top, power, numbers
<1>5. ASSUME NEW a \in Accounts, Has(a)
      PROVE  info'[a] # NoInfo /\ (info'[a].status => info[a].status)
  <2> DEFINE s == Gathered(a, top, power, numbers)
  <2>1. s \in Infos /\ s.status = info[a].status
    BY <1>2, <1>5, GatheredValue
  <2>2. info'[a] = s
    BY <1>3
  <2>. HIDE DEF s
  <2>. QED  BY <2>1, <2>2, JailBounds
<1>. QED  BY <1>4, <1>5 DEF StatusKept

LEMMA SwitchOnStatus ==
    ASSUME IInv, BanishedOff, NEW a \in Accounts, NEW k \in KeysOf[a], SwitchOn(a, k)
    PROVE  BanishedOff'
<1>1. info \in [Accounts -> Infos \cup {NoInfo}] /\ banished \subseteq Accounts
  BY DEF IInv, TypeOK
<1>2. banished' = banished \ {a} /\ \A b \in Accounts : b # a => info'[b] = info[b]
  BY <1>1 DEF SwitchOn
<1>. QED  BY <1>1, <1>2 DEF BanishedOff, Has

LEMMA BanishedKept ==
    ASSUME NoStakeHook, IInv, BanishedOff, [Next]_vars
    PROVE  BanishedOff'
<1>1. ASSUME NEW k \in vals, NEW absent \in SUBSET lastVals, BeginBlocker(k, absent)
      PROVE  BanishedOff'
  BY <1>1, BeginBlockerStatus, StatusOff
<1>2. ASSUME NEW k \in Keys, CountAbsence(k) PROVE BanishedOff'
  <2> DEFINE a == operator[k]
             s == MarkStroke(info[a], queue, a)
  <2>1. a \in Accounts /\ Has(a) /\ GoodStep(info[a], queue, a, s) /\ Store(a, s)
    BY <1>2, CountAbsenceStore
  <2>2. banished' = banished
    BY <1>2 DEF CountAbsence
  <2>. HIDE DEF a, s
  <2>. QED  BY <2>1, <2>2, StoreStatus, StatusOff
<1>3. ASSUME NEW k \in Keys, NEW penalised \in BOOLEAN, Punish(k, penalised)
      PROVE  BanishedOff'
  <2> DEFINE a == operator[k]
             s == MarkByzantine(info[a], queue, a)
  <2>1. ~penalised
    BY <1>3 DEF Punish, NoStakeHook
  <2>2. /\ a \in Accounts /\ Has(a) /\ GoodStep(info[a], queue, a, s) /\ Store(a, s)
        /\ banished' = banished
    BY <1>3, <2>1, PunishStore
  <2>. HIDE DEF a, s
  <2>. QED  BY <2>2, StoreStatus, StatusOff
<1>4. ASSUME NEW a \in Accounts, NEW k \in KeysOf[a], SwitchOn(a, k) PROVE BanishedOff'
  BY <1>4, SwitchOnStatus
<1>5. ASSUME NEW a \in Accounts, SwitchOff(a) PROVE BanishedOff'
  <2> DEFINE s == SwitchedOff(info[a], queue, a)
  <2>1. Has(a) /\ GoodStep(info[a], queue, a, s) /\ Store(a, s)
    BY <1>5, SwitchOffStore
  <2>2. banished' = banished
    BY <1>5 DEF SwitchOff
  <2>. HIDE DEF s
  <2>. QED  BY <2>1, <2>2, StoreStatus, StatusOff
<1>6. ASSUME NEW a \in Accounts, Unjail(a) PROVE BanishedOff'
  <2> DEFINE on == info[a].status /\ IsQualified(a, meets)
             s == [info[a] EXCEPT !.jailed = FALSE, !.status = on]
  <2>1. Has(a) /\ Alike(info[a], s) /\ info' = [info EXCEPT ![a] = s]
    BY <1>6, UnjailValue
  <2>2. banished' = IF IsQualified(a, meets) THEN banished ELSE banished \cup {a}
    BY <1>6 DEF Unjail
  <2>3. info[a] \in Infos
    BY <2>1, RecordType
  <2>4. s.status = on
    BY <2>3 DEF Infos
  <2>5. ~IsQualified(a, meets) => ~s.status
    BY <2>4
  <2>. HIDE DEF s
  <2>6. /\ \A b \in Accounts : Has(b) =>
             info'[b] # NoInfo /\ (info'[b].status => info[b].status)
        /\ info'[a] = s /\ s # NoInfo
    BY <2>1, AlikeStatus
  <2>7. StatusKept
    BY <2>2, <2>5, <2>6 DEF StatusKept
  <2>. QED  BY <2>7, StatusOff
<1>7. ASSUME NEW a \in Accounts, AddToStaff(a) PROVE BanishedOff'
  <2>1. info \in [Accounts -> Infos \cup {NoInfo}]
    BY DEF IInv, TypeOK
  <2>2. PICK s \in Infos : /\ info' = [info EXCEPT ![a] = s]
                           /\ Has(a) => Alike(info[a], s)
    BY <1>7, AddToStaffValue
  <2>3. banished' = banished
    BY <1>7 DEF AddToStaff
  <2>4. ASSUME NEW b \in Accounts, Has(b)
        PROVE  info'[b] # NoInfo /\ (info'[b].status => info[b].status)
    BY <2>1, <2>2, <2>4, JailBounds DEF Alike, Has
  <2>5. StatusKept
    BY <2>3, <2>4 DEF StatusKept
  <2>. QED  BY <2>5, StatusOff
<1>8. ASSUME NEW a \in Accounts, RemoveFromStaff(a) PROVE BanishedOff'
  <2> DEFINE r == [info[a] EXCEPT !.staff = FALSE]
             s == OnStatusUpdate(r, queue, a, meets)
  <2>1. /\ Has(a) /\ GoodStep(info[a], queue, a, s) /\ Store(a, s)
        /\ banished' = Report(a, r, meets)
        /\ Unqualified(r, a, meets) => ~s.info.status
    BY <1>8, RemoveFromStaffStore
  <2>. HIDE DEF s, r
  <2>2. /\ banished' \subseteq banished \cup {a}
        /\ a \in banished' => a \in banished \/ ~s.info.status
    BY <2>1 DEF Report
  <2>. QED  BY <2>1, <2>2, StoreStatus, StatusOff
<1>9. ASSUME NEW a \in Accounts, NEW cause \in Causes, Requalify(a, cause)
      PROVE  BanishedOff'
  <2>1. cause # "stake"
    BY DEF NoStakeHook
  <2>2. CASE info' = info /\ banished' = banished
    BY <2>2 DEF BanishedOff, Has
  <2>3. CASE \E m : LET s == OnStatusUpdate(info[a], queue, a, m)
                    IN  /\ Has(a) /\ GoodStep(info[a], queue, a, s) /\ Store(a, s)
                        /\ banished' = Report(a, info[a], m)
                        /\ Unqualified(info[a], a, m) => ~s.info.status
    <3>1. PICK m : LET s == OnStatusUpdate(info[a], queue, a, m)
                   IN  /\ Has(a) /\ GoodStep(info[a], queue, a, s) /\ Store(a, s)
                       /\ banished' = Report(a, info[a], m)
                       /\ Unqualified(info[a], a, m) => ~s.info.status
      BY <2>3
    <3> DEFINE s == OnStatusUpdate(info[a], queue, a, m)
    <3>2. /\ Has(a) /\ GoodStep(info[a], queue, a, s) /\ Store(a, s)
          /\ banished' = Report(a, info[a], m)
          /\ Unqualified(info[a], a, m) => ~s.info.status
      BY <3>1
    <3>. HIDE DEF s
    <3>3. /\ banished' \subseteq banished \cup {a}
          /\ a \in banished' => a \in banished \/ ~s.info.status
      BY <3>2 DEF Report
    <3>. QED  BY <3>2, <3>3, StoreStatus, StatusOff
  <2>. QED  BY <1>9, <2>1, <2>2, <2>3, RequalifyStore
<1>10. CASE EndBlocker
  BY <1>10, EndBlockerStatus, StatusOff
<1>11. CASE Restart
  <2>1. /\ banished' = banished
        /\ \A a \in Accounts : Has(a) => info'[a] \in Infos /\ (info'[a].status => info[a].status)
    BY <1>11, RestartValue DEF Restart
  <2>2. StatusKept
    BY <2>1, JailBounds DEF StatusKept
  <2>. QED  BY <2>2, StatusOff
<1>12. CASE UNCHANGED vars
  BY <1>12 DEF vars, store, BanishedOff, Has
<1>13. Staff \subseteq Accounts
  BY NodingAssumption
<1>. QED
  BY <1>1, <1>2, <1>3, <1>4, <1>5, <1>6, <1>7, <1>8, <1>9, <1>10, <1>11, <1>12, <1>13 DEF Next

(***************************************************************************)
(* Unless a stake changes, who is reported as banished from the validators *)
(* is switched off and stays so until it switches on again, whatever       *)
(* jailing, evidence and restarts come in between: OnStatusUpdate, Unjail  *)
(* and the removal from the staff do what they report; OnStakeChanged      *)
(* returns (keeper.go:336) before it does.                                 *)
(***************************************************************************)
THEOREM BanishedStayOff == ASSUME NoStakeHook PROVE Spec => []BanishedAreOff
<1>1. Init => IInv /\ BanishedOff
  <2>1. Init => BanishedOff
    BY DEF Init, BanishedOff
  <2>. QED  BY <2>1, InitInvariant
<1>2. IInv /\ BanishedOff /\ [Next]_vars => (IInv /\ BanishedOff)'
  BY Inductive, BanishedKept
<1>3. BanishedOff => BanishedAreOff
  BY DEF BanishedOff, BanishedAreOff, Active, IsActive
<1>. QED  BY <1>1, <1>2, <1>3, PTL DEF Spec
=============================================================================
