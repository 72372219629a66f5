----------------------------- MODULE VpGenerator -----------------------------
(***************************************************************************)
(* x/noding/keeper/vp_generator.go: the voting powers of the validators at *)
(* the top, who are asked for in the order of their scores.  A slice of    *)
(* parameter voting_power is a part of the max_validators seats and the    *)
(* power of each; validators of equal scores stay in one slice.            *)
(***************************************************************************)
EXTENDS Fees, Sequences

\* An index past the slices, a panic in the code.
OutOfRange == 0

NewVotingPowerGenerator == [count |-> 0, ptr |-> 1, partAccum |-> FractionInt(0), slice |-> OutOfRange]

\* The sums of the parts of the first slices.
PartSums(slices) ==
    LET sum[i \in 0..Len(slices)] ==
          IF i = 0 THEN FractionInt(0) ELSE Plus(sum[i - 1], slices[i].part)
    IN  sum

\* Distribution.Validate, the part on slices.
ValidSlices(slices) ==
    /\ slices # <<>>
    /\ \A i \in DOMAIN slices : slices[i].power > 0 /\ slices[i].part.num > 0
    /\ LET total == PartSums(slices)[Len(slices)] IN total.num = total.den

\* Mutant of Covers: a slice ends before its last seat.
CoversMutant(part, count, max) == ~LTE(part, Fraction(count, max))

\* The slices so far reach the seat.
Covers(part, count, max) == LTE(Fraction(count, max), part)

\* The generator after GetVotingPower for the next validator, whose score may be
\* that of the last one.
GetVotingPower(g, slices, max, tied) ==
    LET n == g.count + 1
        stay == n > 1 /\ (Covers(g.partAccum, n, max) \/ tied)
        p == IF n = 1 \/ stay THEN g.ptr ELSE g.ptr + 1
        s == IF p \in DOMAIN slices THEN p ELSE OutOfRange
    IN  [count |-> n, ptr |-> p, slice |-> s,
         partAccum |-> IF stay \/ s = OutOfRange THEN g.partAccum
                       ELSE Plus(g.partAccum, slices[p].part)]

\* The generator after each call; ties are the positions with the score of the
\* one before.
Generators(slices, max, ties) ==
    LET g[n \in 0..max] ==
          IF n = 0 THEN NewVotingPowerGenerator
          ELSE GetVotingPower(g[n - 1], slices, max, n \in ties)
    IN  g

\* The slices of the first validators, as many as there are.
Placement(slices, max, ties) ==
    [n \in 1..max |-> Generators(slices, max, ties)[n].slice]

-----------------------------------------------------------------------------
\* The first slice that reaches a seat, by the sums of the parts.
SliceOf(slices, max, n) ==
    Min({i \in DOMAIN slices : LTE(Fraction(n, max), PartSums(slices)[i])})

\* Whatever the scores are, no index runs past the slices, equal scores get equal
\* powers and a tie of others never costs anyone a slice; and without ties every
\* slice has its part of the seats, if no part is less than a seat.
ByMerit(slices, max) ==
    LET plain == Placement(slices, max, {})
    IN  /\ \A ties \in SUBSET (2..max) :
             LET place == Placement(slices, max, ties)
             IN  \A n \in 1..max :
                   /\ place[n] # OutOfRange /\ place[n] <= plain[n]
                   /\ n \in ties => place[n] = place[n - 1]
        /\ (\A i \in DOMAIN slices : LTE(Fraction(1, max), slices[i].part)) =>
             \A n \in 1..max : plain[n] = SliceOf(slices, max, n)
=============================================================================
