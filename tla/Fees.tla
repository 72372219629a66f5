-------------------------------- MODULE Fees --------------------------------
(***************************************************************************)
(* util/fraction.go and util/fee.go: fractions, the fee on an amount, and  *)
(* the shares of it.  A fraction is kept as it is written; only products   *)
(* are reduced, which changes no value and is left out.  Amounts are far   *)
(* below 2^63.                                                             *)
(***************************************************************************)
EXTENDS Integers, FiniteSetsExt

Fraction(n, d) == [num |-> n, den |-> d]
Fractions == [num : Nat, den : Nat \ {0}]
FractionInt(n) == Fraction(n, 1)

Lcm(x, y) == Min({m \in 1..(x * y) : m % x = 0 /\ m % y = 0})

Plus(x, y) ==
    LET den == Lcm(x.den, y.den)
    IN  Fraction(x.num * (den \div x.den) + y.num * (den \div y.den), den)

Minus(x, y) == Plus(x, [y EXCEPT !.num = -@])

LTE(x, y) == Minus(y, x).num >= 0

\* MulInt64 and Int64: towards zero, and no fraction here is negative.
MulInt64(x, n) == (x.num * n) \div x.den

\* What is left for burning when the proposer and the company have their shares.
ForBurning(ratios) == Minus(Minus(FractionInt(1), ratios.proposer), ratios.company)

\* validateTransactionFeeSplitRatios.  Its bound on RatiosLCM concerns overflow.
Valid(ratios) ==
    /\ ratios.proposer.num >= 0 /\ ratios.company.num >= 0
    /\ Minus(FractionInt(1), Plus(ratios.proposer, ratios.company)).num >= 0

\* CalculateTransactionFeeSplitRatiosLCM.
RatiosLCM(ratios) ==
    Lcm(Lcm(ratios.proposer.den, ratios.company.den), ForBurning(ratios).den)

\* Mutant of Splittable: no rounding.
SplittableMutant(fee, ratios) == fee

\* calculateSplittableFee: the greatest amount that can be shared exactly.
Splittable(fee, ratios) == fee - (fee % RatiosLCM(ratios))

\* CalculateFee; a maximum of 0 is none.
CalculateFee(amount, fraction, max, ratios) ==
    LET fee == MulInt64(fraction, amount)
    IN  Splittable(IF max # 0 /\ fee > max THEN max ELSE fee, ratios)

SplitFee(fee, ratios) ==
    [proposer |-> MulInt64(ratios.proposer, fee), company |-> MulInt64(ratios.company, fee),
     burning |-> MulInt64(ForBurning(ratios), fee)]
=============================================================================
