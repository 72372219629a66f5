------------------------------ MODULE MCNoding ------------------------------
EXTENDS Noding

CONSTANTS k1, k2, k3, k4

Slice(num, den, power) == [part |-> Fraction(num, den), power |-> power]
TwoSlices == <<Slice(1, 2, 3), Slice(2, 4, 2)>>

\* Distributions of up to three slices, in fifths and sixths of the seats.
FifthsAndSixths ==
    {s \in UNION {[1..n -> {Slice(p, den, 1) : p \in 1..den}] : n \in 1..3, den \in {5, 6}} :
       ValidSlices(s)}

\* Keys of their own, two for the first account.
OwnKeys == <<{k1, k4}, {k2}, {k3}>>

\* The first two may both use one key.
SharedKeys == <<{k1}, {k1, k2}>>

GenesisOfTwo == {[a \in {1} |-> k1], <<k1, k2>>}
GenesisOfThree == {<<k1, k2, k3>>}
=============================================================================
