------------------------------- MODULE MCBank -------------------------------
EXTENDS Bank, TLC

CONSTANTS ann, bob  \* accounts

Accounts == Permutations(Users)

\* Shares with denominators that are equal, multiples or neither, not all of them
\* reduced, and shares that leave nothing to burn.
MCRatios ==
    {[proposer |-> Fraction(1, 2), company |-> Fraction(1, 4)],
     [proposer |-> Fraction(2, 4), company |-> Fraction(1, 2)],
     [proposer |-> Fraction(1, 3), company |-> Fraction(1, 3)],
     [proposer |-> Fraction(1, 2), company |-> Fraction(1, 3)]}

MCHalf == Fraction(1, 2)
MCRevokeBurns == {Fraction(0, 1), Fraction(1, 3)}
=============================================================================
