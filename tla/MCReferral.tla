----------------------------- MODULE MCReferral -----------------------------
EXTENDS Referral, TLC

CONSTANTS root, ann, bob, cat  \* accounts

MCHoldings == {[coins |-> 0, delegated |-> 0], [coins |-> 2, delegated |-> 1],
               [coins |-> 3, delegated |-> 2]}

\* A second status for one active referral with one of his own and coins in the
\* lines; a third one for a team.
MCRequirement ==
    2 :> [coins |-> 2, lines |-> 2, count |-> 1, size |-> 1, teams |-> 0, leg |-> 0]
 @@ 3 :> [coins |-> 4, lines |-> 2, count |-> 1, size |-> 1, teams |-> 1, leg |-> 3]

Owned(x) == [coins |-> 2 + x, delegated |-> x]

\* A chain of four, all active; a small tree with an account still to come.
MCGenesis ==
    {[referrer |-> root :> None @@ ann :> root @@ bob :> ann @@ cat :> bob,
      active |-> {root, ann, bob, cat}, own |-> [x \in {root, ann, bob, cat} |-> Owned(IF x = cat THEN 2 ELSE 0)]],
     [referrer |-> root :> None @@ ann :> root @@ bob :> ann,
      active |-> {root, bob}, own |-> [x \in {root, ann, bob} |-> Owned(IF x = bob THEN 2 ELSE 0)]]}
=============================================================================
