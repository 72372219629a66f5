---------------------------- MODULE MCDelegating ----------------------------
EXTENDS Delegating

\* The revocation takes two days, the express one takes one and burns half.
MCPeriod == [express \in BOOLEAN |-> IF express THEN 1 ELSE 2]
MCBurn == [express \in BOOLEAN |-> IF express THEN 50 ELSE 0]
=============================================================================
