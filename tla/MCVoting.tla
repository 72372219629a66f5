------------------------------ MODULE MCVoting ------------------------------
EXTENDS Voting

CONSTANTS ann, bob, eve

\* Governments of one to three: three is the least size at which two thirds
\* are not everyone.
SmallGovernments == {<<ann>>, <<ann, bob>>, <<ann, bob, eve>>}
=============================================================================
