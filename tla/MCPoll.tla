------------------------------- MODULE MCPoll -------------------------------
EXTENDS Poll

\* An informational poll, one that a single "yes" decides, one of two thirds.
MCQuorums == {NoQuorum, [num |-> 0, den |-> 1], [num |-> 2, den |-> 3]}
=============================================================================
