------------------------------- MODULE Blocks -------------------------------
(***************************************************************************)
(* What the proposals and the polls of x/voting have in common: the blocks *)
(* of the chain, and the tasks that x/schedule performs at their beginning. *)
(* The timer is the abstract one of x/schedule: due tasks run before the   *)
(* block's transactions.                                                   *)
(***************************************************************************)
EXTENDS TaskStore

CONSTANTS
    MaxGap, \* most time between two blocks
    MaxNow  \* bound: time of the last block

VARIABLES
    now,    \* time of the current block
    tasks   \* the tasks of x/schedule with the component's hook

\* Transactions are delivered after the due tasks have run.
Delivering == DueAt(tasks, now) = {}

\* The next block comes later than this one.
NextBlock ==
    /\ Delivering
    /\ \E gap \in 1..MaxGap : now + gap <= MaxNow /\ now' = now + gap
    /\ UNCHANGED tasks
=============================================================================
