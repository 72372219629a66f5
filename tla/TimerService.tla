---------------------------- MODULE TimerService ----------------------------
(***************************************************************************)
(* What the other modules of the chain expect of x/schedule: a task handed *)
(* to it waits until the first block at or after its time and is then run  *)
(* once, unless it is withdrawn before that block.  Tasks run in the order *)
(* of their times, and those of one time in the order in which they were   *)
(* handed over.  No task disappears in any other way.                      *)
(***************************************************************************)
EXTENDS TaskStore, Sequences

CONSTANTS Handlers, Data

VARIABLES
    clock,      \* time of the current block
    waiting,    \* tasks accepted and neither run nor withdrawn
    ran,        \* tasks that have been run, in that order
    withdrawn   \* tasks the modules have taken back

timerVars == <<clock, waiting, ran, withdrawn>>

Init ==
    /\ clock = 0
    /\ waiting \in SUBSET Task(Handlers, Data)
    /\ ran = <<>>
    /\ withdrawn = {}

\* Modules hand tasks over; none may be due already.
Accept ==
    /\ waiting \subseteq waiting'
    /\ \A t \in waiting' \ waiting :
          t \in Task(Handlers, Data) /\ t.time > clock
    /\ UNCHANGED <<clock, ran, withdrawn>>

\* Modules take tasks back.
Withdraw ==
    /\ waiting' \subseteq waiting
    /\ withdrawn' = withdrawn \cup (waiting \ waiting')
    /\ UNCHANGED <<clock, ran>>

\* The next block begins: everything that was due has been run.
Advance ==
    /\ \A t \in waiting : t.time > clock
    /\ clock' \in Nat /\ clock' > clock
    /\ UNCHANGED <<waiting, ran, withdrawn>>

\* The first due task runs.
Run ==
    /\ \E t \in waiting :
          /\ t.time <= clock
          /\ \A s \in waiting : s # t => Before(t, s)
          /\ waiting' = waiting \ {t}
          /\ ran' = Append(ran, t)
    /\ UNCHANGED <<clock, withdrawn>>

Next == Accept \/ Withdraw \/ Advance \/ Run

Spec == Init /\ [][Next]_timerVars
=============================================================================
