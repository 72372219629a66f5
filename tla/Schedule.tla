------------------------------ MODULE Schedule ------------------------------
(***************************************************************************)
(* x/schedule: the chain's timer.  Transactions and hooks put tasks into   *)
(* the task store and delete them; the BeginBlocker runs the hooks of the  *)
(* tasks that are due (Keeper.PerformSchedule).                            *)
(*                                                                         *)
(* PerformSchedule opens an iterator on a cachekv store over the task      *)
(* store.  The iterator is isolated from later writes, the hooks write to  *)
(* the store underneath, and the visited keys are deleted underneath only  *)
(* by the final Write.  So a pass works on a snapshot: what a hook deletes *)
(* from a visited key still runs, and what a hook adds to a visited key is *)
(* deleted by Write.  The model keeps the snapshot and the store apart.    *)
(*                                                                         *)
(* The hooks are the other modules' code.  Here a hook makes any calls of  *)
(* ScheduleTask, Delete and DeleteAll and then returns or panics; the      *)
(* recover of performSchedule keeps the writes made before a panic, so the *)
(* two ends are the same step.  All hooks of the chain schedule at least a *)
(* day after the time of their own task: MinDelay.                         *)
(***************************************************************************)
EXTENDS TaskStore, Sequences

CONSTANTS
    Handlers,    \* event names that occur in tasks
    Hooks,       \* event names AddHook was called with
    Data,        \* payloads
    MinDelay,    \* least delay, from its own time, a hook schedules a task with
    MaxGap,      \* most time between two blocks
    MaxNow,      \* bound: time of the last block
    MaxTime,     \* the latest time Key accepts
    MaxTasks,    \* bound: number of tasks ever scheduled
    GenesisTasks \* bound: number of tasks in the genesis file

\* Two blocks are never further apart than the least delay of a hook: the
\* chain does not halt for more than a day.
ShortGaps == MaxGap <= MinDelay

ASSUME ScheduleAssumption ==
    /\ Hooks \subseteq Handlers
    /\ MinDelay \in Nat /\ MaxGap \in Nat /\ MaxNow \in Nat
    /\ MaxTime \in Nat /\ MaxTasks \in Nat /\ GenesisTasks \in Nat

VARIABLES
    now,       \* ctx.BlockTime
    phase,     \* "txs": transactions; "scan": in PerformSchedule; "hook": in a hook
    store,     \* the task store
    snapshot,  \* what the pass's iterator was opened on
    due,       \* the part of the snapshot not visited yet
    cur,       \* the set of the task whose hook is running
    issued,    \* history: number of tasks ever scheduled
    log,       \* history: the tasks visited, in that order
    cancelled  \* history: tasks deleted before the pass that would run them

vars == <<now, phase, store, snapshot, due, cur, issued, log, cancelled>>

Times == 0..MaxTime

\* InitGenesis: any tasks of the genesis file, scheduled in the file's order.
\* The file was exported after the block of time 0, so all of them are later.
InitGenesis(n, f) ==
    store = {[id |-> i, time |-> f[i].time, handler |-> f[i].handler,
              data |-> f[i].data] : i \in 1..n}

Init ==
    /\ now = 0 /\ phase = "txs"
    /\ issued \in 0..GenesisTasks
    /\ \E f \in [1..issued -> [time : Times \ {0}, handler : Handlers, data : Data]] :
          InitGenesis(issued, f)
    /\ snapshot = {} /\ due = {} /\ cur = {}
    /\ log = <<>> /\ cancelled = {}

-----------------------------------------------------------------------------
\* Keeper.ScheduleTask; Key panics for a time out of range and nothing is stored.
ScheduleTask(time, event, payload) ==
    /\ issued < MaxTasks
    /\ time <= MaxTime
    /\ issued' = issued + 1
    /\ store' = Put(store, [id |-> issued + 1, time |-> time,
                            handler |-> event, data |-> payload])

\* Keeper.Delete.  A task of the running pass's snapshot is deleted too late.
Delete(time, event, payload) ==
    /\ store' = Remove(store, time, event, payload)
    /\ cancelled' = cancelled \cup ((store \ store') \ snapshot)

\* Keeper.DeleteAll.
DeleteAll(time, event) ==
    /\ store' = RemoveAll(store, time, event)
    /\ cancelled' = cancelled \cup ((store \ store') \ snapshot)

\* The calls a transaction makes: all of them schedule some hours, days or
\* months after the block's time.
TxSchedules ==
    /\ phase = "txs"
    /\ \E t \in (now + 1)..MaxTime, h \in Handlers, d \in Data : ScheduleTask(t, h, d)
    /\ UNCHANGED <<now, phase, snapshot, due, cur, log, cancelled>>

TxDeletes ==
    /\ phase = "txs"
    /\ \E t \in Times, h \in Handlers :
          DeleteAll(t, h) \/ \E d \in Data : Delete(t, h, d)
    /\ UNCHANGED <<now, phase, snapshot, due, cur, issued, log>>

-----------------------------------------------------------------------------
\* The next block: BeginBlocker enters PerformSchedule and opens the iterator.
BeginBlocker ==
    /\ phase = "txs"
    /\ \E gap \in 1..MaxGap : now + gap <= MaxNow /\ now' = now + gap
    /\ snapshot' = DueAt(store, now')
    /\ due' = snapshot'
    /\ phase' = "scan"
    /\ UNCHANGED <<store, cur, issued, log, cancelled>>

\* Mutant of First: the iterator runs backwards.
FirstMutant(t) == t \in due /\ \A s \in due : s # t => Before(s, t)

\* The iterator's next task.  Without a hook it is only logged.
First(t) == t \in due /\ \A s \in due : s # t => Before(t, s)

PerformTask ==
    /\ phase = "scan"
    /\ \E t \in due :
          /\ First(t)
          /\ due' = due \ {t}
          /\ log' = Append(log, t)
          /\ IF t.handler \in Hooks
             THEN phase' = "hook" /\ cur' = {t}
             ELSE phase' = "scan" /\ cur' = {}
    /\ UNCHANGED <<now, store, snapshot, issued, cancelled>>

\* The calls the running hook makes.
HookSchedules ==
    /\ phase = "hook"
    /\ \E c \in cur, t \in Times, h \in Handlers, d \in Data :
          t >= c.time + MinDelay /\ ScheduleTask(t, h, d)
    /\ UNCHANGED <<now, phase, snapshot, due, cur, log, cancelled>>

HookDeletes ==
    /\ phase = "hook"
    /\ \E t \in Times, h \in Handlers :
          DeleteAll(t, h) \/ \E d \in Data : Delete(t, h, d)
    /\ UNCHANGED <<now, phase, snapshot, due, cur, issued, log>>

\* The keys PerformSchedule deletes from its cachekv store.
VisitedKeys == {t.time : t \in snapshot}

\* Mutant of HookEnds: a panic ends the pass and not only the task.
HookEndsMutant ==
    /\ phase = "hook"
    /\ phase' = "txs" /\ cur' = {} /\ snapshot' = {} /\ due' = {}
    /\ store' = {t \in store : t.time \notin VisitedKeys}
    /\ UNCHANGED <<now, issued, log, cancelled>>

\* The hook returns, or panics and performSchedule recovers.
HookEnds ==
    /\ phase = "hook"
    /\ phase' = "scan" /\ cur' = {}
    /\ UNCHANGED <<now, store, snapshot, due, issued, log, cancelled>>

\* Mutant of EndPass: no Write.
EndPassUnwrittenMutant ==
    /\ phase = "scan" /\ due = {}
    /\ phase' = "txs" /\ snapshot' = {}
    /\ UNCHANGED <<now, store, due, cur, issued, log, cancelled>>

\* The iterator is exhausted: Write deletes every visited key underneath.
EndPass ==
    /\ phase = "scan" /\ due = {}
    /\ store' = {t \in store : t.time \notin VisitedKeys}
    /\ phase' = "txs" /\ snapshot' = {}
    /\ UNCHANGED <<now, due, cur, issued, log, cancelled>>

Next ==
    \/ TxSchedules \/ TxDeletes
    \/ BeginBlocker \/ PerformTask \/ EndPass
    \/ HookSchedules \/ HookDeletes \/ HookEnds

\* CometBFT keeps producing blocks and a block's processing terminates.
Fairness == WF_vars(BeginBlocker) /\ WF_vars(PerformTask \/ HookEnds \/ EndPass)

Safety == Init /\ [][Next]_vars
Spec == Safety /\ Fairness

-----------------------------------------------------------------------------
Visited == {log[i] : i \in DOMAIN log}

\* What still has to run: the rest of the pass, and what the store holds
\* outside of the pass's snapshot.
Waiting == due \cup (store \ snapshot)

TypeOK ==
    /\ now \in Nat
    /\ phase \in {"txs", "scan", "hook"}
    /\ store \subseteq Task(Handlers, Data)
    /\ snapshot \subseteq Task(Handlers, Data)
    /\ due \subseteq snapshot
    /\ cur \subseteq Task(Handlers, Data)
    /\ issued \in Nat
    /\ log \in Seq(Task(Handlers, Data))
    /\ cancelled \subseteq Task(Handlers, Data)

(***************************************************************************)
(* A task leaves the store only by having been run or deleted: the tasks   *)
(* that wait, that have been visited and that were deleted in time are     *)
(* together all that were ever scheduled.  This is what the comment of     *)
(* PerformSchedule promises ("removed from the store when complete").      *)
(***************************************************************************)
NoTaskLost ==
    {t.id : t \in Waiting \cup Visited \cup cancelled} = 1..issued

(***************************************************************************)
(* No task runs twice, and none runs that was deleted before its pass      *)
(* began, although PerformSchedule works on a copy of the store.           *)
(***************************************************************************)
AtMostOnce ==
    /\ \A i, j \in DOMAIN log : i # j => log[i].id # log[j].id
    /\ Waiting \cap (Visited \cup cancelled) = {}

(***************************************************************************)
(* Between two passes nothing in the store is due, so every task runs in   *)
(* the first block at or after its time (the scan's terminator is one      *)
(* nanosecond after the block's time, exclusive).                          *)
(***************************************************************************)
NothingOverdue == phase = "txs" => \A t \in store : t.time > now

(***************************************************************************)
(* Hooks run in the order of the times of their tasks, over all blocks,    *)
(* and in scheduling order within one time: delegating, referral and       *)
(* profile rely on the order of the chain of their own tasks.              *)
(***************************************************************************)
InOrder == \A i, j \in DOMAIN log : i < j => Before(log[i], log[j])

Timer == INSTANCE TimerService WITH
    clock <- now, waiting <- Waiting, ran <- log, withdrawn <- cancelled

(***************************************************************************)
(* x/schedule is the timer the other modules rely on.                      *)
(***************************************************************************)
ImplementsTimer == Timer!Spec

(***************************************************************************)
(* A task that is stored is eventually run or deleted.  (The clock is      *)
(* bounded, so only for the tasks due before the bound.)                   *)
(***************************************************************************)
EventuallyPerformed ==
    \A i \in 1..MaxTasks :
        (\E t \in store : t.id = i /\ t.time < MaxNow)
            ~> (\E t \in Visited \cup cancelled : t.id = i)
=============================================================================
