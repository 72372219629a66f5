------------------------------ MODULE TaskStore ------------------------------
(***************************************************************************)
(* The task part of the store of x/schedule (keeper.taskStore), as a value *)
(* and the operators on it.                                                *)
(*                                                                         *)
(* In the code the store maps Key(time), the big-endian nanoseconds of a   *)
(* time, to the list of the tasks scheduled for that very time; a key whose *)
(* list is empty is absent.  Here the store is the set of all its tasks.   *)
(* A task carries the number of the call that scheduled it, so the list    *)
(* under a key is the tasks of that time in the order of their numbers and  *)
(* the order of a range scan is the order Before.  The number is not in    *)
(* the code's record and no operator compares it, except Before.           *)
(***************************************************************************)
EXTENDS Naturals

\* Task of x/schedule/types plus the ordinal of its scheduling.
Task(Handlers, Data) ==
    [id : Nat, time : Nat, handler : Handlers, data : Data]

\* Mutant of Put: the list of the time is replaced, not extended.
PutMutant(store, task) == {t \in store : t.time # task.time} \cup {task}

\* Keeper.scheduleTask: append the task to the list of its time.
Put(store, task) == store \cup {task}

\* Keeper.delete with the predicate of Delete: same key, event and payload.
Matching(store, time, event, payload) ==
    {t \in store : t.time = time /\ t.handler = event /\ t.data = payload}

Remove(store, time, event, payload) ==
    store \ Matching(store, time, event, payload)

\* Keeper.delete with the predicate of DeleteAll: same key and event.
RemoveAll(store, time, event) ==
    {t \in store : ~(t.time = time /\ t.handler = event)}

\* The order of a range scan: by key, then by position in the key's list.
Before(s, t) == s.time < t.time \/ (s.time = t.time /\ s.id < t.id)

\* Mutants of DueAt: the block's own time left out; no earlier time.
DueBeforeMutant(store, now) == {t \in store : t.time < now}
DueExactlyMutant(store, now) == {t \in store : t.time = now}

\* What PerformSchedule's iterator yields: every key below Key(now + 1ns).
DueAt(store, now) == {t \in store : t.time <= now}
=============================================================================
