----------------------------- MODULE Delegating -----------------------------
(***************************************************************************)
(* x/delegating on top of x/schedule.  Delegated coins earn interest once  *)
(* a day, by a task per account; a delegation or a revocation in between   *)
(* pays for the part of the day that has passed and starts a new day.      *)
(* Revoked coins are frozen and returned by another task.                  *)
(*                                                                         *)
(* Interest is followed by the time it has been paid for: amounts of the   *)
(* main denomination (interest, fees, shares of validators) are left out,  *)
(* and so is MissedPart, which no code sets any more.  An amount delegated *)
(* is what remains of it after the fee.  A record that is absent is one    *)
(* with no accrual and no requests.  The requests are a set: each carries  *)
(* the number of the task scheduled with it, which is not in the code.     *)
(*                                                                         *)
(* The scheduler is the one that module Schedule implements when blocks    *)
(* are no further apart than a day: the tasks due in a block are collected *)
(* when the pass begins and all run, whatever the hooks delete meanwhile.  *)
(***************************************************************************)
EXTENDS TaskStore, Integers, FiniteSetsExt

CONSTANTS
    Accounts,  \* those who delegate
    Amounts,   \* amounts delegated, revoked or confiscated in one step
    Day,       \* OneDay of x/schedule
    Period,    \* parameters revoke.period and express_revoke.period, in days
    Burn,      \* their burn, the percentage that is not returned
    Dust,      \* parameter dust_delegation of x/bank
    MaxGap,    \* most time between two blocks
    MaxNow,    \* bound: time of the last block
    MaxTxs,    \* bound: number of transactions, banishments, confiscations
    NoTime     \* the absent time

ASSUME DelegatingAssumption ==
    /\ Amounts \subseteq Nat \ {0}
    /\ Day \in Nat \ {0} /\ MaxGap \in 1..Day
    /\ Period \in [BOOLEAN -> Nat \ {0}] /\ Burn \in [BOOLEAN -> 0..100]
    /\ Dust \in Nat /\ MaxNow \in Nat /\ MaxTxs \in Nat
    /\ NoTime \notin Nat

VARIABLES
    now, phase, \* of the current block: "pass" of the schedule, or "txs"
    due,        \* tasks of the pass that have not run yet
    tasks,      \* the task store of x/schedule
    calls,      \* number of tasks scheduled so far
    delegated,  \* balances of the delegated denomination
    revoking,   \* balances of the revoking denomination
    next,       \* Record.NextAccrue
    requests,   \* Record.Requests
    txs,        \* number of transactions
    earning,    \* history variable: time spent with an accrual pending
    settled     \* history variable: the part of it that is settled, by a
                \* payment, or by none where the percentage is zero

balances == <<delegated, revoking>>
history == <<earning, settled>>
vars == <<now, phase, due, tasks, calls, balances, next, requests, txs, history>>

Init ==
    /\ now = 0 /\ phase = "txs"
    /\ due = {} /\ tasks = {} /\ calls = 0
    /\ delegated = [a \in Accounts |-> 0] /\ revoking = [a \in Accounts |-> 0]
    /\ next = [a \in Accounts |-> NoTime]
    /\ requests = [a \in Accounts |-> {}]
    /\ txs = 0
    /\ earning = [a \in Accounts |-> 0] /\ settled = [a \in Accounts |-> 0]

-----------------------------------------------------------------------------
\* ScheduleTask.
Scheduled(store, number, time, handler, a) ==
    Put(store, [id |-> number, time |-> time, handler |-> handler, data |-> a])

\* Mutant of AccruePartTasks: the task of the day that is broken off stays.
AccruePartTasksMutant(a) == tasks

\* accruePart: pay for the part of the day that has passed, drop its task.
AccruePartTasks(a) ==
    IF next[a] = NoTime THEN tasks ELSE Remove(tasks, next[a], "accrue", a)

\* Mutant of AccruePartTime: the whole day.
AccruePartTimeMutant(a) == IF next[a] = NoTime THEN 0 ELSE Day

AccruePartTime(a) == IF next[a] = NoTime THEN 0 ELSE now - (next[a] - Day)

\* What remains pending for a balance, and the task for it.
NextAccrue(balance) == IF balance <= Dust THEN NoTime ELSE now + Day

WithAccrual(store, a, balance) ==
    IF balance <= Dust THEN store
    ELSE Scheduled(store, calls, now + Day, "accrue", a)

\* Delegate, for a coin amount left after the fee.
Delegate(a, x) ==
    LET balance == delegated[a] + x
    IN  /\ phase = "txs" /\ txs < MaxTxs /\ txs' = txs + 1
        /\ settled' = [settled EXCEPT ![a] = @ + AccruePartTime(a)]
        /\ delegated' = [delegated EXCEPT ![a] = balance]
        /\ next' = [next EXCEPT ![a] = NextAccrue(balance)]
        /\ tasks' = WithAccrual(AccruePartTasks(a), a, balance)
        /\ calls' = calls + 1
        /\ UNCHANGED <<now, phase, due, revoking, requests, earning>>

\* The part of a revoked amount that will be returned.
Returned(x, express) == x - (Burn[express] * x) \div 100

\* Mutant of WithRevocation: the return is not scheduled.
WithRevocationMutant(store, time, a) == store

WithRevocation(store, time, a) == Scheduled(store, calls + 1, time, "revoke", a)

\* More than is delegated cannot be revoked.
MayRevoke(a, x) == x <= delegated[a]

\* Revoke: pay for the part of the day, freeze, and schedule the return.
Revoke(a, x, express) ==
    LET balance == delegated[a] - x
        frozen == Returned(x, express)
        time == now + Period[express] * Day
    IN  /\ MayRevoke(a, x) /\ txs < MaxTxs /\ txs' = txs + 1
        /\ settled' = [settled EXCEPT ![a] = @ + AccruePartTime(a)]
        /\ delegated' = [delegated EXCEPT ![a] = balance]
        /\ revoking' = [revoking EXCEPT ![a] = @ + frozen]
        /\ next' = [next EXCEPT ![a] = NextAccrue(balance)]
        /\ requests' = [requests EXCEPT ![a] =
                          @ \cup {[id |-> calls + 1, time |-> time, amount |-> frozen]}]
        /\ tasks' = WithRevocation(WithAccrual(AccruePartTasks(a), a, balance),
                                   time, a)
        /\ calls' = calls + 2
        /\ UNCHANGED <<now, phase, due, earning>>

\* The transactions MsgRevoke and MsgExpressRevoke.
RevokeTx(a, x, express) == phase = "txs" /\ Revoke(a, x, express)

\* OnBanished, called by x/referral in the middle of the pass.
OnBanished(a) ==
    phase = "pass" /\ delegated[a] # 0 /\ Revoke(a, delegated[a], FALSE)

\* x/noding takes a part of the stake of a wrongdoer, and tells nobody.  Its
\* BeginBlocker comes before the pass of x/schedule.
Confiscate(a, x) ==
    /\ phase = "txs" /\ x <= delegated[a] /\ txs < MaxTxs /\ txs' = txs + 1
    /\ delegated' = [delegated EXCEPT ![a] = @ - x]
    /\ UNCHANGED <<now, phase, due, tasks, calls, revoking, next, requests, history>>

-----------------------------------------------------------------------------
Sum(reqs) == MapThenSumSet(LAMBDA r : r.amount, reqs)

\* Mutant of Matured: the block's own time left out.
MaturedMutant(reqs) == {r \in reqs : r.time < now}

\* performRevoking returns every request whose time has come, not only that
\* of its task.
Matured(reqs) == {r \in reqs : r.time <= now}

\* Mutant of Kept: the record is not stored.
KeptMutant(reqs) == reqs

Kept(reqs) == reqs \ Matured(reqs)

MustPerformRevoking(a) ==
    /\ revoking' = [revoking EXCEPT ![a] = @ - Sum(Matured(requests[a]))]
    /\ requests' = [requests EXCEPT ![a] = Kept(@)]
    /\ UNCHANGED <<tasks, calls, delegated, next, settled>>

\* The accrual has been cancelled or moved since its task was collected; the
\* hook panics, which x/schedule recovers.
Stale(a, time) == next[a] # time

\* The percentage is zero: for dust always, and for other balances where the
\* table of parameter accrue_percentage_table says so.
DropAccrual(a) ==
    /\ next' = [next EXCEPT ![a] = NoTime]
    /\ settled' = [settled EXCEPT ![a] = @ + AccruePartTime(a)]
    /\ UNCHANGED <<tasks, calls>>

AccrueDay(a, time) ==
    /\ delegated[a] > Dust
    /\ next' = [next EXCEPT ![a] = time + Day]
    /\ settled' = [settled EXCEPT ![a] = @ + Day]
    /\ tasks' = Scheduled(tasks, calls, time + Day, "accrue", a)
    /\ calls' = calls + 1

MustPerformAccrue(a, time) ==
    /\ IF Stale(a, time) THEN UNCHANGED <<next, tasks, calls, settled>>
       ELSE DropAccrual(a) \/ AccrueDay(a, time)
    /\ UNCHANGED <<balances, requests>>

\* PerformSchedule: the next task of the pass.
PerformTask ==
    /\ phase = "pass"
    /\ \E t \in due :
         /\ \A u \in due : u = t \/ Before(t, u)
         /\ due' = due \ {t}
         /\ \/ t.handler = "accrue" /\ MustPerformAccrue(t.data, t.time)
            \/ t.handler = "revoke" /\ MustPerformRevoking(t.data)
    /\ UNCHANGED <<now, phase, txs, earning>>

EndPass ==
    /\ phase = "pass" /\ due = {}
    /\ phase' = "txs"
    /\ UNCHANGED <<now, due, tasks, calls, balances, next, requests, txs, history>>

\* The next block, up to the pass over what is due.
BeginBlock ==
    /\ phase = "txs"
    /\ \E gap \in 1..MaxGap :
         /\ now + gap <= MaxNow /\ now' = now + gap
         /\ earning' = [a \in Accounts |->
                          IF next[a] = NoTime THEN earning[a] ELSE earning[a] + gap]
    /\ phase' = "pass"
    /\ due' = DueAt(tasks, now') /\ tasks' = tasks \ due'
    /\ UNCHANGED <<calls, balances, next, requests, txs, settled>>

Next ==
    \/ \E a \in Accounts, x \in Amounts : Delegate(a, x)
    \/ \E a \in Accounts, x \in Amounts, e \in BOOLEAN : RevokeTx(a, x, e)
    \/ \E a \in Accounts, x \in Amounts : Confiscate(a, x)
    \/ \E a \in Accounts : OnBanished(a)
    \/ PerformTask
    \/ EndPass
    \/ BeginBlock

\* Blocks keep coming and their passes are finished.
Fairness == WF_vars(BeginBlock) /\ WF_vars(PerformTask) /\ WF_vars(EndPass)

Safety == Init /\ [][Next]_vars
Spec == Safety /\ Fairness

-----------------------------------------------------------------------------
Tasks == Task({"accrue", "revoke"}, Accounts)

TypeOK ==
    /\ now \in Nat /\ phase \in {"pass", "txs"}
    /\ due \subseteq Tasks /\ tasks \subseteq Tasks
    /\ calls \in Nat /\ txs \in Nat
    /\ delegated \in [Accounts -> Nat]
    /\ next \in [Accounts -> Nat \cup {NoTime}]
    /\ requests \in [Accounts -> SUBSET [id : Nat, time : Nat, amount : Nat]]
    /\ earning \in [Accounts -> Nat] /\ settled \in [Accounts -> Nat]

AccrueTasks(store, a) == {t \in store : t.handler = "accrue" /\ t.data = a}

\* The tasks that will accrue to a; what else the pass holds is stale.
Waiting(a) ==
    AccrueTasks(tasks, a) \cup {t \in AccrueTasks(due, a) : t.time = next[a]}

(***************************************************************************)
(* An account with an accrual pending has exactly one accrue task waiting, *)
(* at that time, in the store or in the pass; without one none waits.      *)
(***************************************************************************)
AccrualScheduled ==
    \A a \in Accounts :
      IF next[a] = NoTime THEN Waiting(a) = {}
      ELSE \E t \in Waiting(a) : Waiting(a) = {t} /\ t.time = next[a]

(***************************************************************************)
(* Every moment of a delegation is paid for once: what has been paid and   *)
(* what the pending accrual covers make up the time spent earning, however *)
(* delegations, revocations, banishments and accruals interleave.          *)
(***************************************************************************)
PaidOnce ==
    \A a \in Accounts :
      earning[a] = settled[a] + (IF next[a] = NoTime THEN 0
                                 ELSE now - (next[a] - Day))

(***************************************************************************)
(* The frozen coins of an account are exactly those of its requests: none  *)
(* is returned twice by two tasks of one pass, none remains.               *)
(***************************************************************************)
RevokingBacked == \A a \in Accounts : revoking[a] = Sum(requests[a])

(***************************************************************************)
(* Every request has a task waiting to return it at its time.              *)
(***************************************************************************)
ReturnScheduled ==
    \A a \in Accounts : \A r \in requests[a] :
      \E t \in tasks \cup due :
         t.handler = "revoke" /\ t.data = a /\ t.time = r.time

(***************************************************************************)
(* When transactions are delivered nothing is overdue: the pass has left   *)
(* behind no accrual and no return, in whatever order its tasks ran.       *)
(***************************************************************************)
NothingLeftBehind ==
    phase = "txs" => \A a \in Accounts :
                       /\ next[a] # NoTime => next[a] > now
                       /\ \A r \in requests[a] : r.time > now

(***************************************************************************)
(* Every revoked coin is returned at its time.  (The clock is bounded.)    *)
(***************************************************************************)
EventuallyReturned ==
    \A a \in Accounts, time \in 1..MaxNow :
      (\E r \in requests[a] : r.time = time) ~> (\A r \in requests[a] : r.time # time)
=============================================================================
