-------------------------- MODULE DelegatingProofs --------------------------
(***************************************************************************)
(* That x/delegating neither loses nor repeats an accrual or a return, for *)
(* every set of accounts, amounts, periods and number of transactions, as  *)
(* long as blocks are no further apart than a day (DelegatingAssumption).  *)
(***************************************************************************)
EXTENDS Delegating, NumberTheorems

(***************************************************************************)
(* What waits in the store lies ahead, and what the pass still has to run  *)
(* is late by less than a day: its next accrual lies ahead again.          *)
(***************************************************************************)
TimeInv ==
    /\ \A t \in tasks : t.time > now
    /\ \A t \in due : t.time <= now /\ t.time + Day > now
    /\ phase = "txs" => due = {}

IInv == TypeOK /\ TimeInv /\ AccrualScheduled /\ PaidOnce /\ ReturnScheduled

(***************************************************************************)
(* A new task of x/delegating is a task.                                   *)
(***************************************************************************)
LEMMA NewTask ==
    ASSUME NEW number \in Nat, NEW time \in Nat, NEW a \in Accounts,
           NEW handler \in {"accrue", "revoke"}
    PROVE  [id |-> number, time |-> time, handler |-> handler, data |-> a] \in Tasks
BY DEF Tasks, Task

(***************************************************************************)
(* The part of an amount that is returned is not negative: at most all of  *)
(* it is burnt (Revoke.Validate).                                          *)
(***************************************************************************)
LEMMA ReturnedNat ==
    ASSUME NEW x \in Nat, NEW e \in BOOLEAN PROVE Returned(x, e) \in Nat
<1> DEFINE b == Burn[e]
<1>1. b \in Int /\ 0 <= b /\ b <= 100
  BY DelegatingAssumption
<1>2. b * x \in Int /\ b * x <= 100 * x
  BY <1>1
<1>. HIDE DEF b
<1>3. (b * x) \div 100 \in Int /\ (b * x) \div 100 <= x
  BY <1>1, <1>2
<1>. QED  BY <1>3 DEF Returned, b

\* The chain starts with no delegation, no request and no task.
LEMMA InitIInv == Init => IInv
BY DelegatingAssumption
   DEF Init, IInv, TypeOK, TimeInv, AccrualScheduled, Waiting, AccrueTasks,
       PaidOnce, ReturnScheduled

(***************************************************************************)
(* Breaking the day off and starting a new one, as Delegate and Revoke do, *)
(* whatever tasks of other kinds R they schedule besides.                  *)
(***************************************************************************)
LEMMA NewDay ==
    ASSUME IInv, NEW a \in Accounts, NEW balance \in Nat, NEW R \in SUBSET Tasks,
           \A t \in R : t.handler = "revoke" /\ t.time > now,
           next' = [next EXCEPT ![a] = NextAccrue(balance)],
           tasks' = WithAccrual(AccruePartTasks(a), a, balance) \cup R,
           settled' = [settled EXCEPT ![a] = @ + AccruePartTime(a)],
           UNCHANGED <<now, phase, due, earning>>
    PROVE  /\ next' \in [Accounts -> Nat \cup {NoTime}]
           /\ settled' \in [Accounts -> Nat]
           /\ tasks' \subseteq Tasks
           /\ \A t \in tasks : t.handler = "revoke" => t \in tasks'
           /\ TimeInv' /\ AccrualScheduled' /\ PaidOnce'
<1>. USE DelegatingAssumption
<1> DEFINE new == [id |-> calls, time |-> now + Day, handler |-> "accrue", data |-> a]
<1>0. now \in Nat /\ calls \in Nat /\ now + Day \in Nat
  BY DEF IInv, TypeOK
<1>1. new \in Tasks /\ new.time = now + Day /\ new.handler = "accrue" /\ new.data = a
  BY <1>0, NewTask
<1>2. WithAccrual(AccruePartTasks(a), a, balance)
        = IF balance <= Dust THEN AccruePartTasks(a) ELSE AccruePartTasks(a) \cup {new}
  BY DEF WithAccrual, Scheduled, Put
<1>. HIDE DEF new
<1>3. /\ AccruePartTasks(a) \subseteq tasks
      /\ \A t \in tasks : t \notin AccruePartTasks(a)
                           => t.handler = "accrue" /\ t.data = a
  BY DEF AccruePartTasks, Remove, Matching
<1>4. AccrueTasks(AccruePartTasks(a), a) = {}
  BY DEF AccruePartTasks, Remove, Matching, AccrueTasks, IInv, AccrualScheduled, Waiting
<1>5. tasks' \subseteq Tasks /\ \A t \in tasks : t.handler = "revoke" => t \in tasks'
  BY <1>1, <1>2, <1>3 DEF IInv, TypeOK
<1>6. next' \in [Accounts -> Nat \cup {NoTime}]
  BY DEF NextAccrue, IInv, TypeOK
<1>7. settled[a] + AccruePartTime(a) = earning[a] /\ earning[a] \in Nat
  BY DEF AccruePartTime, IInv, TypeOK, PaidOnce
<1>8. settled' \in [Accounts -> Nat]
  BY <1>7 DEF IInv, TypeOK
<1>9. TimeInv'
  BY <1>0, <1>1, <1>2, <1>3 DEF IInv, TimeInv
<1>10. PaidOnce'
  <2>. SUFFICES ASSUME NEW b \in Accounts
       PROVE  earning[b] = settled'[b] + (IF next'[b] = NoTime THEN 0
                                          ELSE now - (next'[b] - Day))
    BY DEF PaidOnce
  <2>1. CASE b = a
    BY <2>1, <1>0, <1>7 DEF NextAccrue, IInv, TypeOK
  <2>2. CASE b # a
    BY <2>2 DEF IInv, TypeOK, PaidOnce
  <2>. QED  BY <2>1, <2>2
<1>11. AccrualScheduled'
  <2>. SUFFICES ASSUME NEW b \in Accounts
       PROVE  IF next'[b] = NoTime THEN Waiting(b)' = {}
              ELSE \E t \in Waiting(b)' : Waiting(b)' = {t} /\ t.time = next'[b]
    BY DEF AccrualScheduled
  <2>1. CASE b = a /\ balance <= Dust
    BY <2>1, <1>2, <1>4 DEF Waiting, AccrueTasks, NextAccrue, IInv, TypeOK, Tasks, Task
  <2>2. CASE b = a /\ ~(balance <= Dust)
    <3>1. next'[a] = now + Day
      BY <2>2 DEF NextAccrue, IInv, TypeOK
    <3>2. \A t \in due : t.time # now + Day
      BY <1>0 DEF IInv, TypeOK, TimeInv, Tasks, Task
    <3>3. Waiting(a)' = {new}
      BY <2>2, <3>1, <3>2, <1>1, <1>2, <1>4 DEF Waiting, AccrueTasks
    <3>. QED  BY <2>2, <3>1, <3>3, <1>0, <1>1
  <2>3. CASE b # a
    <3>1. next'[b] = next[b]
      BY <2>3 DEF IInv, TypeOK
    <3>2. Waiting(b)' = Waiting(b)
      BY <2>3, <3>1, <1>1, <1>2, <1>3 DEF Waiting, AccrueTasks
    <3>. QED  BY <3>1, <3>2 DEF IInv, AccrualScheduled
  <2>. QED  BY <2>1, <2>2, <2>3
<1>. QED  BY <1>5, <1>6, <1>8, <1>9, <1>10, <1>11

-----------------------------------------------------------------------------
\* Delegate: the part of the day is paid and a new day started.
LEMMA DelegateStep ==
    ASSUME IInv, NEW a \in Accounts, NEW x \in Amounts, Delegate(a, x)
    PROVE  IInv'
<1>. USE DelegatingAssumption
<1> DEFINE balance == delegated[a] + x
<1>1. balance \in Nat
  BY DEF IInv, TypeOK
<1>2. /\ next' = [next EXCEPT ![a] = NextAccrue(balance)]
      /\ tasks' = WithAccrual(AccruePartTasks(a), a, balance) \cup {}
      /\ settled' = [settled EXCEPT ![a] = @ + AccruePartTime(a)]
      /\ UNCHANGED <<now, phase, due, earning>>
  BY DEF Delegate
<1>3. /\ next' \in [Accounts -> Nat \cup {NoTime}]
      /\ settled' \in [Accounts -> Nat]
      /\ tasks' \subseteq Tasks
      /\ \A t \in tasks : t.handler = "revoke" => t \in tasks'
      /\ TimeInv' /\ AccrualScheduled' /\ PaidOnce'
  <2> DEFINE R == {}
  <2>1. R \in SUBSET Tasks /\ \A t \in R : t.handler = "revoke" /\ t.time > now
    OBVIOUS
  <2>2. tasks' = WithAccrual(AccruePartTasks(a), a, balance) \cup R
    BY <1>2
  <2>. HIDE DEF balance, R
  <2>. QED  BY <2>1, <2>2, <1>1, <1>2, NewDay
<1>4. TypeOK'
  BY <1>1, <1>3 DEF Delegate, IInv, TypeOK
<1>5. ReturnScheduled'
  BY <1>3 DEF Delegate, IInv, ReturnScheduled
<1>. QED  BY <1>3, <1>4, <1>5 DEF IInv

\* Revoke, by a transaction or in the middle of the pass (OnBanished).
LEMMA RevokeStep ==
    ASSUME IInv, NEW a \in Accounts, NEW x \in Nat, NEW e \in BOOLEAN,
           Revoke(a, x, e)
    PROVE  IInv'
<1>. USE DelegatingAssumption
<1> DEFINE balance == delegated[a] - x
           time == now + Period[e] * Day
           request == [id |-> calls + 1, time |-> time, amount |-> Returned(x, e)]
           task == [id |-> calls + 1, time |-> time, handler |-> "revoke", data |-> a]
<1>1. balance \in Nat
  BY DEF Revoke, MayRevoke, IInv, TypeOK
<1>2. time \in Nat /\ time > now
  <2>1. now \in Nat /\ Period[e] \in Nat \ {0} /\ Day \in Nat \ {0}
    BY DEF IInv, TypeOK
  <2>2. \A p \in Nat \ {0}, d \in Nat \ {0} : p * d \in Nat /\ p * d > 0
    OBVIOUS
  <2>. QED  BY <2>1, <2>2
<1>. HIDE DEF time
<1>3. calls + 1 \in Nat /\ request \in [id : Nat, time : Nat, amount : Nat]
  BY <1>2, ReturnedNat DEF IInv, TypeOK
<1>4. task \in Tasks /\ task.time = time /\ task.handler = "revoke" /\ task.data = a
  BY <1>2, <1>3, NewTask
<1>5. /\ next' = [next EXCEPT ![a] = NextAccrue(balance)]
      /\ tasks' = WithAccrual(AccruePartTasks(a), a, balance) \cup {task}
      /\ settled' = [settled EXCEPT ![a] = @ + AccruePartTime(a)]
      /\ UNCHANGED <<now, phase, due, earning>>
  BY DEF Revoke, WithRevocation, Scheduled, Put, time
<1>6. requests' = [requests EXCEPT ![a] = @ \cup {request}]
  BY DEF Revoke, time
<1>7. /\ next' \in [Accounts -> Nat \cup {NoTime}]
      /\ settled' \in [Accounts -> Nat]
      /\ tasks' \subseteq Tasks
      /\ \A t \in tasks : t.handler = "revoke" => t \in tasks'
      /\ TimeInv' /\ AccrualScheduled' /\ PaidOnce'
  <2>1. \A t \in {task} : t.handler = "revoke" /\ t.time > now
    BY <1>2, <1>4
  <2>2. {task} \in SUBSET Tasks
    BY <1>4
  <2>. HIDE DEF balance, task
  <2>. QED  BY <2>1, <2>2, <1>1, <1>5, NewDay
<1>8. TypeOK'
  <2>1. requests' \in [Accounts -> SUBSET [id : Nat, time : Nat, amount : Nat]]
    <3>. HIDE DEF request
    <3>. QED  BY <1>3, <1>6 DEF IInv, TypeOK
  <2>2. delegated' \in [Accounts -> Nat] /\ calls' \in Nat /\ txs' \in Nat
    BY <1>1 DEF Revoke, IInv, TypeOK
  <2>. QED  BY <2>1, <2>2, <1>5, <1>7 DEF IInv, TypeOK
<1>9. ReturnScheduled'
  <2>. SUFFICES ASSUME NEW b \in Accounts, NEW r \in requests'[b]
       PROVE  \E t \in tasks' \cup due' :
                 t.handler = "revoke" /\ t.data = b /\ t.time = r.time
    BY DEF ReturnScheduled
  <2>1. CASE b = a /\ r = request
    BY <2>1, <1>4, <1>5
  <2>2. CASE ~(b = a /\ r = request)
    <3>1. r \in requests[b]
      BY <2>2, <1>6 DEF IInv, TypeOK
    <3>. QED  BY <3>1, <1>5, <1>7 DEF IInv, ReturnScheduled
  <2>. QED  BY <2>1, <2>2
<1>. QED  BY <1>7, <1>8, <1>9 DEF IInv

\* A confiscation by x/noding, which leaves the record as it is.
LEMMA ConfiscateStep ==
    ASSUME IInv, NEW a \in Accounts, NEW x \in Amounts, Confiscate(a, x)
    PROVE  IInv'
<1>1. TypeOK'
  BY DelegatingAssumption DEF Confiscate, history, IInv, TypeOK
<1>. QED
  BY <1>1 DEF Confiscate, history, IInv, TimeInv, AccrualScheduled, Waiting,
              AccrueTasks, PaidOnce, ReturnScheduled

\* MustPerformAccrue: stale, nothing to pay, and a whole day.
LEMMA AccrueStep ==
    ASSUME IInv, NEW t \in due, \A u \in due : u = t \/ Before(t, u),
           t.handler = "accrue", due' = due \ {t}, phase = "pass",
           MustPerformAccrue(t.data, t.time), UNCHANGED <<now, phase, txs, earning>>
    PROVE  IInv'
<1>. USE DelegatingAssumption
<1> DEFINE a == t.data
           new == [id |-> calls, time |-> t.time + Day, handler |-> "accrue", data |-> a]
<1>1. /\ t \in Tasks /\ a \in Accounts /\ t.time \in Nat /\ now \in Nat
      /\ t.time <= now /\ t.time + Day > now /\ t.time + Day \in Nat /\ calls \in Nat
  BY DEF IInv, TypeOK, TimeInv, Tasks, Task
<1>2. new \in Tasks /\ new.time = t.time + Day /\ new.handler = "accrue" /\ new.data = a
  BY <1>1, NewTask
<1>3. UNCHANGED <<balances, requests>>
  BY DEF MustPerformAccrue
<1>4. CASE Stale(a, t.time)
  <2>1. UNCHANGED <<next, tasks, calls, settled>>
    BY <1>4 DEF MustPerformAccrue
  <2>2. \A b \in Accounts : Waiting(b)' = Waiting(b)
    BY <2>1, <1>4 DEF Waiting, AccrueTasks, Stale
  <2>3. AccrualScheduled'
    BY <2>1, <2>2 DEF IInv, AccrualScheduled
  <2>. QED
    BY <2>1, <2>3, <1>3 DEF balances, IInv, TypeOK, TimeInv, PaidOnce, ReturnScheduled
<1>5. CASE ~Stale(a, t.time)
  <2>1. next[a] = t.time /\ next[a] # NoTime
    BY <1>1, <1>5 DEF Stale
  <2>2. Waiting(a) = {t}
    BY <2>1, <1>1 DEF IInv, AccrualScheduled, Waiting, AccrueTasks
  <2>3. settled[a] + AccruePartTime(a) = earning[a] /\ earning[a] \in Nat
    BY <1>1 DEF AccruePartTime, IInv, TypeOK, PaidOnce
  <2>4. AccrueTasks(tasks, a) = {} /\ t \notin tasks
    BY <2>2, <1>1 DEF Waiting, AccrueTasks, IInv, TypeOK, TimeInv
  <2>5. CASE DropAccrual(a)
    <3>1. /\ next' = [next EXCEPT ![a] = NoTime]
          /\ settled' = [settled EXCEPT ![a] = @ + AccruePartTime(a)]
          /\ UNCHANGED <<tasks, calls>>
      BY <2>5 DEF DropAccrual
    <3>2. TypeOK'
      BY <3>1, <2>3, <1>3 DEF balances, IInv, TypeOK
    <3>3. PaidOnce'
      BY <3>1, <2>3, <1>1 DEF IInv, TypeOK, PaidOnce
    <3>4. \A b \in Accounts : b # a => Waiting(b)' = Waiting(b)
      BY <3>1 DEF Waiting, AccrueTasks, IInv, TypeOK
    <3>5. Waiting(a)' = {}
      BY <3>1, <2>4, <1>1 DEF Waiting, AccrueTasks, IInv, TypeOK, Tasks, Task
    <3>6. AccrualScheduled'
      BY <3>1, <3>4, <3>5, <1>1 DEF IInv, TypeOK, AccrualScheduled
    <3>. QED
      BY <3>1, <3>2, <3>3, <3>6, <1>3 DEF IInv, TimeInv, ReturnScheduled
  <2>6. CASE AccrueDay(a, t.time)
    <3>1. /\ next' = [next EXCEPT ![a] = t.time + Day]
          /\ settled' = [settled EXCEPT ![a] = @ + Day]
          /\ tasks' = tasks \cup {new}
          /\ calls' = calls + 1
      BY <2>6 DEF AccrueDay, Scheduled, Put
    <3>. HIDE DEF new
    <3>2. TypeOK'
      BY <3>1, <1>1, <1>2, <1>3 DEF balances, IInv, TypeOK
    <3>3. PaidOnce'
      <4>. SUFFICES ASSUME NEW b \in Accounts
           PROVE  earning[b] = settled'[b] + (IF next'[b] = NoTime THEN 0
                                              ELSE now - (next'[b] - Day))
        BY DEF PaidOnce
      <4>1. CASE b = a
        BY <4>1, <3>1, <2>1, <1>1 DEF IInv, TypeOK, PaidOnce
      <4>2. CASE b # a
        BY <4>2, <3>1, <1>1 DEF IInv, TypeOK, PaidOnce
      <4>. QED  BY <4>1, <4>2
    <3>4. \A b \in Accounts : b # a => Waiting(b)' = Waiting(b)
      BY <3>1, <1>1, <1>2 DEF Waiting, AccrueTasks, IInv, TypeOK
    <3>5. Waiting(a)' = {new} /\ next'[a] = t.time + Day
      BY <3>1, <2>4, <1>1, <1>2 DEF Waiting, AccrueTasks, IInv, TypeOK, TimeInv
    <3>6. AccrualScheduled'
      <4>. SUFFICES ASSUME NEW b \in Accounts
           PROVE  IF next'[b] = NoTime THEN Waiting(b)' = {}
                  ELSE \E u \in Waiting(b)' : Waiting(b)' = {u} /\ u.time = next'[b]
        BY DEF AccrualScheduled
      <4>1. CASE b = a
        BY <4>1, <3>5, <1>1, <1>2
      <4>2. CASE b # a
        BY <4>2, <3>1, <3>4, <1>1 DEF IInv, TypeOK, AccrualScheduled
      <4>. QED  BY <4>1, <4>2
    <3>7. TimeInv'
      BY <3>1, <1>1, <1>2 DEF IInv, TimeInv
    <3>8. ReturnScheduled'
      BY <3>1, <1>3 DEF IInv, ReturnScheduled
    <3>. QED  BY <3>2, <3>3, <3>6, <3>7, <3>8 DEF IInv
  <2>. QED  BY <2>5, <2>6, <1>5 DEF MustPerformAccrue
<1>. QED  BY <1>4, <1>5

\* MustPerformRevoking: what remains has a task of its own, still to run.
LEMMA RevokingStep ==
    ASSUME IInv, NEW t \in due, t.handler = "revoke", due' = due \ {t},
           phase = "pass", MustPerformRevoking(t.data),
           UNCHANGED <<now, phase, txs, earning>>
    PROVE  IInv'
<1> DEFINE a == t.data
<1>1. t \in Tasks /\ a \in Accounts /\ t.time \in Nat /\ now \in Nat /\ t.time <= now
  BY DEF IInv, TypeOK, TimeInv, Tasks, Task
<1>2. /\ requests' = [requests EXCEPT ![a] = Kept(@)]
      /\ UNCHANGED <<tasks, calls, delegated, next, settled>>
  BY DEF MustPerformRevoking
<1>3. TypeOK'
  BY <1>1, <1>2 DEF Kept, Matured, IInv, TypeOK
<1>4. TimeInv' /\ PaidOnce'
  BY <1>2 DEF IInv, TimeInv, PaidOnce
<1>5. \A b \in Accounts : Waiting(b)' = Waiting(b)
  BY <1>2 DEF Waiting, AccrueTasks
<1>6. AccrualScheduled'
  BY <1>2, <1>5 DEF IInv, AccrualScheduled
<1>7. ReturnScheduled'
  <2>. SUFFICES ASSUME NEW b \in Accounts, NEW r \in requests'[b]
       PROVE  \E u \in tasks' \cup due' :
                 u.handler = "revoke" /\ u.data = b /\ u.time = r.time
    BY DEF ReturnScheduled
  <2>1. r \in requests[b] /\ r.time \in Nat /\ (b = a => ~(r.time <= now))
    BY <1>1, <1>2 DEF Kept, Matured, IInv, TypeOK
  <2>2. PICK u \in tasks \cup due :
                u.handler = "revoke" /\ u.data = b /\ u.time = r.time
    BY <2>1 DEF IInv, ReturnScheduled
  <2>3. u # t
    BY <1>1, <2>1, <2>2
  <2>. QED  BY <1>2, <2>2, <2>3
<1>. QED  BY <1>3, <1>4, <1>6, <1>7 DEF IInv

\* The end of the pass of PerformSchedule.
LEMMA EndPassStep ==
    ASSUME IInv, EndPass PROVE IInv'
BY DEF EndPass, balances, history, IInv, TypeOK, TimeInv, AccrualScheduled,
       Waiting, AccrueTasks, PaidOnce, ReturnScheduled

\* A new block, no more than a day after the last: its due tasks are late by
\* less than a day.
LEMMA BeginBlockStep ==
    ASSUME IInv, BeginBlock PROVE IInv'
<1>. USE DelegatingAssumption
<1>1. PICK gap \in 1..MaxGap :
        /\ now' = now + gap
        /\ earning' = [a \in Accounts |->
                         IF next[a] = NoTime THEN earning[a] ELSE earning[a] + gap]
  BY DEF BeginBlock
<1>2. /\ now \in Nat /\ now' \in Nat /\ now < now' /\ now' <= now + Day
      /\ gap \in Nat /\ Day \in Nat
  BY <1>1 DEF IInv, TypeOK
<1>3. due = {} /\ tasks' \cup due' = tasks /\ phase' = "pass"
      /\ due' = {t \in tasks : t.time <= now'} /\ tasks' = tasks \ due'
  BY DEF BeginBlock, DueAt, IInv, TimeInv
<1>4. UNCHANGED <<calls, delegated, next, requests, txs, settled>>
  BY DEF BeginBlock, balances
<1>5. TypeOK'
  BY <1>1, <1>2, <1>3, <1>4 DEF IInv, TypeOK
<1>6. TimeInv'
  <2>1. \A t \in tasks : t.time \in Nat /\ t.time > now
    BY DEF IInv, TypeOK, TimeInv, Tasks, Task
  <2>2. \A t \in tasks' : t.time > now'
    BY <2>1, <1>2, <1>3
  <2>3. \A t \in due' : t.time <= now' /\ t.time + Day > now'
    <3>1. \A n \in Nat : n > now => n + Day > now'
      BY <1>2
    <3>. QED  BY <2>1, <3>1, <1>3
  <2>. QED  BY <2>2, <2>3, <1>3 DEF TimeInv
<1>7. \A a \in Accounts : Waiting(a)' = Waiting(a)
  BY <1>2, <1>3, <1>4 DEF Waiting, AccrueTasks, IInv, TypeOK, AccrualScheduled
<1>8. AccrualScheduled'
  BY <1>4, <1>7 DEF IInv, AccrualScheduled
<1>9. PaidOnce'
  BY <1>1, <1>2, <1>4 DEF IInv, TypeOK, PaidOnce
<1>10. ReturnScheduled'
  BY <1>3, <1>4 DEF IInv, ReturnScheduled
<1>. QED  BY <1>5, <1>6, <1>8, <1>9, <1>10 DEF IInv

\* Every step of the chain preserves the invariant.
LEMMA NextIInv == IInv /\ [Next]_vars => IInv'
<1>. SUFFICES ASSUME IInv, [Next]_vars PROVE IInv'
  OBVIOUS
<1>1. ASSUME NEW a \in Accounts, NEW x \in Amounts, Delegate(a, x) PROVE IInv'
  BY <1>1, DelegateStep
<1>2. ASSUME NEW a \in Accounts, NEW x \in Amounts, NEW e \in BOOLEAN,
             RevokeTx(a, x, e)
      PROVE  IInv'
  BY <1>2, RevokeStep, DelegatingAssumption DEF RevokeTx
<1>3. ASSUME NEW a \in Accounts, NEW x \in Amounts, Confiscate(a, x) PROVE IInv'
  BY <1>3, ConfiscateStep
<1>4. ASSUME NEW a \in Accounts, OnBanished(a) PROVE IInv'
  <2>1. delegated[a] \in Nat /\ Revoke(a, delegated[a], FALSE)
    BY <1>4 DEF OnBanished, IInv, TypeOK
  <2>. QED  BY <2>1, RevokeStep
<1>5. CASE PerformTask
  <2>. PICK t \in due :
         /\ \A u \in due : u = t \/ Before(t, u)
         /\ due' = due \ {t}
         /\ \/ t.handler = "accrue" /\ MustPerformAccrue(t.data, t.time)
            \/ t.handler = "revoke" /\ MustPerformRevoking(t.data)
    BY <1>5 DEF PerformTask
  <2>1. phase = "pass" /\ UNCHANGED <<now, phase, txs, earning>>
    BY <1>5 DEF PerformTask
  <2>. QED  BY <2>1, AccrueStep, RevokingStep
<1>6. CASE EndPass
  BY <1>6, EndPassStep
<1>7. CASE BeginBlock
  BY <1>7, BeginBlockStep
<1>8. CASE UNCHANGED vars
  BY <1>8 DEF vars, balances, history, IInv, TypeOK, TimeInv, AccrualScheduled,
              Waiting, AccrueTasks, PaidOnce, ReturnScheduled
<1>. QED  BY <1>1, <1>2, <1>3, <1>4, <1>5, <1>6, <1>7, <1>8 DEF Next

(***************************************************************************)
(* The inductive invariant holds in every state that x/delegating reaches. *)
(***************************************************************************)
THEOREM Inductive == Safety => []IInv
BY InitIInv, NextIInv, PTL DEF Safety

(***************************************************************************)
(* Types: in particular no balance of delegated coins is ever negative and *)
(* no time is missing where one is needed.                                 *)
(***************************************************************************)
THEOREM DelegatingTypeCorrect == Safety => []TypeOK
<1>1. IInv => TypeOK
  BY DEF IInv
<1>. QED  BY <1>1, Inductive, PTL

(***************************************************************************)
(* The accrual of an account has exactly one task: Delegate, Revoke and    *)
(* the hook of x/delegating leave neither none nor two behind.             *)
(***************************************************************************)
THEOREM OneAccrualTask == Safety => []AccrualScheduled
<1>1. IInv => AccrualScheduled
  BY DEF IInv
<1>. QED  BY <1>1, Inductive, PTL

(***************************************************************************)
(* accruePart and MustPerformAccrue together settle every moment of a      *)
(* delegation exactly once.                                                *)
(***************************************************************************)
THEOREM SettledOnce == Safety => []PaidOnce
<1>1. IInv => PaidOnce
  BY DEF IInv
<1>. QED  BY <1>1, Inductive, PTL

(***************************************************************************)
(* Every request of Revoke has a task that will return it.                 *)
(***************************************************************************)
THEOREM EveryReturnScheduled == Safety => []ReturnScheduled
<1>1. IInv => ReturnScheduled
  BY DEF IInv
<1>. QED  BY <1>1, Inductive, PTL

(***************************************************************************)
(* The pass of a block leaves no accrual and no return overdue.            *)
(***************************************************************************)
THEOREM NothingOverdue == Safety => []NothingLeftBehind
<1>1. IInv => NothingLeftBehind
  <2>. SUFFICES ASSUME IInv, phase = "txs", NEW a \in Accounts
       PROVE  /\ next[a] # NoTime => next[a] > now
              /\ \A r \in requests[a] : r.time > now
    BY DEF NothingLeftBehind
  <2>1. due = {} /\ \A t \in tasks : t.time > now
    BY DEF IInv, TimeInv
  <2>2. next[a] # NoTime => next[a] > now
    BY <2>1 DEF IInv, AccrualScheduled, Waiting, AccrueTasks
  <2>3. \A r \in requests[a] : r.time > now
    BY <2>1 DEF IInv, ReturnScheduled
  <2>. QED  BY <2>2, <2>3
<1>. QED  BY <1>1, Inductive, PTL

-----------------------------------------------------------------------------
(* The frozen coins.  A new request is not among those there are, because  *)
(* its task is, and so it adds to their sum; what is returned is the sum   *)
(* of what has matured, and the rest is that of what has not.              *)

AllRequests == [id : Nat, time : Nat, amount : Nat]
Amount == [r \in AllRequests |-> r.amount]

RequestsNumbered ==
    \A a \in Accounts :
      IsFiniteSet(requests[a]) /\ \A r \in requests[a] : r.id <= calls

RInv == IInv /\ revoking \in [Accounts -> Int] /\ RequestsNumbered /\ RevokingBacked

\* Sum is the sum.
LEMMA SumOfRequests ==
    ASSUME NEW reqs \in SUBSET AllRequests, IsFiniteSet(reqs)
    PROVE  Sum(reqs) = SumOver(Amount, reqs) /\ Sum(reqs) \in Nat
<1> DEFINE IsIter(g) == g = [s \in SUBSET reqs |->
                          IF s = {} THEN 0
                          ELSE (CHOOSE x \in s : TRUE).amount
                                 + g[s \ {CHOOSE x \in s : TRUE}]]
           iter == CHOOSE g : IsIter(g)
<1>1. \A g : SumsFrom(g, Amount, reqs) <=> IsIter(g)
  <2>1. ASSUME NEW s \in SUBSET reqs, s # {}
        PROVE  Amount[Pick(s)] = (CHOOSE x \in s : TRUE).amount
    BY <2>1, PickInSet DEF Pick, Amount
  <2>. QED  BY <2>1 DEF SumsFrom, Pick
<1>2. IsIter(iter)
  <2>. HIDE DEF IsIter
  <2>1. SumsFrom(SumsOf(Amount, reqs), Amount, reqs)
    BY SumsExist
  <2>2. \E g : IsIter(g)
    BY <1>1, <2>1
  <2>. QED  BY <2>2
<1>3. Sum(reqs) = iter[reqs]
  BY DEF Sum, MapThenSumSet, MapThenFoldSet
<1>. HIDE DEF iter, IsIter
<1>4. iter[reqs] = SumOver(Amount, reqs)
  BY <1>1, <1>2, SumUnique
<1>5. \A r \in reqs : Amount[r] \in Nat
  BY DEF Amount, AllRequests
<1>6. SumOver(Amount, reqs) \in Nat
  BY <1>5, SumType
<1>. QED  BY <1>3, <1>4, <1>6

\* One request more.
LEMMA SumOfOneMore ==
    ASSUME NEW reqs \in SUBSET AllRequests, IsFiniteSet(reqs),
           NEW r \in AllRequests, r \notin reqs
    PROVE  IsFiniteSet(reqs \cup {r}) /\ Sum(reqs \cup {r}) = Sum(reqs) + r.amount
<1> DEFINE more == reqs \cup {r}
<1>1. more \in SUBSET AllRequests /\ IsFiniteSet(more)
  BY FS_AddElement
<1>2. \A x \in reqs \cup {r} : Amount[x] \in Int
  BY DEF Amount, AllRequests
<1>3. SumOver(Amount, reqs \cup {r}) = SumOver(Amount, reqs) + Amount[r]
  BY <1>2, SumAdd
<1>4. Amount[r] = r.amount
  BY DEF Amount
<1>5. SumOver(Amount, more) = SumOver(Amount, reqs) + r.amount
  BY <1>3, <1>4
<1>. HIDE DEF more
<1>6. Sum(more) = SumOver(Amount, more) /\ Sum(reqs) = SumOver(Amount, reqs)
  BY <1>1, SumOfRequests
<1>. QED  BY <1>1, <1>5, <1>6 DEF more

\* What has matured, and what has not.
LEMMA SumOfKept ==
    ASSUME NEW reqs \in SUBSET AllRequests, IsFiniteSet(reqs)
    PROVE  IsFiniteSet(Kept(reqs)) /\ Sum(Kept(reqs)) = Sum(reqs) - Sum(Matured(reqs))
<1> DEFINE m == Matured(reqs)
           k == Kept(reqs)
<1>1. m \subseteq reqs /\ k \subseteq reqs /\ m \cap k = {} /\ m \cup k = reqs
  BY DEF Matured, Kept
<1>. HIDE DEF m, k
<1>2. IsFiniteSet(m) /\ IsFiniteSet(k)
  BY <1>1, FS_Subset
<1>3. m \in SUBSET AllRequests /\ k \in SUBSET AllRequests
  BY <1>1
<1>4. \A r \in m \cup k : Amount[r] \in Int
  BY <1>3 DEF Amount, AllRequests
<1>5. SumOver(Amount, m \cup k) = SumOver(Amount, m) + SumOver(Amount, k)
  BY <1>1, <1>2, <1>4, SumUnion
<1>6. /\ Sum(m) = SumOver(Amount, m) /\ Sum(m) \in Nat
      /\ Sum(k) = SumOver(Amount, k) /\ Sum(k) \in Nat
      /\ Sum(reqs) = SumOver(Amount, reqs)
  BY <1>2, <1>3, SumOfRequests
<1>7. Sum(k) = Sum(reqs) - Sum(m)
  <2>1. SumOver(Amount, reqs) = SumOver(Amount, m) + SumOver(Amount, k)
    BY <1>1, <1>5
  <2>. QED  BY <1>6, <2>1
<1>. QED  BY <1>2, <1>7 DEF m, k

\* Revoke: the frozen part is frozen, and requested.
LEMMA RevokeBacked ==
    ASSUME RInv, NEW a \in Accounts, NEW x \in Nat, NEW e \in BOOLEAN, x <= delegated[a],
           Revoke(a, x, e)
    PROVE  revoking' \in [Accounts -> Int] /\ RequestsNumbered' /\ RevokingBacked'
<1>. USE DelegatingAssumption
<1> DEFINE time == now + Period[e] * Day
           frozen == Returned(x, e)
           request == [id |-> calls + 1, time |-> time, amount |-> frozen]
           old == requests[a]
<1>1. /\ revoking' = [revoking EXCEPT ![a] = @ + frozen]
      /\ requests' = [requests EXCEPT ![a] = @ \cup {request}]
      /\ calls' = calls + 2
  BY DEF Revoke
<1>2. /\ calls \in Nat /\ now \in Nat /\ delegated[a] \in Nat
      /\ requests \in [Accounts -> SUBSET AllRequests]
      /\ revoking \in [Accounts -> Int]
  BY DEF RInv, IInv, TypeOK, AllRequests
<1>3. frozen \in Nat
  BY ReturnedNat
<1>4. time \in Nat
  <2>1. Period[e] \in Nat \ {0} /\ Day \in Nat \ {0}
    OBVIOUS
  <2>2. \A p \in Nat \ {0}, d \in Nat \ {0} : p * d \in Nat
    OBVIOUS
  <2>. QED  BY <1>2, <2>1, <2>2
<1>. HIDE DEF time, frozen
<1>5. request \in AllRequests /\ request.id = calls + 1 /\ request.amount = frozen
  BY <1>2, <1>3, <1>4 DEF AllRequests
<1>. HIDE DEF request
<1>6. /\ old \in SUBSET AllRequests /\ IsFiniteSet(old) /\ \A r \in old : r.id <= calls
  BY <1>2 DEF RInv, RequestsNumbered
<1>7. request \notin old
  BY <1>2, <1>5, <1>6
<1>. HIDE DEF old
<1>8. IsFiniteSet(old \cup {request}) /\ Sum(old \cup {request}) = Sum(old) + frozen
  BY <1>5, <1>6, <1>7, SumOfOneMore
<1>9. /\ requests'[a] = old \cup {request} /\ revoking'[a] = revoking[a] + frozen
      /\ \A b \in Accounts : b # a => requests'[b] = requests[b] /\ revoking'[b] = revoking[b]
  BY <1>1, <1>2 DEF old
<1>10. revoking[a] = Sum(old)
  BY DEF RInv, RevokingBacked, old
<1>11. revoking' \in [Accounts -> Int]
  BY <1>1, <1>2, <1>3
<1>12. ASSUME NEW b \in Accounts
       PROVE  IsFiniteSet(requests'[b]) /\ \A r \in requests'[b] : r.id <= calls'
  <2>1. CASE b = a
    <3>1. ASSUME NEW r \in old \cup {request} PROVE r.id <= calls'
      <4>1. CASE r = request
        BY <1>1, <1>2, <1>5, <4>1
      <4>2. CASE r \in old
        <5>1. r.id \in Nat /\ r.id <= calls
          BY <1>6, <4>2 DEF AllRequests
        <5>. QED  BY <1>1, <1>2, <5>1
      <4>. QED  BY <4>1, <4>2
    <3>. QED  BY <1>8, <1>9, <2>1, <3>1
  <2>2. CASE b # a
    <3>1. IsFiniteSet(requests[b]) /\ \A r \in requests[b] : r.id \in Nat /\ r.id <= calls
      BY <1>2 DEF RInv, RequestsNumbered, AllRequests
    <3>. QED  BY <1>1, <1>2, <1>9, <2>2, <3>1
  <2>. QED  BY <2>1, <2>2
<1>13. ASSUME NEW b \in Accounts PROVE revoking'[b] = Sum(requests'[b])
  <2>1. CASE b = a
    BY <1>8, <1>9, <1>10, <2>1
  <2>2. CASE b # a
    BY <1>9, <2>2 DEF RInv, RevokingBacked
  <2>. QED  BY <2>1, <2>2
<1>. QED  BY <1>11, <1>12, <1>13 DEF RequestsNumbered, RevokingBacked

\* MustPerformRevoking: what is returned is no longer requested.
LEMMA ReturnBacked ==
    ASSUME RInv, NEW a \in Accounts, MustPerformRevoking(a)
    PROVE  revoking' \in [Accounts -> Int] /\ RequestsNumbered' /\ RevokingBacked'
<1> DEFINE old == requests[a]
           m == Sum(Matured(old))
<1>1. /\ revoking' = [revoking EXCEPT ![a] = @ - m]
      /\ requests' = [requests EXCEPT ![a] = Kept(@)] /\ calls' = calls
  BY DEF MustPerformRevoking
<1>2. /\ calls \in Nat /\ requests \in [Accounts -> SUBSET AllRequests]
      /\ revoking \in [Accounts -> Int]
  BY DEF RInv, IInv, TypeOK, AllRequests
<1>3. old \in SUBSET AllRequests /\ IsFiniteSet(old) /\ revoking[a] = Sum(old)
  BY <1>2 DEF RInv, RequestsNumbered, RevokingBacked
<1>4. Matured(old) \in SUBSET AllRequests /\ IsFiniteSet(Matured(old))
  BY <1>3, FS_Subset DEF Matured
<1>5. m \in Nat
  BY <1>4, SumOfRequests
<1>6. IsFiniteSet(Kept(old)) /\ Sum(Kept(old)) = Sum(old) - m /\ Kept(old) \subseteq old
  BY <1>3, SumOfKept DEF Kept
<1>. HIDE DEF m
<1>7. /\ requests'[a] = Kept(old) /\ revoking'[a] = revoking[a] - m
      /\ \A b \in Accounts : b # a => requests'[b] = requests[b] /\ revoking'[b] = revoking[b]
  BY <1>1, <1>2
<1>8. revoking' \in [Accounts -> Int]
  BY <1>1, <1>2, <1>5
<1>9. \A b \in Accounts : IsFiniteSet(requests'[b]) /\ \A r \in requests'[b] : r.id <= calls'
  BY <1>1, <1>6, <1>7 DEF RInv, RequestsNumbered
<1>10. \A b \in Accounts : revoking'[b] = Sum(requests'[b])
  BY <1>3, <1>6, <1>7 DEF RInv, RevokingBacked
<1>. QED  BY <1>8, <1>9, <1>10 DEF RequestsNumbered, RevokingBacked

\* The others freeze and return nothing.
LEMMA RestBacked ==
    ASSUME RInv, UNCHANGED <<revoking, requests>>, calls' \in Nat, calls' >= calls
    PROVE  revoking' \in [Accounts -> Int] /\ RequestsNumbered' /\ RevokingBacked'
<1>1. ASSUME NEW a \in Accounts, NEW r \in requests[a] PROVE r.id <= calls'
  <2>1. r.id \in Nat /\ r.id <= calls /\ calls \in Nat
    BY DEF RInv, IInv, TypeOK, RequestsNumbered
  <2>. QED  BY <2>1
<1>. QED  BY <1>1 DEF RInv, RequestsNumbered, RevokingBacked

LEMMA NextRInv == RInv /\ [Next]_vars => RInv'
<1>. SUFFICES ASSUME RInv, [Next]_vars PROVE RInv'
  OBVIOUS
<1> DEFINE Backed == revoking' \in [Accounts -> Int] /\ RequestsNumbered' /\ RevokingBacked'
<1>0. IInv' /\ calls \in Nat
  BY NextIInv DEF RInv, IInv, TypeOK
<1>1. ASSUME NEW a \in Accounts, NEW x \in Amounts, Delegate(a, x) PROVE Backed
  BY <1>0, <1>1, RestBacked DEF Delegate
<1>2. ASSUME NEW a \in Accounts, NEW x \in Amounts, NEW e \in BOOLEAN, RevokeTx(a, x, e)
      PROVE  Backed
  BY <1>2, RevokeBacked, DelegatingAssumption DEF RevokeTx, Revoke, MayRevoke
<1>3. ASSUME NEW a \in Accounts, NEW x \in Amounts, Confiscate(a, x) PROVE Backed
  BY <1>0, <1>3, RestBacked DEF Confiscate
<1>4. ASSUME NEW a \in Accounts, OnBanished(a) PROVE Backed
  <2>1. delegated[a] \in Nat /\ Revoke(a, delegated[a], FALSE)
    BY <1>4 DEF OnBanished, RInv, IInv, TypeOK
  <2> DEFINE x == delegated[a]
  <2>2. x \in Nat /\ x <= delegated[a]
    BY <2>1
  <2>3. Revoke(a, x, FALSE)
    BY <2>1
  <2>. HIDE DEF x
  <2>. QED  BY <2>2, <2>3, RevokeBacked
<1>5. ASSUME PerformTask PROVE Backed
  <2>. PICK t \in due :
         \/ t.handler = "accrue" /\ MustPerformAccrue(t.data, t.time)
         \/ t.handler = "revoke" /\ MustPerformRevoking(t.data)
    BY <1>5 DEF PerformTask
  <2>1. t.data \in Accounts
    BY DEF RInv, IInv, TypeOK, Tasks, Task
  <2>2. ASSUME MustPerformAccrue(t.data, t.time) PROVE Backed
    <3>1. UNCHANGED <<revoking, requests>>
      BY <2>2 DEF MustPerformAccrue, balances
    <3>2. calls' = calls \/ calls' = calls + 1
      BY <2>2 DEF MustPerformAccrue, DropAccrual, AccrueDay
    <3>. QED  BY <1>0, <3>1, <3>2, RestBacked
  <2>3. ASSUME MustPerformRevoking(t.data) PROVE Backed
    BY <2>1, <2>3, ReturnBacked
  <2>. QED  BY <2>2, <2>3
<1>6. ASSUME EndPass \/ BeginBlock \/ UNCHANGED vars PROVE Backed
  BY <1>0, <1>6, RestBacked DEF EndPass, BeginBlock, vars, balances
<1>. QED  BY <1>0, <1>1, <1>2, <1>3, <1>4, <1>5, <1>6 DEF Next, RInv

(***************************************************************************)
(* freeze and MustPerformRevoking keep the frozen coins of an account      *)
(* those of its requests, whichever of two tasks of a pass returns them.   *)
(***************************************************************************)
THEOREM FrozenCoinsRequested == Safety => []RevokingBacked
<1>1. Init => RInv
  <2>. SUFFICES ASSUME Init PROVE RInv
    OBVIOUS
  <2>1. {} \in SUBSET AllRequests /\ IsFiniteSet({})
    BY FS_EmptySet
  <2>2. Sum({}) = 0
    BY <2>1, SumOfRequests, SumEmpty
  <2>3. revoking = [a \in Accounts |-> 0] /\ requests = [a \in Accounts |-> {}]
    BY DEF Init
  <2>. QED  BY <2>1, <2>2, <2>3, InitIInv DEF RInv, RequestsNumbered, RevokingBacked
<1>2. RInv => RevokingBacked
  BY DEF RInv
<1>. QED  BY <1>1, <1>2, NextRInv, PTL DEF Safety
=============================================================================
