---------------------------- MODULE ServiceProofs ----------------------------
(***************************************************************************)
(* Proofs about the two services that every other module calls: the timer  *)
(* (Schedule), for any handlers, payloads and bounds, and the balances     *)
(* (Bank): that fees can be shared to the last coin, for all ratios that   *)
(* the government can set, and that the recorded supply is what all        *)
(* accounts own, for all accounts and amounts.                             *)
(***************************************************************************)
EXTENDS Schedule, Bank, NumberTheorems, SequenceTheorems

-----------------------------------------------------------------------------
(* The timer.                                                              *)

Tasks == Task(Handlers, Data)

\* Which parts of the pass's state are empty between passes.
PhaseInv ==
    /\ phase = "txs" => snapshot = {} /\ due = {}
    /\ phase # "hook" => cur = {}
    /\ cur \subseteq snapshot

\* Ids are what identifies a task.
Known == Waiting \cup snapshot \cup Visited \cup cancelled

IdsInv ==
    /\ \A t \in Known : t.id \in 1..issued
    /\ \A s, t \in Known : s.id = t.id => s = t

\* Where the block's time is with respect to the tasks.
TimeInv ==
    /\ \A t \in store \ snapshot : t.time > now
    /\ \A t \in snapshot : t.time <= now /\ now < t.time + MaxGap
    /\ \A t \in Visited : t.time <= now

\* A visited task is behind everything that waits.
OrderInv ==
    /\ InOrder
    /\ \A v \in Visited, t \in Waiting : Before(v, t)
    /\ Waiting \cap cancelled = {}
    /\ snapshot \subseteq due \cup Visited

IInv == TypeOK /\ PhaseInv /\ IdsInv /\ TimeInv /\ OrderInv /\ NoTaskLost

-----------------------------------------------------------------------------
\* Appending a task to the log adds it to the visited tasks.
LEMMA VisitedAppend ==
    ASSUME NEW t \in Tasks, log \in Seq(Tasks), log' = Append(log, t)
    PROVE  /\ log' \in Seq(Tasks)
           /\ Visited' = Visited \cup {t}
           /\ \A i \in DOMAIN log : i \in DOMAIN log' /\ log'[i] = log[i]
           /\ DOMAIN log = 1..Len(log) /\ DOMAIN log' = 1..(Len(log) + 1)
           /\ log'[Len(log) + 1] = t
<1>1. /\ Len(log) \in Nat /\ DOMAIN log = 1..Len(log)
      /\ Len(log') = Len(log) + 1 /\ log' \in Seq(Tasks)
      /\ DOMAIN log' = 1..(Len(log) + 1)
  BY AppendProperties, LenProperties
<1>2. /\ \A i \in 1..Len(log) : log'[i] = log[i]
      /\ log'[Len(log) + 1] = t
  BY AppendProperties
<1>3. 1..(Len(log) + 1) = (1..Len(log)) \cup {Len(log) + 1}
  BY <1>1
<1>4. Visited' = Visited \cup {t}
  BY <1>1, <1>2, <1>3 DEF Visited
<1> QED  BY <1>1, <1>2, <1>3, <1>4

\* The initial states satisfy the inductive invariant.
LEMMA InitIInv == Init => IInv
<1> SUFFICES ASSUME Init PROVE IInv
  OBVIOUS
<1> USE ScheduleAssumption
<1>1. issued \in Nat /\ now = 0
  BY DEF Init
<1>2. PICK f \in [1..issued -> [time : Times \ {0}, handler : Handlers, data : Data]] :
        store = {[id |-> i, time |-> f[i].time, handler |-> f[i].handler,
                  data |-> f[i].data] : i \in 1..issued}
  BY DEF Init, InitGenesis
<1>3. Visited = {} /\ log \in Seq(Tasks)
  BY DEF Init, Visited
<1>4. Waiting = store /\ Known = store
  BY <1>3 DEF Init, Waiting, Known
<1>5. \A t \in store : t \in Tasks /\ t.id \in 1..issued /\ t.time > 0
  BY <1>1, <1>2 DEF Tasks, Task, Times
<1>6. \A s, t \in store : s.id = t.id => s = t
  BY <1>2
<1>7. {t.id : t \in store} = 1..issued
  <2>1. ASSUME NEW i \in 1..issued
        PROVE  \E t \in store : t.id = i
    <3> DEFINE t == [id |-> i, time |-> f[i].time, handler |-> f[i].handler,
                     data |-> f[i].data]
    <3>1. t \in store /\ t.id = i
      BY <1>2
    <3> QED  BY <3>1
  <2> QED  BY <2>1, <1>5
<1>8. TypeOK
  BY <1>1, <1>3, <1>5 DEF Init, TypeOK, Tasks
<1>9. PhaseInv /\ IdsInv
  BY <1>4, <1>5, <1>6 DEF Init, PhaseInv, IdsInv
<1>10. TimeInv
  BY <1>1, <1>3, <1>5 DEF Init, TimeInv
<1>11. OrderInv
  BY <1>3, <1>4 DEF Init, OrderInv, InOrder
<1>12. NoTaskLost
  BY <1>3, <1>4, <1>7 DEF Init, NoTaskLost
<1> QED  BY <1>8, <1>9, <1>10, <1>11, <1>12 DEF IInv

\* A call of ScheduleTask, by a transaction or by a hook, that does not
\* schedule into the past, nor into the block of a running pass.
LEMMA ScheduleStep ==
    ASSUME IInv, NEW time \in Nat, NEW event \in Handlers, NEW payload \in Data,
           ScheduleTask(time, event, payload),
           time > now,
           UNCHANGED <<now, phase, snapshot, due, cur, log, cancelled>>
    PROVE  IInv' /\ Timer!Accept
<1> USE ScheduleAssumption
<1> DEFINE new == [id |-> issued + 1, time |-> time,
                   handler |-> event, data |-> payload]
<1>1. /\ now \in Nat /\ issued \in Nat /\ store \subseteq Tasks /\ snapshot \subseteq Tasks
      /\ due \subseteq snapshot /\ cancelled \subseteq Tasks /\ log \in Seq(Tasks)
  BY DEF IInv, TypeOK, Tasks
<1>2. /\ issued' = issued + 1 /\ store' = store \cup {new}
      /\ new \in Tasks /\ new.id = issued + 1 /\ new.time = time
      /\ new.handler = event /\ new.data = payload
  BY <1>1 DEF ScheduleTask, Put, Tasks, Task
<1> HIDE DEF new
<1>3. \A t \in Known : t.id # issued + 1
  BY <1>1 DEF IInv, IdsInv
<1>4. new \notin Known
  BY <1>2, <1>3
<1>5. /\ Visited' = Visited
      /\ Waiting' = Waiting \cup {new} /\ Known' = Known \cup {new}
  BY <1>2, <1>4 DEF Waiting, Known, Visited
<1>6. TypeOK'
  BY <1>1, <1>2 DEF IInv, TypeOK, Tasks
<1>7. PhaseInv'
  BY DEF IInv, PhaseInv
<1>8. IdsInv'
  <2>1. \A t \in Known' : t.id \in 1..issued'
    BY <1>1, <1>2, <1>5 DEF IInv, IdsInv
  <2>2. \A s, t \in Known' : s.id = t.id => s = t
    BY <1>2, <1>3, <1>5 DEF IInv, IdsInv
  <2> QED  BY <2>1, <2>2 DEF IdsInv
<1>9. TimeInv'
  BY <1>1, <1>2, <1>5 DEF IInv, TimeInv
<1>10. OrderInv'
  <2>1. InOrder'
    BY DEF IInv, OrderInv, InOrder, Before
  <2>2. \A v \in Visited : Before(v, new)
    <3> TAKE v \in Visited
    <3>1. v.time <= now /\ v.id \in 1..issued
      BY DEF IInv, TimeInv, IdsInv, Known
    <3>2. v \in Tasks
      BY <1>1, LenProperties DEF Visited
    <3> QED  BY <1>1, <1>2, <3>1, <3>2 DEF Before, Tasks, Task
  <2>3. new \notin cancelled
    BY <1>4 DEF Known
  <2> QED  BY <1>5, <2>1, <2>2, <2>3 DEF IInv, OrderInv, Before
<1>11. NoTaskLost'
  <2>1. {t.id : t \in Waiting' \cup Visited' \cup cancelled'}
          = {t.id : t \in Waiting \cup Visited \cup cancelled} \cup {issued + 1}
    BY <1>2, <1>5
  <2>2. 1..issued' = (1..issued) \cup {issued + 1}
    BY <1>1, <1>2
  <2> QED  BY <2>1, <2>2 DEF IInv, NoTaskLost
<1>12. Timer!Accept
  BY <1>2, <1>5 DEF Timer!Accept, Timer!Task, Tasks, Task
<1> QED  BY <1>6, <1>7, <1>8, <1>9, <1>10, <1>11, <1>12 DEF IInv

\* A call of Delete or DeleteAll, by a transaction or by a hook.
LEMMA DeleteStep ==
    ASSUME IInv, store' \subseteq store,
           cancelled' = cancelled \cup ((store \ store') \ snapshot),
           UNCHANGED <<now, phase, snapshot, due, cur, issued, log>>
    PROVE  IInv' /\ Timer!Withdraw
<1>1. /\ store \subseteq Tasks /\ due \subseteq snapshot /\ cancelled \subseteq Tasks
  BY DEF IInv, TypeOK, Tasks
<1>2. /\ Visited' = Visited /\ Waiting' \subseteq Waiting
      /\ Waiting \ Waiting' = (store \ store') \ snapshot
      /\ Waiting' \cup cancelled' = Waiting \cup cancelled
      /\ Known' = Known
  BY <1>1 DEF Waiting, Visited, Known
<1>3. TypeOK' /\ PhaseInv'
  BY <1>1 DEF IInv, TypeOK, PhaseInv, Tasks
<1>4. IdsInv'
  BY <1>2 DEF IInv, IdsInv
<1>5. TimeInv'
  BY <1>2 DEF IInv, TimeInv
<1>6. OrderInv'
  <2>1. InOrder'
    BY DEF IInv, OrderInv, InOrder, Before
  <2>2. Waiting' \cap cancelled' = {}
    BY <1>2 DEF IInv, OrderInv
  <2> QED  BY <1>2, <2>1, <2>2 DEF IInv, OrderInv, Before
<1>7. NoTaskLost'
  <2>1. Waiting' \cup Visited' \cup cancelled' = Waiting \cup Visited \cup cancelled
    BY <1>2
  <2> QED  BY <2>1 DEF IInv, NoTaskLost
<1>8. Timer!Withdraw
  BY <1>2 DEF Timer!Withdraw
<1> QED  BY <1>3, <1>4, <1>5, <1>6, <1>7, <1>8 DEF IInv

\* The pass begins: it takes exactly what is due, and all of that is recent.
LEMMA BeginBlockerStep ==
    ASSUME IInv, BeginBlocker
    PROVE  IInv' /\ Timer!Advance
<1> USE ScheduleAssumption
<1>1. /\ now \in Nat /\ store \subseteq Tasks /\ cancelled \subseteq Tasks
      /\ phase = "txs" /\ snapshot = {} /\ due = {} /\ cur = {}
      /\ \A t \in store : t.time > now
  BY DEF IInv, TypeOK, PhaseInv, TimeInv, BeginBlocker, Tasks
<1>2. /\ now' \in Nat /\ now' > now /\ now' <= now + MaxGap
      /\ phase' = "scan" /\ snapshot' = {t \in store : t.time <= now'}
      /\ due' = snapshot' /\ store' = store /\ cur' = cur
      /\ UNCHANGED <<issued, log, cancelled>>
  BY <1>1 DEF BeginBlocker, DueAt
<1>3. /\ Visited' = Visited /\ Waiting = store /\ Waiting' = store /\ Known' = Known
  BY <1>1, <1>2 DEF Waiting, Visited, Known
<1>4. TypeOK' /\ PhaseInv'
  BY <1>1, <1>2 DEF IInv, TypeOK, PhaseInv, Tasks
<1>5. IdsInv'
  BY <1>2, <1>3 DEF IInv, IdsInv
<1>6. TimeInv'
  <2>1. \A t \in store : t.time \in Nat
    BY <1>1 DEF Tasks, Task
  <2>2. \A t \in Visited : t.time <= now'
    <3>1. \A t \in Visited : t \in Tasks /\ t.time <= now
      BY LenProperties DEF IInv, TypeOK, TimeInv, Visited, Tasks
    <3> QED  BY <1>1, <1>2, <3>1 DEF Tasks, Task
  <2> QED  BY <1>1, <1>2, <1>3, <2>1, <2>2 DEF TimeInv
<1>7. OrderInv'
  <2>1. InOrder'
    BY <1>2 DEF IInv, OrderInv, InOrder, Before
  <2> QED  BY <1>2, <1>3, <2>1 DEF IInv, OrderInv, Before
<1>8. NoTaskLost'
  BY <1>2, <1>3 DEF IInv, NoTaskLost
<1>9. Timer!Advance
  BY <1>1, <1>2, <1>3 DEF Timer!Advance
<1> QED  BY <1>4, <1>5, <1>6, <1>7, <1>8, <1>9 DEF IInv

\* The pass visits its first task.
LEMMA PerformTaskStep ==
    ASSUME IInv, PerformTask
    PROVE  IInv' /\ Timer!Run
<1> USE ScheduleAssumption
<1>1. PICK t \in due :
        /\ First(t) /\ due' = due \ {t} /\ log' = Append(log, t)
        /\ \/ phase' = "scan" /\ cur' = {}
           \/ phase' = "hook" /\ cur' = {t}
  BY DEF PerformTask
<1>2. /\ UNCHANGED <<now, store, snapshot, issued, cancelled>> /\ phase = "scan"
      /\ now \in Nat /\ due \subseteq snapshot /\ snapshot \subseteq Tasks
      /\ store \subseteq Tasks /\ log \in Seq(Tasks) /\ cancelled \subseteq Tasks
  BY DEF IInv, TypeOK, PerformTask, Tasks
<1>3. t \in snapshot /\ t \in Tasks /\ t \in Known
  BY <1>1, <1>2 DEF Known
<1>4. /\ log' \in Seq(Tasks) /\ Visited' = Visited \cup {t}
      /\ \A i \in DOMAIN log : i \in DOMAIN log' /\ log'[i] = log[i]
      /\ DOMAIN log = 1..Len(log) /\ DOMAIN log' = 1..(Len(log) + 1)
      /\ log'[Len(log) + 1] = t
  BY <1>1, <1>2, <1>3, VisitedAppend
<1>5. /\ Waiting' = Waiting \ {t} /\ t \in Waiting /\ Known' = Known
  BY <1>1, <1>2, <1>3, <1>4 DEF Waiting, Known
<1>6. \A s \in Waiting : s # t => Before(t, s)
  <2>1. \A s \in due : s # t => Before(t, s)
    BY <1>1 DEF First
  <2>2. \A s \in store \ snapshot : Before(t, s)
    <3>1. \A s \in store \ snapshot : s.time > now /\ s.time \in Nat
      BY <1>2 DEF IInv, TimeInv, Tasks, Task
    <3>2. t.time <= now /\ t.time \in Nat
      BY <1>3 DEF IInv, TimeInv, Tasks, Task
    <3> QED  BY <1>2, <3>1, <3>2 DEF Before
  <2> QED  BY <2>1, <2>2 DEF Waiting
<1>7. TypeOK' /\ PhaseInv'
  BY <1>1, <1>2, <1>3, <1>4 DEF IInv, TypeOK, PhaseInv, Tasks
<1>8. IdsInv'
  BY <1>2, <1>5 DEF IInv, IdsInv
<1>9. TimeInv'
  BY <1>1, <1>2, <1>3, <1>4 DEF IInv, TimeInv
<1>10. OrderInv'
  <2>1. InOrder'
    <3> SUFFICES ASSUME NEW i \in 1..(Len(log) + 1), NEW j \in 1..(Len(log) + 1), i < j
                 PROVE  Before(log'[i], log'[j])
      BY <1>4 DEF InOrder, Before
    <3>1. Len(log) \in Nat
      BY <1>2, LenProperties
    <3>2. i \in 1..Len(log) /\ log[i] \in Visited /\ log'[i] = log[i]
      BY <3>1, <1>4 DEF Visited
    <3>3. CASE j = Len(log) + 1
      BY <3>2, <3>3, <1>4, <1>5 DEF IInv, OrderInv
    <3>4. CASE j \in 1..Len(log)
      BY <3>2, <3>4, <1>4 DEF IInv, OrderInv, InOrder
    <3> QED  BY <3>1, <3>3, <3>4
  <2>2. \A v \in Visited', s \in Waiting' : Before(v, s)
    BY <1>4, <1>5, <1>6 DEF IInv, OrderInv
  <2>3. Waiting' \cap cancelled' = {} /\ snapshot' \subseteq due' \cup Visited'
    BY <1>1, <1>2, <1>4, <1>5 DEF IInv, OrderInv
  <2> QED  BY <2>1, <2>2, <2>3 DEF OrderInv, Before
<1>11. NoTaskLost'
  <2>1. Waiting' \cup Visited' \cup cancelled' = Waiting \cup Visited \cup cancelled
    BY <1>2, <1>4, <1>5
  <2> QED  BY <1>2, <2>1 DEF IInv, NoTaskLost
<1>12. Timer!Run
  <2>1. t.time <= now
    BY <1>3 DEF IInv, TimeInv
  <2> QED  BY <1>1, <1>2, <1>5, <1>6, <2>1 DEF Timer!Run, Timer!Before, Before
<1> QED  BY <1>7, <1>8, <1>9, <1>10, <1>11, <1>12 DEF IInv

\* The pass ends.  Every key Write deletes is at most now and everything
\* that was added during the pass is later, so only visited tasks go.
LEMMA EndPassStep ==
    ASSUME IInv, EndPass
    PROVE  IInv' /\ UNCHANGED Timer!timerVars
<1>1. /\ phase = "scan" /\ due = {} /\ phase' = "txs" /\ snapshot' = {}
      /\ UNCHANGED <<now, due, cur, issued, log, cancelled>>
      /\ now \in Nat /\ store \subseteq Tasks /\ snapshot \subseteq Tasks
  BY DEF IInv, TypeOK, EndPass, Tasks
<1>2. store' = store \ snapshot
  <2>1. \A t \in store \ snapshot : t.time > now /\ t.time \in Nat
    BY <1>1 DEF IInv, TimeInv, Tasks, Task
  <2>2. \A s \in snapshot : s.time <= now /\ s.time \in Nat
    BY <1>1 DEF IInv, TimeInv, Tasks, Task
  <2> QED  BY <1>1, <2>1, <2>2 DEF EndPass, VisitedKeys
<1>3. /\ Visited' = Visited /\ Waiting' = Waiting
      /\ Waiting = store \ snapshot /\ Known' \subseteq Known
  BY <1>1, <1>2 DEF Waiting, Visited, Known
<1>4. TypeOK' /\ PhaseInv'
  BY <1>1, <1>2 DEF IInv, TypeOK, PhaseInv, Tasks
<1>5. IdsInv'
  BY <1>1, <1>3 DEF IInv, IdsInv
<1>6. TimeInv'
  <2>1. \A t \in store' : t.time > now'
    BY <1>1, <1>2 DEF IInv, TimeInv
  <2> QED  BY <1>1, <1>3, <2>1 DEF IInv, TimeInv
<1>7. OrderInv'
  <2>1. InOrder'
    BY <1>1 DEF IInv, OrderInv, InOrder, Before
  <2> QED  BY <1>1, <1>3, <2>1 DEF IInv, OrderInv, Before
<1>8. NoTaskLost'
  BY <1>1, <1>3 DEF IInv, NoTaskLost
<1>9. UNCHANGED Timer!timerVars
  BY <1>1, <1>3 DEF Timer!timerVars
<1> QED  BY <1>4, <1>5, <1>6, <1>7, <1>8, <1>9 DEF IInv

\* The running hook returns or panics.
LEMMA HookEndsStep ==
    ASSUME IInv, HookEnds
    PROVE  IInv' /\ UNCHANGED Timer!timerVars
<1>1. /\ phase = "hook" /\ phase' = "scan" /\ cur' = {}
      /\ UNCHANGED <<now, store, snapshot, due, issued, log, cancelled>>
  BY DEF HookEnds
<1>2. Visited' = Visited /\ Waiting' = Waiting /\ Known' = Known
  BY <1>1 DEF Waiting, Visited, Known
<1>3. TypeOK' /\ PhaseInv' /\ IdsInv' /\ TimeInv' /\ NoTaskLost'
  BY <1>1, <1>2 DEF IInv, TypeOK, PhaseInv, IdsInv, TimeInv, NoTaskLost
<1>4. OrderInv'
  <2>1. InOrder'
    BY <1>1 DEF IInv, OrderInv, InOrder, Before
  <2> QED  BY <1>1, <1>2, <2>1 DEF IInv, OrderInv, Before
<1>5. UNCHANGED Timer!timerVars
  BY <1>1, <1>2 DEF Timer!timerVars
<1> QED  BY <1>3, <1>4, <1>5 DEF IInv

\* Every step preserves the invariant and is a step, or a stuttering step,
\* of the abstract timer.  Only HookSchedules needs the gaps to be short.
LEMMA StepIInv ==
    ASSUME ShortGaps, IInv, [Next]_vars
    PROVE  IInv' /\ [Timer!Next]_(Timer!timerVars)
<1> USE ScheduleAssumption
<1>1. CASE TxSchedules
  <2>1. PICK t \in (now + 1)..MaxTime, h \in Handlers, d \in Data : ScheduleTask(t, h, d)
    BY <1>1 DEF TxSchedules
  <2>2. now \in Nat
    BY DEF IInv, TypeOK
  <2>3. t \in Nat /\ t > now
    BY <2>1, <2>2
  <2> QED  BY <1>1, <2>1, <2>3, ScheduleStep DEF TxSchedules, Timer!Next
<1>2. CASE TxDeletes
  <2>1. /\ store' \subseteq store
        /\ cancelled' = cancelled \cup ((store \ store') \ snapshot)
    BY <1>2 DEF TxDeletes, Delete, DeleteAll, Remove, RemoveAll
  <2> QED  BY <1>2, <2>1, DeleteStep DEF TxDeletes, Timer!Next
<1>3. CASE BeginBlocker
  BY <1>3, BeginBlockerStep DEF Timer!Next
<1>4. CASE PerformTask
  BY <1>4, PerformTaskStep DEF Timer!Next
<1>5. CASE EndPass
  BY <1>5, EndPassStep
<1>6. CASE HookSchedules
  <2>1. PICK c \in cur, t \in Times, h \in Handlers, d \in Data :
          t >= c.time + MinDelay /\ ScheduleTask(t, h, d)
    BY <1>6 DEF HookSchedules
  <2>2. c \in Tasks /\ now < c.time + MaxGap /\ now \in Nat
    BY <2>1 DEF IInv, TypeOK, PhaseInv, TimeInv, Tasks
  <2>3. t \in Nat /\ t > now
    BY <2>1, <2>2 DEF ShortGaps, Times, Tasks, Task
  <2> QED  BY <1>6, <2>1, <2>3, ScheduleStep DEF HookSchedules, Timer!Next
<1>7. CASE HookDeletes
  <2>1. /\ store' \subseteq store
        /\ cancelled' = cancelled \cup ((store \ store') \ snapshot)
    BY <1>7 DEF HookDeletes, Delete, DeleteAll, Remove, RemoveAll
  <2> QED  BY <1>7, <2>1, DeleteStep DEF HookDeletes, Timer!Next
<1>8. CASE HookEnds
  BY <1>8, HookEndsStep
<1>9. CASE UNCHANGED vars
  <2>1. Visited' = Visited /\ Waiting' = Waiting /\ Known' = Known
    BY <1>9 DEF vars, Waiting, Visited, Known
  <2>2. InOrder'
    BY <1>9 DEF vars, IInv, OrderInv, InOrder, Before
  <2>3. OrderInv'
    BY <1>9, <2>1, <2>2 DEF vars, IInv, OrderInv, Before
  <2> QED  BY <1>9, <2>1, <2>3 DEF vars, IInv, TypeOK, PhaseInv, IdsInv, TimeInv,
              NoTaskLost, Timer!timerVars
<1> QED  BY <1>1, <1>2, <1>3, <1>4, <1>5, <1>6, <1>7, <1>8, <1>9 DEF Next

\* The inductive invariant gives the four properties of the component.
LEMMA IInvImplies ==
    ASSUME IInv
    PROVE  TypeOK /\ NoTaskLost /\ AtMostOnce /\ NothingOverdue /\ InOrder
<1>1. TypeOK /\ NoTaskLost /\ NothingOverdue /\ InOrder
  BY DEF IInv, PhaseInv, TimeInv, OrderInv, NothingOverdue
<1>2. AtMostOnce
  <2>1. \A t \in Known : t.time \in Nat /\ t.id \in Nat
    <3>1. Visited \subseteq Tasks
      BY LenProperties DEF IInv, TypeOK, Visited, Tasks
    <3>2. Known \subseteq Tasks
      BY <3>1 DEF IInv, TypeOK, Known, Waiting, Tasks
    <3> QED  BY <3>2 DEF Tasks, Task
  <2>2. \A t \in Visited : t \in Known
    BY DEF Known
  <2>3. \A t \in Visited : t \notin Waiting
    <3> SUFFICES ASSUME NEW t \in Visited, t \in Waiting PROVE FALSE
      OBVIOUS
    <3>1. Before(t, t)
      BY DEF IInv, OrderInv
    <3> QED  BY <2>1, <2>2, <3>1 DEF Before
  <2>4. ASSUME NEW i \in DOMAIN log, NEW j \in DOMAIN log, i # j, log[i].id = log[j].id
        PROVE  FALSE
    <3>1. log[i] \in Visited /\ log[j] \in Visited
      BY DEF Visited
    <3>2. log[i] = log[j]
      BY <2>2, <2>4, <3>1 DEF IInv, IdsInv
    <3>3. Before(log[i], log[j]) \/ Before(log[j], log[i])
      <4>1. DOMAIN log = 1..Len(log) /\ Len(log) \in Nat
        BY LenProperties DEF IInv, TypeOK
      <4>2. i < j \/ j < i
        BY <2>4, <4>1
      <4> QED  BY <4>2 DEF IInv, OrderInv, InOrder
    <3> QED  BY <2>1, <2>2, <3>1, <3>2, <3>3 DEF Before
  <2>5. Waiting \cap (Visited \cup cancelled) = {}
    BY <2>3 DEF IInv, OrderInv
  <2> QED  BY <2>4, <2>5 DEF AtMostOnce
<1> QED  BY <1>1, <1>2

-----------------------------------------------------------------------------
(***************************************************************************)
(* Type correctness of the task store and of the pass of PerformSchedule.  *)
(* It needs no assumption on the gaps between blocks.                      *)
(***************************************************************************)
THEOREM TypeCorrect == Safety => []TypeOK
<1> USE ScheduleAssumption
<1>1. Init => TypeOK
  BY InitIInv DEF IInv
<1>2. TypeOK /\ [Next]_vars => TypeOK'
  <2> SUFFICES ASSUME TypeOK, [Next]_vars PROVE TypeOK'
    OBVIOUS
  <2> USE DEF TypeOK
  <2>1. CASE TxSchedules \/ HookSchedules
    <3>1. PICK t \in Nat, h \in Handlers, d \in Data : ScheduleTask(t, h, d)
      BY <2>1 DEF TxSchedules, HookSchedules, Times
    <3> QED  BY <2>1, <3>1 DEF TxSchedules, HookSchedules, ScheduleTask, Put, Task
  <2>2. CASE TxDeletes \/ HookDeletes
    <3>1. /\ store' \subseteq store
          /\ cancelled' = cancelled \cup ((store \ store') \ snapshot)
      BY <2>2 DEF TxDeletes, HookDeletes, Delete, DeleteAll, Remove, RemoveAll
    <3> QED  BY <2>2, <3>1 DEF TxDeletes, HookDeletes
  <2>3. CASE BeginBlocker
    BY <2>3 DEF BeginBlocker, DueAt
  <2>4. CASE PerformTask
    BY <2>4, AppendProperties DEF PerformTask
  <2>5. CASE EndPass \/ HookEnds
    BY <2>5 DEF EndPass, HookEnds
  <2>6. CASE UNCHANGED vars
    BY <2>6 DEF vars
  <2> QED  BY <2>1, <2>2, <2>3, <2>4, <2>5, <2>6 DEF Next
<1> QED  BY <1>1, <1>2, PTL DEF Safety

\* The inductive invariant holds when blocks are close enough.
LEMMA Inductive == ASSUME ShortGaps PROVE Safety => []IInv
<1>1. Init => IInv
  BY InitIInv
<1>2. IInv /\ [Next]_vars => IInv'
  BY StepIInv
<1> QED  BY <1>1, <1>2, PTL DEF Safety

(***************************************************************************)
(* When the chain never halts for longer than the shortest hook delay,     *)
(* no scheduled task is lost by the Write at the end of PerformSchedule.   *)
(***************************************************************************)
THEOREM NoLoss == ASSUME ShortGaps PROVE Safety => []NoTaskLost
<1>1. IInv => NoTaskLost
  BY IInvImplies
<1> QED  BY <1>1, Inductive, PTL

(***************************************************************************)
(* Under the same condition no task runs twice or after it was deleted.    *)
(***************************************************************************)
THEOREM RunOnce == ASSUME ShortGaps PROVE Safety => []AtMostOnce
<1>1. IInv => AtMostOnce
  BY IInvImplies
<1> QED  BY <1>1, Inductive, PTL

(***************************************************************************)
(* Under the same condition every task runs in the first block at or after *)
(* its time.                                                               *)
(***************************************************************************)
THEOREM OnTime == ASSUME ShortGaps PROVE Safety => []NothingOverdue
<1>1. IInv => NothingOverdue
  BY IInvImplies
<1> QED  BY <1>1, Inductive, PTL

(***************************************************************************)
(* Under the same condition hooks run in the order of their tasks.         *)
(***************************************************************************)
THEOREM Ordered == ASSUME ShortGaps PROVE Safety => []InOrder
<1>1. IInv => InOrder
  BY IInvImplies
<1> QED  BY <1>1, Inductive, PTL

(***************************************************************************)
(* Under the same condition x/schedule implements the abstract timer.      *)
(***************************************************************************)
THEOREM Refinement == ASSUME ShortGaps PROVE Safety => ImplementsTimer
<1>1. Init => Timer!Init
  <2> SUFFICES ASSUME Init PROVE Timer!Init
    OBVIOUS
  <2>1. IInv
    BY InitIInv
  <2>2. Waiting \subseteq Task(Handlers, Data)
    BY <2>1 DEF IInv, TypeOK, Waiting
  <2> QED  BY <2>2 DEF Init, Timer!Init, Timer!Task, Task
<1>2. IInv /\ [Next]_vars => [Timer!Next]_(Timer!timerVars)
  BY StepIInv
<1> QED  BY <1>1, <1>2, Inductive, PTL DEF Safety, ImplementsTimer, Timer!Spec

-----------------------------------------------------------------------------
(* The ratios of fees.                                                     *)

SplitRatios == [proposer : Fractions, company : Fractions]

(***************************************************************************)
(* The share for burning is what the other two leave of the whole.         *)
(***************************************************************************)
LEMMA ForBurningValue ==
    ASSUME NEW r \in SplitRatios
    PROVE  \E s \in Positive, t \in Positive :
             /\ ForBurning(r) \in SignedFractions
             /\ ForBurning(r).den = r.proposer.den * s
             /\ ForBurning(r).den = r.company.den * t
             /\ ForBurning(r).num
                  = ForBurning(r).den - r.proposer.num * s - r.company.num * t
<1> DEFINE one == FractionInt(1)
           p == r.proposer
           q == r.company
           m == Minus(one, p)
           b == Minus(m, q)
<1>1. /\ p \in SignedFractions /\ q \in SignedFractions /\ one \in SignedFractions
      /\ one.num = 1 /\ one.den = 1
      /\ p.num \in Int /\ p.den \in Int /\ q.num \in Int /\ q.den \in Int
  BY DEF SplitRatios, Fractions, SignedFractions, Positive, FractionInt, Fraction
<1>. HIDE DEF one, p, q
<1>2. PICK k \in Positive, w \in Positive :
        m \in SignedFractions /\ m.den = one.den * k /\ m.den = p.den * w
        /\ m.num = one.num * k - p.num * w
  BY <1>1, MinusValue
<1>3. m.num = m.den - p.num * w /\ m.den = p.den * w /\ m.den \in Int /\ w \in Nat
  BY <1>1, <1>2 DEF Positive
<1>. HIDE DEF m
<1>4. PICK u \in Positive, t \in Positive :
        b \in SignedFractions /\ b.den = m.den * u /\ b.den = q.den * t
        /\ b.num = m.num * u - q.num * t
  BY <1>1, <1>2, MinusValue
<1>5. u \in Nat /\ t \in Nat /\ w * u \in Positive
  BY <1>2, <1>3, <1>4 DEF Positive
<1>. HIDE DEF b
<1>6. b.den = p.den * (w * u)
  BY <1>1, <1>3, <1>4, <1>5
<1>7. (m.den - p.num * w) * u = m.den * u - p.num * (w * u)
  BY <1>1, <1>3, <1>5
<1>8. b.num = b.den - p.num * (w * u) - q.num * t
  BY <1>3, <1>4, <1>7
<1>9. ForBurning(r) = b
  BY DEF ForBurning, b, m, p, q, one
<1>. QED  BY <1>4, <1>5, <1>6, <1>8, <1>9 DEF p, q

(***************************************************************************)
(* The validation of the ratios makes that share not negative.             *)
(***************************************************************************)
LEMMA ForBurningNatural ==
    ASSUME NEW r \in SplitRatios, Valid(r)
    PROVE  ForBurning(r).num >= 0
<1> DEFINE one == FractionInt(1)
           p == r.proposer
           q == r.company
           a == Plus(p, q)
           b == ForBurning(r)
<1>1. /\ p \in SignedFractions /\ q \in SignedFractions /\ one \in SignedFractions
      /\ one.num = 1 /\ one.den = 1
      /\ p.num \in Int /\ p.den \in Int /\ q.num \in Int /\ q.den \in Int
  BY DEF SplitRatios, Fractions, SignedFractions, Positive, FractionInt, Fraction
<1>2. Minus(one, a).num >= 0
  BY DEF Valid
<1>3. PICK s \in Positive, t \in Positive :
        b \in SignedFractions /\ b.den = p.den * s /\ b.den = q.den * t
        /\ b.num = b.den - p.num * s - q.num * t
  BY ForBurningValue
<1>. HIDE DEF one, p, q, b
<1>4. PICK i \in Positive, j \in Positive :
        a \in SignedFractions /\ a.den = p.den * i /\ a.den = q.den * j
        /\ a.num = p.num * i + q.num * j
  BY <1>1, PlusValue
<1>. HIDE DEF a
<1>5. PICK k \in Positive, w \in Positive :
        /\ Minus(one, a).den = one.den * k /\ Minus(one, a).den = a.den * w
        /\ Minus(one, a).num = one.num * k - a.num * w
  BY <1>1, <1>4, MinusValue
<1>6. /\ s \in Int /\ t \in Int /\ i \in Int /\ j \in Int /\ w \in Int /\ w >= 1
      /\ a.den \in Int /\ a.den >= 1 /\ a.num \in Int /\ b.den \in Int /\ b.den >= 1
      /\ b.num \in Int
  BY <1>3, <1>4, <1>5 DEF Positive, SignedFractions
<1>7. a.num <= a.den
  <2>1. (a.den - a.num) * w >= 0
    BY <1>1, <1>2, <1>5, <1>6
  <2>2. CASE a.den - a.num <= -1
    <3>1. (a.den - a.num) * w <= -w
      BY <1>6, <2>2
    <3>. QED  BY <1>6, <2>1, <3>1
  <2>. QED  BY <1>6, <2>2
<1>8. a.den * (p.num * s + q.num * t) = b.den * a.num
  <2>1. a.den * (p.num * s) = (p.den * i) * (p.num * s)
    BY <1>4
  <2>2. (p.den * i) * (p.num * s) = (p.den * s) * (p.num * i)
    BY <1>1, <1>6
  <2>3. a.den * (q.num * t) = (q.den * j) * (q.num * t)
    BY <1>4
  <2>4. (q.den * j) * (q.num * t) = (q.den * t) * (q.num * j)
    BY <1>1, <1>6
  <2>5. a.den * (p.num * s) = b.den * (p.num * i)
    BY <1>3, <2>1, <2>2
  <2>6. a.den * (q.num * t) = b.den * (q.num * j)
    BY <1>3, <2>3, <2>4
  <2>7. a.den * (p.num * s + q.num * t) = a.den * (p.num * s) + a.den * (q.num * t)
    BY <1>1, <1>6
  <2>8. b.den * a.num = b.den * (p.num * i) + b.den * (q.num * j)
    BY <1>1, <1>4, <1>6
  <2>. QED  BY <2>5, <2>6, <2>7, <2>8
<1> DEFINE n == p.num * s + q.num * t
<1>9. n \in Int /\ b.num = b.den - n
  BY <1>1, <1>3, <1>6
<1>. HIDE DEF n
<1>10. a.den * b.num = b.den * (a.den - a.num)
  <2>1. a.den * n = b.den * a.num
    BY <1>8 DEF n
  <2>2. a.den * (b.den - n) = a.den * b.den - a.den * n
    BY <1>6, <1>9
  <2>3. b.den * (a.den - a.num) = a.den * b.den - b.den * a.num
    BY <1>6
  <2>. QED  BY <1>9, <2>1, <2>2, <2>3
<1>11. b.den * (a.den - a.num) >= 0
  BY <1>6, <1>7
<1>12. CASE b.num <= -1
  <2>1. a.den * b.num <= -a.den
    BY <1>6, <1>12
  <2>. QED  BY <1>6, <1>10, <1>11, <2>1
<1>. QED  BY <1>6, <1>12 DEF b

(***************************************************************************)
(* The amounts that can be shared exactly are multiples of a number that   *)
(* the denominators of all three shares divide.                            *)
(***************************************************************************)
LEMMA RatiosLCMValue ==
    ASSUME NEW r \in SplitRatios
    PROVE  /\ RatiosLCM(r) \in Positive
           /\ \E i \in Positive : RatiosLCM(r) = r.proposer.den * i
           /\ \E i \in Positive : RatiosLCM(r) = r.company.den * i
           /\ \E i \in Positive : RatiosLCM(r) = ForBurning(r).den * i
<1> DEFINE x == r.proposer.den
           y == r.company.den
           z == ForBurning(r).den
           l == Lcm(x, y)
           L == Lcm(l, z)
<1>1. x \in Positive /\ y \in Positive /\ z \in Positive
  BY ForBurningValue DEF SplitRatios, Fractions, SignedFractions, Positive
<1>. HIDE DEF x, y, z
<1>2. /\ l \in Positive /\ l = x * (l \div x) /\ l \div x \in Positive
      /\ l = y * (l \div y) /\ l \div y \in Positive
  BY <1>1, LcmMultiple
<1>. HIDE DEF l
<1>3. /\ L \in Positive /\ L = l * (L \div l) /\ L \div l \in Positive
      /\ L = z * (L \div z) /\ L \div z \in Positive
  BY <1>1, <1>2, LcmMultiple
<1>. HIDE DEF L
<1>4. ASSUME NEW d \in Positive, NEW i \in Positive, l = d * i
      PROVE  \E j \in Positive : L = d * j
  <2> DEFINE k == L \div l
  <2>1. k \in Positive /\ L = l * k
    BY <1>3
  <2>. HIDE DEF k
  <2>2. i * k \in Positive /\ (d * i) * k = d * (i * k)
    BY <2>1 DEF Positive
  <2>3. L = d * (i * k)
    BY <1>4, <2>1, <2>2
  <2>. QED  BY <2>2, <2>3
<1>5. (\E i \in Positive : L = x * i) /\ (\E i \in Positive : L = y * i)
  BY <1>1, <1>2, <1>4
<1>6. RatiosLCM(r) = L
  BY DEF RatiosLCM, L, l, x, y, z
<1>. QED  BY <1>3, <1>5, <1>6 DEF x, y, z

(***************************************************************************)
(* A share of an amount that its denominator divides is not rounded.       *)
(***************************************************************************)
LEMMA TimesExact ==
    ASSUME NEW x \in SignedFractions, NEW e \in Int
    PROVE  MulInt64(x, x.den * e) = x.num * e
<1>1. x.num \in Int /\ x.den \in Positive /\ x.den \in Int
  BY DEF SignedFractions, Positive
<1>2. x.num * (x.den * e) = (x.num * e) * x.den /\ x.num * e \in Int
  BY <1>1
<1>. QED  BY <1>1, <1>2, MultipleMod DEF MulInt64

\* A share is rounded down.
LEMMA TimesRounds ==
    ASSUME NEW x \in SignedFractions, NEW c \in Nat
    PROVE  MulInt64(x, c) \in Int /\ x.den * MulInt64(x, c) <= x.num * c
<1>1. x.num \in Int /\ x.den \in Positive /\ x.num * c \in Int
  BY DEF SignedFractions, Positive
<1> DEFINE n == x.num * c
           d == x.den
           q == n \div d
           m == n % d
<1>2. n = d * q + m /\ q \in Int /\ m \in Int /\ 0 <= m
  BY <1>1, DivMod
<1>3. d \in Int
  BY <1>1 DEF Positive
<1>. HIDE DEF n, d, q, m
<1>4. d * q <= n
  <2>1. d * q \in Int
    BY <1>2, <1>3
  <2>. QED  BY <1>2, <2>1
<1>. QED  BY <1>2, <1>4 DEF MulInt64, n, d, q

\* A share of a natural amount, by a fraction that is not negative.
LEMMA TimesNatural ==
    ASSUME NEW x \in SignedFractions, x.num >= 0, NEW c \in Nat
    PROVE  MulInt64(x, c) \in Nat
<1> DEFINE n == x.num * c
           d == x.den
           q == n \div d
           m == n % d
<1>1. x.num \in Nat /\ d \in Positive /\ n \in Int /\ n >= 0
  BY DEF SignedFractions, Positive
<1>2. n = d * q + m /\ q \in Int /\ m \in Int /\ m < d
  BY <1>1, DivMod
<1>3. d \in Int /\ d >= 1
  BY <1>1 DEF Positive
<1>. HIDE DEF n, d, q, m
<1>4. ASSUME q <= -1 PROVE FALSE
  <2>1. d * q <= -d /\ d * q \in Int
    BY <1>2, <1>3, <1>4
  <2>. QED  BY <1>1, <1>2, <1>3, <2>1
<1>5. q \in Nat
  BY <1>2, <1>4
<1>. QED  BY <1>5 DEF MulInt64, n, d, q

\* At most all of an amount, by a fraction of at most one.
LEMMA TimesAtMostAll ==
    ASSUME NEW x \in Fractions, x.num <= x.den, NEW c \in Nat
    PROVE  MulInt64(x, c) \in Nat /\ MulInt64(x, c) <= c
<1>1. x \in SignedFractions /\ x.num \in Nat /\ x.den \in Nat /\ x.den >= 1
  BY DEF Fractions, SignedFractions, Positive
<1>2. MulInt64(x, c) \in Nat /\ x.den * MulInt64(x, c) <= x.num * c
  BY <1>1, TimesNatural, TimesRounds
<1> DEFINE t == MulInt64(x, c)
           d == x.den
<1>3. x.num * c <= d * c
  BY <1>1
<1>4. d * t <= d * c
  <2>1. x.num * c \in Int /\ d * c \in Int /\ d * t \in Int
    BY <1>1, <1>2
  <2>. QED  BY <1>2, <1>3, <2>1
<1>5. t \in Nat /\ d \in Nat /\ d >= 1
  BY <1>1, <1>2
<1>. HIDE DEF t, d
<1>6. CASE t >= c + 1
  <2>1. d * t >= d * c + d
    BY <1>5, <1>6
  <2>2. d * c \in Int /\ d * t \in Int
    BY <1>5
  <2>. QED  BY <1>4, <1>5, <2>1, <2>2
<1>. QED  BY <1>5, <1>6 DEF t

(***************************************************************************)
(* SplitFee shares such an amount without a remainder.                     *)
(***************************************************************************)
LEMMA SharedExactly ==
    ASSUME NEW r \in SplitRatios, NEW c \in Nat, c % RatiosLCM(r) = 0
    PROVE  SplitFee(c, r).proposer + SplitFee(c, r).company + SplitFee(c, r).burning = c
<1> DEFINE p == r.proposer
           q == r.company
           b == ForBurning(r)
           L == RatiosLCM(r)
<1>1. p \in SignedFractions /\ q \in SignedFractions
  BY DEF SplitRatios, Fractions, SignedFractions, Positive
<1>2. PICK s \in Positive, t \in Positive :
        b \in SignedFractions /\ b.den = p.den * s /\ b.den = q.den * t
        /\ b.num = b.den - p.num * s - q.num * t
  BY ForBurningValue
<1>3. L \in Positive /\ \E i \in Positive : L = b.den * i
  BY RatiosLCMValue
<1>4. PICK i \in Positive : L = b.den * i
  BY <1>3
<1> DEFINE w == i * (c \div L)
<1>5. w \in Int /\ c = b.den * w
  <2>1. c = L * (c \div L) + (c % L) /\ c \div L \in Int
    BY <1>3, DivMod
  <2> DEFINE k == c \div L
  <2>2. k \in Int /\ c = L * k /\ L \in Int
    BY <1>3, <2>1 DEF Positive
  <2>3. i \in Int /\ b.den \in Int
    BY <1>2 DEF Positive, SignedFractions
  <2>. HIDE DEF k, L, b
  <2>4. (b.den * i) * k = b.den * (i * k) /\ i * k \in Int
    BY <2>2, <2>3
  <2>. QED  BY <1>4, <2>2, <2>4 DEF k
<1>. HIDE DEF p, q, b, L, w
<1>6. /\ p.num \in Int /\ p.den \in Int /\ q.num \in Int /\ q.den \in Int
      /\ b.num \in Int /\ b.den \in Int /\ s \in Int /\ t \in Int
  BY <1>1, <1>2 DEF SignedFractions, Positive
<1>7. c = p.den * (s * w) /\ c = q.den * (t * w) /\ s * w \in Int /\ t * w \in Int
  <2>1. (p.den * s) * w = p.den * (s * w) /\ (q.den * t) * w = q.den * (t * w)
    BY <1>5, <1>6
  <2>. QED  BY <1>2, <1>5, <1>6, <2>1
<1>8. /\ MulInt64(p, c) = p.num * (s * w)
      /\ MulInt64(q, c) = q.num * (t * w)
      /\ MulInt64(b, c) = b.num * w
  BY <1>1, <1>2, <1>5, <1>7, TimesExact
<1>9. b.num * w = b.den * w - p.num * (s * w) - q.num * (t * w)
  <2>1. (b.den - p.num * s - q.num * t) * w = b.den * w - p.num * (s * w) - q.num * (t * w)
    BY <1>5, <1>6
  <2>. QED  BY <1>2, <2>1
<1>10. /\ p.num * (s * w) \in Int /\ q.num * (t * w) \in Int
  BY <1>6, <1>7
<1> DEFINE x == p.num * (s * w)
           y == q.num * (t * w)
<1>11. x + y + (c - x - y) = c
  BY <1>10
<1>12. MulInt64(p, c) + MulInt64(q, c) + MulInt64(b, c) = c
  BY <1>5, <1>8, <1>9, <1>11
<1>. QED  BY <1>12 DEF SplitFee, p, q, b

(***************************************************************************)
(* Of any other amount it gives away at most all.                          *)
(***************************************************************************)
LEMMA SharedAtMostAll ==
    ASSUME NEW r \in SplitRatios, NEW c \in Nat
    PROVE  SplitFee(c, r).proposer + SplitFee(c, r).company + SplitFee(c, r).burning <= c
<1> DEFINE p == r.proposer
           q == r.company
           b == ForBurning(r)
           x == MulInt64(p, c)
           y == MulInt64(q, c)
           z == MulInt64(b, c)
<1>1. p \in SignedFractions /\ q \in SignedFractions
  BY DEF SplitRatios, Fractions, SignedFractions, Positive
<1>2. PICK s \in Positive, t \in Positive :
        b \in SignedFractions /\ b.den = p.den * s /\ b.den = q.den * t
        /\ b.num = b.den - p.num * s - q.num * t
  BY ForBurningValue
<1>. HIDE DEF p, q, b
<1>3. /\ p.num \in Int /\ p.den \in Int /\ q.num \in Int /\ q.den \in Int
      /\ b.num \in Int /\ b.den \in Int /\ b.den >= 1
      /\ s \in Nat /\ t \in Nat /\ s >= 1 /\ t >= 1
  BY <1>1, <1>2 DEF SignedFractions, Positive
<1>4. /\ x \in Int /\ p.den * x <= p.num * c
      /\ y \in Int /\ q.den * y <= q.num * c
      /\ z \in Int /\ b.den * z <= b.num * c
  BY <1>1, <1>2, TimesRounds
<1>. HIDE DEF x, y, z
<1>5. b.den * x <= (p.num * s) * c
  <2>1. (p.num * c - p.den * x) * s >= 0
    BY <1>3, <1>4
  <2>2. (p.num * c - p.den * x) * s = (p.num * s) * c - (p.den * s) * x
    BY <1>3, <1>4
  <2>. QED  BY <1>2, <1>3, <1>4, <2>1, <2>2
<1>6. b.den * y <= (q.num * t) * c
  <2>1. (q.num * c - q.den * y) * t >= 0
    BY <1>3, <1>4
  <2>2. (q.num * c - q.den * y) * t = (q.num * t) * c - (q.den * t) * y
    BY <1>3, <1>4
  <2>. QED  BY <1>2, <1>3, <1>4, <2>1, <2>2
<1>7. b.num * c = b.den * c - (p.num * s) * c - (q.num * t) * c
  BY <1>2, <1>3
<1> DEFINE u == x + y + z
<1>8. b.den * u = b.den * x + b.den * y + b.den * z /\ u \in Int
  BY <1>3, <1>4
<1>9. /\ b.den * x \in Int /\ b.den * y \in Int /\ b.den * z \in Int /\ b.den * c \in Int
      /\ (p.num * s) * c \in Int /\ (q.num * t) * c \in Int
  BY <1>3, <1>4
<1>. HIDE DEF u
<1>10. b.den * u <= b.den * c
  BY <1>4, <1>5, <1>6, <1>7, <1>8, <1>9
<1>11. ASSUME u >= c + 1 PROVE FALSE
  <2>1. b.den * u >= b.den * c + b.den
    BY <1>3, <1>8, <1>11
  <2>2. b.den * u \in Int
    BY <1>3, <1>8
  <2>. QED  BY <1>3, <1>9, <1>10, <2>1, <2>2
<1>12. u <= c
  BY <1>8, <1>11
<1>. QED  BY <1>12 DEF SplitFee, u, x, y, z, p, q, b

(***************************************************************************)
(* A fee is a natural number that can be shared exactly.                   *)
(***************************************************************************)
LEMMA FeeValue ==
    ASSUME NEW x \in Nat, ratios \in SplitRatios
    PROVE  Fee(x) \in Nat /\ Fee(x) % RatiosLCM(ratios) = 0
<1> DEFINE L == RatiosLCM(ratios)
           full == MulInt64(TransactionFee, x)
           f == IF MaxTransactionFee # 0 /\ full > MaxTransactionFee
                THEN MaxTransactionFee ELSE full
<1>1. L \in Positive
  BY RatiosLCMValue
<1>2. full \in Nat
  <2>1. TransactionFee \in SignedFractions /\ TransactionFee.num >= 0
    BY BankAssumption DEF Fractions, SignedFractions, Positive
  <2>. QED  BY <2>1, TimesNatural
<1>3. f \in Nat
  BY <1>2, BankAssumption
<1>. HIDE DEF L, f
<1> DEFINE k == f \div L
<1>4. f = L * k + (f % L) /\ k \in Int /\ f % L \in Int /\ f % L < L
  BY <1>1, <1>3, DivMod
<1>5. L \in Int /\ L >= 1
  BY <1>1 DEF Positive
<1>6. f - (f % L) = k * L
  <2>1. L * k = k * L /\ L * k \in Int
    BY <1>4, <1>5
  <2>. QED  BY <1>3, <1>4, <2>1
<1>. HIDE DEF k
<1>7. k * L \in Nat
  <2>1. CASE k <= -1
    <3>1. L * k <= -L /\ L * k \in Int
      BY <1>4, <1>5, <2>1
    <3>. QED  BY <1>3, <1>4, <1>5, <3>1
  <2>. QED  BY <1>4, <1>5, <2>1
<1>8. (k * L) % L = 0
  BY <1>1, <1>4, MultipleMod
<1>9. Fee(x) = f - (f % L)
  BY DEF Fee, CalculateFee, Splittable, f, L
<1>. QED  BY <1>6, <1>7, <1>8, <1>9 DEF L

(***************************************************************************)
(* With a fraction of at most everything the fee is part of the amount.    *)
(***************************************************************************)
LEMMA FeeAtMostAll ==
    ASSUME NEW x \in Nat, ratios \in SplitRatios, TransactionFee.num <= TransactionFee.den
    PROVE  Fee(x) <= x
<1> DEFINE L == RatiosLCM(ratios)
           full == MulInt64(TransactionFee, x)
           f == IF MaxTransactionFee # 0 /\ full > MaxTransactionFee
                THEN MaxTransactionFee ELSE full
<1>1. L \in Positive
  BY RatiosLCMValue
<1>2. full \in Nat /\ full <= x
  BY TimesAtMostAll, BankAssumption
<1>. HIDE DEF full
<1>3. f \in Nat /\ f <= x
  BY <1>2, BankAssumption
<1>4. Fee(x) = f - (f % L)
  BY DEF Fee, CalculateFee, Splittable, f, full, L
<1>. HIDE DEF L, f
<1>5. f % L \in Int /\ 0 <= f % L
  BY <1>1, <1>3, DivMod
<1>. QED  BY <1>3, <1>4, <1>5

-----------------------------------------------------------------------------
(* Balances and their totals.                                              *)

Ledgers == [Holders -> [Denoms -> Int]]
Records == [Denoms -> Int]
Owned(b, d) == [h \in Holders |-> b[h][d]]
TotalOf(b, d) == SumOver(Owned(b, d), Holders)

LEMMA HoldersFinite == IsFiniteSet(Holders)
<1>1. IsFiniteSet(Users \cup {Company})
  BY BankAssumption, FS_AddElement
<1>2. IsFiniteSet({"fee_collector"} \cup {"splittable_fee_collector"})
  BY FS_AddElement, FS_Singleton
<1>3. IsFiniteSet({"noding"} \cup {"transfer"})
  BY FS_AddElement, FS_Singleton
<1> DEFINE U == Users \cup {Company}
           V == {"fee_collector"} \cup {"splittable_fee_collector"}
           W == {"noding"} \cup {"transfer"}
<1>4. Holders = (U \cup V) \cup W
  BY DEF Holders, Collectors
<1>. HIDE DEF U, V, W
<1>5. IsFiniteSet((U \cup V) \cup W)
  <2>1. IsFiniteSet(U \cup V)
    BY <1>1, <1>2, FS_Union DEF U, V
  <2>. QED  BY <2>1, <1>3, FS_Union DEF W
<1>. QED  BY <1>4, <1>5

(***************************************************************************)
(* Users, the company and the modules are different holders.               *)
(***************************************************************************)
LEMMA HolderFacts ==
    ASSUME NEW a \in Users
    PROVE  /\ a \in Holders /\ a \notin Collectors /\ a # "noding" /\ a # "transfer"
           /\ a # Company
           /\ Company \in Holders /\ Company \notin Collectors
           /\ Collectors \subseteq Holders /\ "noding" \in Holders
           /\ "transfer" \in Holders
           /\ "fee_collector" \in Collectors /\ "splittable_fee_collector" \in Collectors
           /\ \A d \in {"main", "delegated", "revoking", "voucher"} : d \in Denoms
BY BankAssumption DEF Holders, Collectors, Denoms

(***************************************************************************)
(* The total that the genesis code and the invariant compute is the sum.   *)
(***************************************************************************)
LEMMA TotalIsSum == ASSUME NEW d PROVE Total(d) = TotalOf(balance, d)
<1> DEFINE f == Owned(balance, d)
           IsIter(g) == g = [s \in SUBSET Holders |->
                          IF s = {} THEN 0
                          ELSE balance[CHOOSE x \in s : TRUE][d]
                                 + g[s \ {CHOOSE x \in s : TRUE}]]
           iter == CHOOSE g : IsIter(g)
<1>1. \A g : SumsFrom(g, f, Holders) <=> IsIter(g)
  BY PickInSet DEF SumsFrom, Pick, Owned
<1>2. IsIter(iter)
  <2>. HIDE DEF IsIter, f
  <2>1. SumsFrom(SumsOf(f, Holders), f, Holders)
    BY SumsExist, HoldersFinite
  <2>2. \E g : IsIter(g)
    BY <1>1, <2>1
  <2>. QED  BY <2>2
<1>3. Total(d) = iter[Holders]
  BY DEF Total, MapThenSumSet, MapThenFoldSet
<1>. HIDE DEF iter, IsIter, f
<1>4. iter[Holders] = SumOver(f, Holders)
  BY <1>1, <1>2, HoldersFinite, SumUnique
<1>. QED  BY <1>3, <1>4 DEF f, TotalOf

LEMMA TotalType ==
    ASSUME NEW b \in Ledgers, NEW d \in Denoms
    PROVE  /\ TotalOf(b, d) \in Int
           /\ (\A h \in Holders : b[h][d] >= 0) => TotalOf(b, d) >= 0
<1>1. \A h \in Holders : Owned(b, d)[h] = b[h][d] /\ b[h][d] \in Int
  BY DEF Ledgers, Owned
<1>2. TotalOf(b, d) \in Int
  BY <1>1, HoldersFinite, SumType DEF TotalOf
<1>3. ASSUME \A h \in Holders : b[h][d] >= 0 PROVE TotalOf(b, d) \in Nat
  <2>1. \A h \in Holders : Owned(b, d)[h] \in Nat
    BY <1>1, <1>3
  <2>. QED  BY <2>1, HoldersFinite, SumType DEF TotalOf
<1>. QED  BY <1>2, <1>3

(***************************************************************************)
(* AddCoins and SubtractCoins change one balance, and the total with it.   *)
(***************************************************************************)
LEMMA AddValue ==
    ASSUME NEW b \in Ledgers, NEW h \in Holders, NEW d \in Denoms, NEW x \in Int
    PROVE  /\ AddCoins(b, h, d, x) \in Ledgers
           /\ \A k \in Holders, e \in Denoms :
                AddCoins(b, h, d, x)[k][e]
                  = IF k = h /\ e = d THEN b[k][e] + x ELSE b[k][e]
           /\ \A e \in Denoms :
                TotalOf(AddCoins(b, h, d, x), e)
                  = IF e = d THEN TotalOf(b, e) + x ELSE TotalOf(b, e)
<1> DEFINE c == AddCoins(b, h, d, x)
<1>1. c \in Ledgers
  BY DEF AddCoins, Ledgers
<1>2. \A k \in Holders, e \in Denoms :
        c[k][e] = IF k = h /\ e = d THEN b[k][e] + x ELSE b[k][e]
  BY DEF AddCoins, Ledgers
<1>. HIDE DEF c
<1>3. ASSUME NEW e \in Denoms
      PROVE  TotalOf(c, e) = IF e = d THEN TotalOf(b, e) + x ELSE TotalOf(b, e)
  <2> DEFINE f == Owned(b, e)
             g == Owned(c, e)
  <2>1. \A k \in Holders : /\ f[k] = b[k][e] /\ g[k] = c[k][e]
                           /\ f[k] \in Int /\ g[k] \in Int
                           /\ (k # h => g[k] = f[k])
    BY <1>1, <1>2 DEF Owned, Ledgers
  <2>. HIDE DEF f, g
  <2>2. SumOver(g, Holders) = SumOver(f, Holders) + g[h] - f[h]
    BY <2>1, HoldersFinite, SumChange
  <2>3. SumOver(f, Holders) \in Int
    BY <2>1, HoldersFinite, SumType
  <2>4. g[h] = IF e = d THEN f[h] + x ELSE f[h]
    BY <1>2, <2>1
  <2>. QED  BY <2>1, <2>2, <2>3, <2>4 DEF TotalOf, f, g
<1>. QED  BY <1>1, <1>2, <1>3 DEF c

LEMMA SubtractValue ==
    ASSUME NEW b \in Ledgers, NEW h \in Holders, NEW d \in Denoms, NEW x \in Int
    PROVE  /\ SubtractCoins(b, h, d, x) \in Ledgers
           /\ \A k \in Holders, e \in Denoms :
                SubtractCoins(b, h, d, x)[k][e]
                  = IF k = h /\ e = d THEN b[k][e] - x ELSE b[k][e]
           /\ \A e \in Denoms :
                TotalOf(SubtractCoins(b, h, d, x), e)
                  = IF e = d THEN TotalOf(b, e) - x ELSE TotalOf(b, e)
<1>1. SubtractCoins(b, h, d, x) = AddCoins(b, h, d, -x)
  BY DEF SubtractCoins, AddCoins, Ledgers
<1>2. \A k \in Holders, e \in Denoms : b[k][e] \in Int /\ b[k][e] + (-x) = b[k][e] - x
  BY DEF Ledgers
<1>3. \A e \in Denoms : TotalOf(b, e) \in Int /\ TotalOf(b, e) + (-x) = TotalOf(b, e) - x
  BY TotalType
<1> DEFINE y == -x
           c == AddCoins(b, h, d, y)
<1>4. y \in Int
  OBVIOUS
<1>5. SubtractCoins(b, h, d, x) = c
  BY <1>1
<1>. HIDE DEF y, c
<1>6. /\ c \in Ledgers
      /\ \A k \in Holders, e \in Denoms :
            c[k][e] = IF k = h /\ e = d THEN b[k][e] + y ELSE b[k][e]
      /\ \A e \in Denoms :
            TotalOf(c, e) = IF e = d THEN TotalOf(b, e) + y ELSE TotalOf(b, e)
  BY <1>4, AddValue DEF c
<1>7. /\ \A k \in Holders, e \in Denoms : b[k][e] + y = b[k][e] - x
      /\ \A e \in Denoms : TotalOf(b, e) + y = TotalOf(b, e) - x
  BY <1>2, <1>3 DEF y
<1>. QED  BY <1>5, <1>6, <1>7

\* SendCoins moves, and leaves the total.
LEMMA SendValue ==
    ASSUME NEW b \in Ledgers, NEW h \in Holders, NEW k \in Holders,
           NEW d \in Denoms, NEW x \in Int
    PROVE  /\ SendCoins(b, h, k, d, x) \in Ledgers
           /\ \A l \in Holders, e \in Denoms :
                SendCoins(b, h, k, d, x)[l][e]
                  = b[l][e] - (IF l = h /\ e = d THEN x ELSE 0)
                            + (IF l = k /\ e = d THEN x ELSE 0)
           /\ \A e \in Denoms : TotalOf(SendCoins(b, h, k, d, x), e) = TotalOf(b, e)
<1> DEFINE c == SubtractCoins(b, h, d, x)
<1>1. /\ c \in Ledgers
      /\ \A l \in Holders, e \in Denoms :
            c[l][e] = IF l = h /\ e = d THEN b[l][e] - x ELSE b[l][e]
      /\ \A e \in Denoms :
            TotalOf(c, e) = IF e = d THEN TotalOf(b, e) - x ELSE TotalOf(b, e)
  BY SubtractValue
<1>2. SendCoins(b, h, k, d, x) = AddCoins(c, k, d, x)
  BY DEF SendCoins
<1>. HIDE DEF c
<1>3. /\ AddCoins(c, k, d, x) \in Ledgers
      /\ \A l \in Holders, e \in Denoms :
            AddCoins(c, k, d, x)[l][e] = IF l = k /\ e = d THEN c[l][e] + x ELSE c[l][e]
      /\ \A e \in Denoms :
            TotalOf(AddCoins(c, k, d, x), e)
              = IF e = d THEN TotalOf(c, e) + x ELSE TotalOf(c, e)
  BY <1>1, AddValue
<1>4. \A l \in Holders, e \in Denoms : b[l][e] \in Int
  BY DEF Ledgers
<1>5. \A e \in Denoms : TotalOf(b, e) \in Int
  BY TotalType
<1>6. ASSUME NEW l \in Holders, NEW e \in Denoms
      PROVE  AddCoins(c, k, d, x)[l][e]
               = b[l][e] - (IF l = h /\ e = d THEN x ELSE 0)
                         + (IF l = k /\ e = d THEN x ELSE 0)
  BY <1>1, <1>3, <1>4
<1>7. ASSUME NEW e \in Denoms PROVE TotalOf(AddCoins(c, k, d, x), e) = TotalOf(b, e)
  BY <1>1, <1>3, <1>5
<1>. QED  BY <1>2, <1>3, <1>6, <1>7

\* PayTxFee is one transfer more.
LEMMA FeePaid ==
    ASSUME NEW b \in Ledgers, NEW a \in Users, NEW x \in Nat, ratios \in SplitRatios
    PROVE  /\ PayTxFee(b, a, x) \in Ledgers /\ Fee(x) \in Nat
           /\ \A l \in Holders, e \in Denoms :
                PayTxFee(b, a, x)[l][e]
                  = IF e # "main" THEN b[l][e]
                    ELSE IF l = a THEN b[l][e] - Fee(x)
                    ELSE IF l = "splittable_fee_collector" THEN b[l][e] + Fee(x)
                    ELSE b[l][e]
           /\ \A e \in Denoms : TotalOf(PayTxFee(b, a, x), e) = TotalOf(b, e)
<1> DEFINE f == Fee(x)
           c == SendCoins(b, a, "splittable_fee_collector", "main", f)
<1>1. f \in Nat
  BY FeeValue
<1>2. /\ a \in Holders /\ "splittable_fee_collector" \in Holders /\ "main" \in Denoms
      /\ a # "splittable_fee_collector"
  BY HolderFacts
<1>3. PayTxFee(b, a, x) = c
  BY DEF PayTxFee
<1>. HIDE DEF f
<1>4. f \in Int
  BY <1>1
<1>5. /\ c \in Ledgers
      /\ \A l \in Holders, e \in Denoms :
            c[l][e] = b[l][e] - (IF l = a /\ e = "main" THEN f ELSE 0)
                      + (IF l = "splittable_fee_collector" /\ e = "main" THEN f ELSE 0)
      /\ \A e \in Denoms : TotalOf(c, e) = TotalOf(b, e)
  BY <1>2, <1>4, SendValue
<1>. HIDE DEF c
<1>6. ASSUME NEW l \in Holders, NEW e \in Denoms
      PROVE  c[l][e] = IF e # "main" THEN b[l][e]
                       ELSE IF l = a THEN b[l][e] - f
                       ELSE IF l = "splittable_fee_collector" THEN b[l][e] + f
                       ELSE b[l][e]
  <2>1. b[l][e] \in Int
    BY DEF Ledgers
  <2>. QED  BY <1>2, <1>4, <1>5, <2>1
<1>. QED  BY <1>1, <1>3, <1>5, <1>6 DEF f

\* What the record of the supply holds after Inflate and Deflate.
LEMMA SupplyValue ==
    ASSUME NEW s \in Records, NEW d \in Denoms, NEW x \in Int
    PROVE  /\ Inflate(s, d, x) \in Records /\ Deflate(s, d, x) \in Records
           /\ \A e \in Denoms :
                /\ Inflate(s, d, x)[e] = IF e = d THEN s[e] + x ELSE s[e]
                /\ Deflate(s, d, x)[e] = IF e = d THEN s[e] - x ELSE s[e]
BY DEF Inflate, Deflate, Records

\* An exchange changes two denominations of one holder and of the supply.
LEMMA ExchangeValue ==
    ASSUME NEW b \in Ledgers, NEW a \in Holders, NEW d \in Denoms, NEW z \in Denoms, d # z,
           NEW s \in Records, NEW x \in Int, NEW y \in Int
    PROVE  /\ Exchange(b, a, d, x, z, y) \in Ledgers
           /\ Exchanged(s, d, x, z, y) \in Records
           /\ \A l \in Holders, g \in Denoms :
                Exchange(b, a, d, x, z, y)[l][g]
                  = IF l # a THEN b[l][g]
                    ELSE IF g = d THEN b[l][g] - x
                    ELSE IF g = z THEN b[l][g] + y ELSE b[l][g]
           /\ \A g \in Denoms :
                Exchanged(s, d, x, z, y)[g] - TotalOf(Exchange(b, a, d, x, z, y), g)
                  = s[g] - TotalOf(b, g)
<1> DEFINE c == SubtractCoins(b, a, d, x)
           t == Deflate(s, d, x)
<1>1. /\ c \in Ledgers
      /\ \A l \in Holders, g \in Denoms :
            c[l][g] = IF l = a /\ g = d THEN b[l][g] - x ELSE b[l][g]
      /\ \A g \in Denoms :
            TotalOf(c, g) = IF g = d THEN TotalOf(b, g) - x ELSE TotalOf(b, g)
  <2>. HIDE DEF t
  <2>. QED  BY SubtractValue
<1>2. /\ t \in Records
      /\ \A g \in Denoms : t[g] = IF g = d THEN s[g] - x ELSE s[g]
  BY SupplyValue
<1>3. /\ Exchange(b, a, d, x, z, y) = AddCoins(c, a, z, y)
      /\ Exchanged(s, d, x, z, y) = Inflate(t, z, y)
  BY DEF Exchange, Exchanged
<1>. HIDE DEF c, t
<1> DEFINE k == AddCoins(c, a, z, y)
<1>4. /\ k \in Ledgers
      /\ \A l \in Holders, g \in Denoms :
            k[l][g] = IF l = a /\ g = z THEN c[l][g] + y ELSE c[l][g]
      /\ \A g \in Denoms :
            TotalOf(k, g) = IF g = z THEN TotalOf(c, g) + y ELSE TotalOf(c, g)
  BY <1>1, AddValue
<1>. HIDE DEF k
<1> DEFINE u == Inflate(t, z, y)
<1>5. /\ u \in Records
      /\ \A g \in Denoms : u[g] = IF g = z THEN t[g] + y ELSE t[g]
  BY <1>2, SupplyValue
<1>. HIDE DEF u
<1>6. ASSUME NEW l \in Holders, NEW g \in Denoms
      PROVE  k[l][g] = IF l # a THEN b[l][g]
                       ELSE IF g = d THEN b[l][g] - x
                       ELSE IF g = z THEN b[l][g] + y ELSE b[l][g]
  BY <1>1, <1>4
<1>7. ASSUME NEW g \in Denoms PROVE u[g] - TotalOf(k, g) = s[g] - TotalOf(b, g)
  <2>1. TotalOf(b, g) \in Int /\ s[g] \in Int
    BY TotalType DEF Records
  <2>. QED  BY <1>1, <1>2, <1>4, <1>5, <2>1
<1>. QED  BY <1>3, <1>4, <1>5, <1>6, <1>7 DEF k, u

-----------------------------------------------------------------------------
(* The inductive invariant.  What is recorded never falls below what is    *)
(* owned, or subtracting from the record could go below zero.              *)

Balances == [Holders -> [Denoms -> Nat]]
Collected == balance["splittable_fee_collector"]["main"]
Beyond(d) == supply[d] - TotalOf(balance, d)

Covered == \A d \in Denoms : Beyond(d) >= 0
FeesDivide == ~mixed => Collected % RatiosLCM(ratios) = 0

BankIInv == BankTypeOK /\ Covered /\ FeesDivide

\* What every operation but Accrue does: the record and the total move together.
Together ==
    /\ balance' \in Balances /\ supply' \in Records
    /\ \A d \in Denoms : Beyond(d)' = Beyond(d)
    /\ FeesDivide'

\* What the invariant says of the present state, for the lemmas above.
LEMMA BankKnown ==
    ASSUME BankIInv
    PROVE  /\ balance \in Ledgers /\ supply \in Records
           /\ \A l \in Holders, e \in Denoms : balance[l][e] \in Nat
           /\ ratios \in SplitRatios /\ Valid(ratios) /\ Collected \in Nat
<1>1. balance \in Balances /\ supply \in [Denoms -> Nat] /\ ratios \in Ratios
  BY DEF BankIInv, BankTypeOK, Balances
<1>2. balance \in Ledgers /\ \A l \in Holders, e \in Denoms : balance[l][e] \in Nat
  BY <1>1 DEF Balances, Ledgers
<1>3. supply \in Records
  BY <1>1 DEF Records
<1>4. ratios \in SplitRatios /\ Valid(ratios)
  BY <1>1, BankAssumption DEF SplitRatios
<1>5. "splittable_fee_collector" \in Holders /\ "main" \in Denoms
  BY DEF Holders, Collectors, Denoms
<1>. QED  BY <1>2, <1>3, <1>4, <1>5 DEF Collected

\* What can be shared exactly, and what can be shared exactly.
LEMMA DividesSum ==
    ASSUME NEW x \in Int, NEW y \in Int, NEW d \in Positive, x % d = 0, y % d = 0
    PROVE  (x + y) % d = 0
<1> DEFINE i == x \div d
           j == y \div d
           k == i + j
<1>1. /\ x = d * i + (x % d) /\ i \in Int
      /\ y = d * j + (y % d) /\ j \in Int
  BY DivMod
<1>. HIDE DEF i, j
<1>2. x + y = k * d /\ k \in Int
  <2>1. d \in Int
    BY DEF Positive
  <2>. QED  BY <1>1, <2>1
<1>. HIDE DEF k
<1>3. (k * d) % d = 0
  BY <1>2, MultipleMod
<1>. QED  BY <1>2, <1>3

(***************************************************************************)
(* To show Together of an operation: its balances are naturals, both sums  *)
(* move alike, and the fees grow by what can be shared exactly unless the  *)
(* operation mixes them.                                                   *)
(***************************************************************************)
LEMMA ToTogether ==
    ASSUME BankIInv, NEW c \in Ledgers, NEW t \in Records, balance' = c, supply' = t,
           \A l \in Holders, e \in Denoms : c[l][e] >= 0,
           \A e \in Denoms : t[e] - TotalOf(c, e) = supply[e] - TotalOf(balance, e),
           ratios' = ratios, NEW f \in Nat, f % RatiosLCM(ratios) = 0,
           ~mixed' => ~mixed /\ c["splittable_fee_collector"]["main"] = Collected + f
    PROVE  Together
<1>1. balance' \in Balances
  BY DEF Ledgers, Balances
<1>2. \A d \in Denoms : Beyond(d)' = Beyond(d)
  BY DEF Beyond
<1>3. FeesDivide'
  <2>1. Collected \in Nat /\ RatiosLCM(ratios) \in Positive
    BY BankKnown, RatiosLCMValue
  <2>2. ASSUME ~mixed' PROVE Collected' = Collected + f /\ Collected % RatiosLCM(ratios) = 0
    BY <2>2 DEF BankIInv, FeesDivide, Collected
  <2>3. ASSUME ~mixed' PROVE (Collected + f) % RatiosLCM(ratios) = 0
    BY <2>1, <2>2, <2>3, DividesSum
  <2>4. RatiosLCM(ratios)' = RatiosLCM(ratios)
    OBVIOUS
  <2>. QED  BY <2>2, <2>3, <2>4 DEF FeesDivide
<1>. QED  BY <1>1, <1>2, <1>3 DEF Together

\* Nothing can be shared exactly.
LEMMA NothingDivides == ASSUME BankIInv PROVE 0 % RatiosLCM(ratios) = 0
<1>1. RatiosLCM(ratios) \in Positive
  BY BankKnown, RatiosLCMValue
<1>. HIDE DEF BankIInv
<1>2. (0 * RatiosLCM(ratios)) % RatiosLCM(ratios) = 0
  BY <1>1, MultipleMod
<1>3. 0 * RatiosLCM(ratios) = 0
  BY <1>1 DEF Positive
<1>. QED  BY <1>2, <1>3

-----------------------------------------------------------------------------
(* The operations, one by one.                                             *)

LEMMA SendTogether ==
    ASSUME BankIInv, NEW a \in Users, NEW to \in Users \cup Collectors, NEW x \in Amounts,
           Send(a, to, x)
    PROVE  Together
<1> DEFINE p == PayTxFee(balance, a, x)
           c == SendCoins(p, a, to, "main", x)
           f == Fee(x)
<1>1. x \in Nat /\ x >= 1
  BY BankAssumption
<1>2. /\ balance \in Ledgers /\ supply \in Records /\ ratios \in SplitRatios
      /\ \A l \in Holders, e \in Denoms : balance[l][e] \in Nat
  BY BankKnown
<1>3. /\ a \in Holders /\ to \in Holders /\ "main" \in Denoms
      /\ "splittable_fee_collector" \in Holders /\ a # "splittable_fee_collector"
  BY HolderFacts DEF Holders
<1>4. /\ f \in Nat /\ f % RatiosLCM(ratios) = 0
  BY <1>1, <1>2, FeeValue
<1>5. /\ p \in Ledgers
      /\ \A l \in Holders, e \in Denoms :
            p[l][e] = IF e # "main" THEN balance[l][e]
                      ELSE IF l = a THEN balance[l][e] - f
                      ELSE IF l = "splittable_fee_collector" THEN balance[l][e] + f
                      ELSE balance[l][e]
      /\ \A e \in Denoms : TotalOf(p, e) = TotalOf(balance, e)
  <2>1. balance \in Ledgers /\ x \in Nat /\ ratios \in SplitRatios
    BY <1>1, <1>2
  <2>. QED  BY ONLY <2>1, a \in Users, FeePaid
<1>6. /\ balance' = c /\ supply' = supply /\ ratios' = ratios
      /\ balance[a]["main"] >= f + x
      /\ mixed' = (mixed \/ to = "splittable_fee_collector")
  BY DEF Send, Settings
<1>. HIDE DEF p, f
<1>7. x \in Int
  BY <1>1
<1>8. /\ c \in Ledgers
      /\ \A l \in Holders, e \in Denoms :
            c[l][e] = p[l][e] - (IF l = a /\ e = "main" THEN x ELSE 0)
                              + (IF l = to /\ e = "main" THEN x ELSE 0)
      /\ \A e \in Denoms : TotalOf(c, e) = TotalOf(p, e)
  <2>1. p \in Ledgers /\ a \in Holders /\ to \in Holders /\ "main" \in Denoms
    BY <1>3, <1>5
  <2>. QED  BY ONLY <2>1, <1>7, SendValue
<1>. HIDE DEF c
<1>9. ASSUME NEW l \in Holders, NEW e \in Denoms PROVE c[l][e] >= 0
  <2>1. balance[l][e] \in Nat /\ balance[a]["main"] \in Nat
    BY <1>2, <1>3
  <2>. QED  BY <1>1, <1>4, <1>5, <1>6, <1>8, <2>1
<1>10. ASSUME ~mixed'
       PROVE  ~mixed /\ c["splittable_fee_collector"]["main"] = Collected + f
  <2>1. ~mixed /\ to # "splittable_fee_collector"
    BY <1>6, <1>10
  <2>2. balance["splittable_fee_collector"]["main"] \in Nat
    BY <1>2, <1>3
  <2>. QED  BY <1>3, <1>4, <1>5, <1>8, <2>1, <2>2 DEF Collected
<1>11. \A e \in Denoms : supply[e] - TotalOf(c, e) = supply[e] - TotalOf(balance, e)
  BY <1>5, <1>8
<1>. QED  BY <1>2, <1>4, <1>6, <1>8, <1>9, <1>10, <1>11, ToTogether

LEMMA BurnTogether ==
    ASSUME BankIInv, NEW a \in Users, NEW x \in Amounts, Burn(a, x)
    PROVE  Together
<1> DEFINE c == SubtractCoins(balance, a, "main", x)
           t == Deflate(supply, "main", x)
<1>1. x \in Int /\ x >= 1
  BY BankAssumption
<1>2. /\ balance \in Ledgers /\ supply \in Records
      /\ \A l \in Holders, e \in Denoms : balance[l][e] \in Nat
  BY BankKnown
<1>3. /\ a \in Holders /\ "main" \in Denoms
      /\ "splittable_fee_collector" \in Holders /\ a # "splittable_fee_collector"
  BY HolderFacts
<1>4. /\ balance' = c /\ supply' = t /\ ratios' = ratios /\ mixed' = mixed
      /\ balance[a]["main"] >= x
  BY DEF Burn, Settings
<1>5. t \in Records /\ \A e \in Denoms : t[e] = IF e = "main" THEN supply[e] - x ELSE supply[e]
  BY <1>1, <1>2, <1>3, SupplyValue
<1>. HIDE DEF t
<1>6. /\ c \in Ledgers
      /\ \A l \in Holders, e \in Denoms :
            c[l][e] = IF l = a /\ e = "main" THEN balance[l][e] - x ELSE balance[l][e]
      /\ \A e \in Denoms :
            TotalOf(c, e) = IF e = "main" THEN TotalOf(balance, e) - x ELSE TotalOf(balance, e)
  BY <1>1, <1>2, <1>3, SubtractValue
<1>. HIDE DEF c
<1>7. ASSUME NEW l \in Holders, NEW e \in Denoms PROVE c[l][e] >= 0
  <2>1. balance[l][e] \in Nat
    BY <1>2
  <2>. QED  BY <1>1, <1>4, <1>6, <2>1
<1>8. ASSUME NEW e \in Denoms
      PROVE  t[e] - TotalOf(c, e) = supply[e] - TotalOf(balance, e)
  <2>1. TotalOf(balance, e) \in Int /\ supply[e] \in Int
    BY <1>2, TotalType DEF Records
  <2>. QED  BY <1>1, <1>5, <1>6, <2>1
<1>9. ASSUME ~mixed'
      PROVE  ~mixed /\ c["splittable_fee_collector"]["main"] = Collected + 0
  <2>1. balance["splittable_fee_collector"]["main"] \in Nat
    BY <1>2, <1>3
  <2>. QED  BY <1>3, <1>4, <1>6, <1>9, <2>1 DEF Collected
<1>. QED  BY <1>4, <1>5, <1>6, <1>7, <1>8, <1>9, NothingDivides, ToTogether

LEMMA PayServiceTogether ==
    ASSUME BankIInv, NEW a \in Users, NEW x \in Amounts, PayService(a, x)
    PROVE  Together
<1> DEFINE p == PayTxFee(balance, a, x)
           f == Fee(x)
           y == x - f
           c == SendCoins(p, a, Company, "main", y)
<1>1. x \in Nat /\ x >= 1
  BY BankAssumption
<1>2. /\ balance \in Ledgers /\ supply \in Records /\ ratios \in SplitRatios
      /\ \A l \in Holders, e \in Denoms : balance[l][e] \in Nat
  BY BankKnown
<1>3. /\ a \in Holders /\ Company \in Holders /\ "main" \in Denoms /\ a # Company
      /\ "splittable_fee_collector" \in Holders /\ a # "splittable_fee_collector"
      /\ Company # "splittable_fee_collector"
  BY HolderFacts
<1>4. /\ f \in Nat /\ f % RatiosLCM(ratios) = 0
  BY <1>1, <1>2, FeeValue
<1>5. /\ p \in Ledgers
      /\ \A l \in Holders, e \in Denoms :
            p[l][e] = IF e # "main" THEN balance[l][e]
                      ELSE IF l = a THEN balance[l][e] - f
                      ELSE IF l = "splittable_fee_collector" THEN balance[l][e] + f
                      ELSE balance[l][e]
      /\ \A e \in Denoms : TotalOf(p, e) = TotalOf(balance, e)
  <2>1. balance \in Ledgers /\ x \in Nat /\ ratios \in SplitRatios
    BY <1>1, <1>2
  <2>. QED  BY ONLY <2>1, a \in Users, FeePaid
<1>6. /\ balance' = c /\ supply' = supply /\ ratios' = ratios
      /\ balance[a]["main"] >= x /\ f <= x /\ mixed' = mixed
  BY DEF PayService, Settings
<1>. HIDE DEF p, f
<1>7. y \in Int /\ y >= 0 /\ x = f + y
  BY <1>1, <1>4, <1>6
<1>. HIDE DEF y
<1>8. /\ c \in Ledgers
      /\ \A l \in Holders, e \in Denoms :
            c[l][e] = p[l][e] - (IF l = a /\ e = "main" THEN y ELSE 0)
                              + (IF l = Company /\ e = "main" THEN y ELSE 0)
      /\ \A e \in Denoms : TotalOf(c, e) = TotalOf(p, e)
  <2>1. p \in Ledgers /\ a \in Holders /\ Company \in Holders /\ "main" \in Denoms /\ y \in Int
    BY <1>3, <1>5, <1>7
  <2>. QED  BY ONLY <2>1, SendValue
<1>. HIDE DEF c
<1>9. ASSUME NEW l \in Holders, NEW e \in Denoms PROVE c[l][e] >= 0
  <2>1. balance[l][e] \in Nat /\ balance[a]["main"] \in Nat
    BY <1>2, <1>3
  <2>. QED  BY <1>1, <1>3, <1>4, <1>5, <1>6, <1>7, <1>8, <2>1
<1>10. ASSUME ~mixed'
       PROVE  ~mixed /\ c["splittable_fee_collector"]["main"] = Collected + f
  <2>1. balance["splittable_fee_collector"]["main"] \in Nat
    BY <1>2, <1>3
  <2>. QED  BY <1>3, <1>4, <1>5, <1>6, <1>8, <1>10, <2>1 DEF Collected
<1>11. \A e \in Denoms : supply[e] - TotalOf(c, e) = supply[e] - TotalOf(balance, e)
  BY <1>5, <1>8
<1>. QED  BY <1>2, <1>4, <1>6, <1>8, <1>9, <1>10, <1>11, ToTogether

LEMMA PayProposerTogether ==
    ASSUME BankIInv, NEW a \in Users, NEW x \in Amounts, PayProposer(a, x)
    PROVE  Together
<1> DEFINE c == SendCoins(balance, a, "fee_collector", "main", x)
<1>1. x \in Int /\ x >= 1
  BY BankAssumption
<1>2. /\ balance \in Ledgers /\ supply \in Records
      /\ \A l \in Holders, e \in Denoms : balance[l][e] \in Nat
  BY BankKnown
<1>3. /\ a \in Holders /\ "fee_collector" \in Holders /\ "main" \in Denoms
      /\ "splittable_fee_collector" \in Holders /\ a # "splittable_fee_collector"
  BY HolderFacts
<1>4. /\ balance' = c /\ supply' = supply /\ ratios' = ratios
      /\ balance[a]["main"] >= x /\ mixed' = mixed
  BY DEF PayProposer, Settings
<1>5. /\ c \in Ledgers
      /\ \A l \in Holders, e \in Denoms :
            c[l][e] = balance[l][e] - (IF l = a /\ e = "main" THEN x ELSE 0)
                        + (IF l = "fee_collector" /\ e = "main" THEN x ELSE 0)
      /\ \A e \in Denoms : TotalOf(c, e) = TotalOf(balance, e)
  <2>1. /\ balance \in Ledgers /\ a \in Holders /\ "fee_collector" \in Holders
        /\ "main" \in Denoms /\ x \in Int
    BY <1>1, <1>2, <1>3
  <2>. QED  BY ONLY <2>1, SendValue
<1>. HIDE DEF c
<1>6. ASSUME NEW l \in Holders, NEW e \in Denoms PROVE c[l][e] >= 0
  <2>1. balance[l][e] \in Nat
    BY <1>2
  <2>. QED  BY <1>1, <1>4, <1>5, <2>1
<1>7. ASSUME ~mixed'
      PROVE  ~mixed /\ c["splittable_fee_collector"]["main"] = Collected + 0
  <2>1. balance["splittable_fee_collector"]["main"] \in Nat
    BY <1>2, <1>3
  <2>. QED  BY <1>3, <1>4, <1>5, <1>7, <2>1 DEF Collected
<1>8. \A e \in Denoms : supply[e] - TotalOf(c, e) = supply[e] - TotalOf(balance, e)
  BY <1>5
<1>. QED  BY <1>2, <1>4, <1>5, <1>6, <1>7, <1>8, NothingDivides, ToTogether

(***************************************************************************)
(* What Delegate, Freeze and Undelegate share: an exchange of the coins of *)
(* one user, perhaps after a fee was taken.                                *)
(***************************************************************************)
LEMMA ExchangeTogether ==
    ASSUME BankIInv, NEW a \in Users, NEW d \in Denoms, NEW z \in Denoms, d # z,
           NEW x \in Nat, NEW y \in Nat, NEW p \in Ledgers,
           \A e \in Denoms : TotalOf(p, e) = TotalOf(balance, e),
           NEW f \in Nat, f % RatiosLCM(ratios) = 0,
           \A l \in Holders, e \in Denoms : p[l][e] >= IF l = a /\ e = d THEN x ELSE 0,
           p["splittable_fee_collector"]["main"] = Collected + f,
           balance' = Exchange(p, a, d, x, z, y), supply' = Exchanged(supply, d, x, z, y),
           UNCHANGED <<Settings, mixed>>
    PROVE  Together
<1> DEFINE c == Exchange(p, a, d, x, z, y)
           t == Exchanged(supply, d, x, z, y)
<1>1. supply \in Records
  BY BankKnown
<1>2. /\ a \in Holders /\ "main" \in Denoms
      /\ "splittable_fee_collector" \in Holders /\ a # "splittable_fee_collector"
  BY HolderFacts
<1>3. balance' = c /\ supply' = t /\ ratios' = ratios /\ mixed' = mixed
  BY DEF Settings
<1>4. /\ c \in Ledgers /\ t \in Records
      /\ \A l \in Holders, g \in Denoms :
            c[l][g] = IF l # a THEN p[l][g]
                      ELSE IF g = d THEN p[l][g] - x
                      ELSE IF g = z THEN p[l][g] + y ELSE p[l][g]
      /\ \A g \in Denoms : t[g] - TotalOf(c, g) = supply[g] - TotalOf(p, g)
  <2>1. x \in Int /\ y \in Int
    OBVIOUS
  <2>. QED  BY <1>1, <1>2, <2>1, ExchangeValue
<1>. HIDE DEF c, t
<1>5. ASSUME NEW l \in Holders, NEW e \in Denoms PROVE c[l][e] >= 0
  <2>1. p[l][e] \in Int
    BY DEF Ledgers
  <2>. QED  BY <1>4, <2>1
<1>6. ASSUME ~mixed'
      PROVE  ~mixed /\ c["splittable_fee_collector"]["main"] = Collected + f
  BY <1>2, <1>3, <1>4, <1>6
<1>7. \A e \in Denoms : t[e] - TotalOf(c, e) = supply[e] - TotalOf(balance, e)
  BY <1>4
<1>. QED  BY <1>3, <1>4, <1>5, <1>6, <1>7, ToTogether

LEMMA DelegateTogether ==
    ASSUME BankIInv, NEW a \in Users, NEW x \in Amounts, Delegate(a, x)
    PROVE  Together
<1> DEFINE p == PayTxFee(balance, a, x)
           f == Fee(x)
           y == x - f
<1>1. x \in Nat /\ x >= 1
  BY BankAssumption
<1>2. /\ balance \in Ledgers /\ ratios \in SplitRatios
      /\ \A l \in Holders, e \in Denoms : balance[l][e] \in Nat
  BY BankKnown
<1>3. /\ a \in Holders /\ "main" \in Denoms /\ "delegated" \in Denoms
      /\ "splittable_fee_collector" \in Holders /\ a # "splittable_fee_collector"
  BY HolderFacts
<1>4. /\ f \in Nat /\ f % RatiosLCM(ratios) = 0
  BY <1>1, <1>2, FeeValue
<1>5. /\ p \in Ledgers
      /\ \A l \in Holders, e \in Denoms :
            p[l][e] = IF e # "main" THEN balance[l][e]
                      ELSE IF l = a THEN balance[l][e] - f
                      ELSE IF l = "splittable_fee_collector" THEN balance[l][e] + f
                      ELSE balance[l][e]
      /\ \A e \in Denoms : TotalOf(p, e) = TotalOf(balance, e)
  BY <1>1, <1>2, FeePaid
<1>6. /\ balance' = Exchange(p, a, "main", y, "delegated", y)
      /\ supply' = Exchanged(supply, "main", y, "delegated", y)
      /\ UNCHANGED <<Settings, mixed>> /\ balance[a]["main"] >= x /\ y >= 0
  BY DEF Delegate
<1>. HIDE DEF p, f
<1>7. y \in Nat /\ x = f + y
  BY <1>1, <1>4, <1>6
<1>. HIDE DEF y
<1>8. ASSUME NEW l \in Holders, NEW e \in Denoms
      PROVE  p[l][e] >= IF l = a /\ e = "main" THEN y ELSE 0
  <2>1. balance[l][e] \in Nat /\ balance[a]["main"] \in Nat
    BY <1>2, <1>3
  <2>. QED  BY <1>1, <1>3, <1>4, <1>5, <1>6, <1>7, <2>1
<1>9. p["splittable_fee_collector"]["main"] = Collected + f
  BY <1>3, <1>5 DEF Collected
<1>. QED  BY <1>3, <1>4, <1>5, <1>6, <1>7, <1>8, <1>9, ExchangeTogether

LEMMA FreezeTogether ==
    ASSUME BankIInv, NEW a \in Users, NEW x \in Amounts, NEW burn \in RevokeBurns,
           Freeze(a, x, burn)
    PROVE  Together
<1> DEFINE y == x - MulInt64(burn, x)
<1>1. x \in Nat
  BY BankAssumption
<1>2. burn \in Fractions /\ burn.num <= burn.den
  BY BankAssumption
<1>3. y \in Nat
  <2>1. MulInt64(burn, x) \in Nat /\ MulInt64(burn, x) <= x
    BY <1>1, <1>2, TimesAtMostAll
  <2>. QED  BY <1>1, <2>1
<1>4. /\ balance \in Ledgers /\ Collected \in Nat
      /\ \A l \in Holders, e \in Denoms : balance[l][e] \in Nat
  BY BankKnown
<1>5. /\ balance' = Exchange(balance, a, "delegated", x, "revoking", y)
      /\ supply' = Exchanged(supply, "delegated", x, "revoking", y)
      /\ UNCHANGED <<Settings, mixed>> /\ balance[a]["delegated"] >= x
  BY DEF Freeze
<1>6. "delegated" \in Denoms /\ "revoking" \in Denoms
  BY DEF Denoms
<1>. HIDE DEF y
<1>7. ASSUME NEW l \in Holders, NEW e \in Denoms
      PROVE  balance[l][e] >= IF l = a /\ e = "delegated" THEN x ELSE 0
  <2>1. balance[l][e] \in Nat
    BY <1>4
  <2>. QED  BY <1>5, <2>1
<1>8. balance["splittable_fee_collector"]["main"] = Collected + 0
  BY <1>4 DEF Collected
<1>. QED  BY <1>1, <1>3, <1>4, <1>5, <1>6, <1>7, <1>8, NothingDivides, ExchangeTogether

LEMMA UndelegateTogether ==
    ASSUME BankIInv, NEW a \in Users, NEW x \in Amounts, Undelegate(a, x)
    PROVE  Together
<1>1. x \in Nat
  BY BankAssumption
<1>2. /\ balance \in Ledgers /\ Collected \in Nat
      /\ \A l \in Holders, e \in Denoms : balance[l][e] \in Nat
  BY BankKnown
<1>3. /\ balance' = Exchange(balance, a, "revoking", x, "main", x)
      /\ supply' = Exchanged(supply, "revoking", x, "main", x)
      /\ UNCHANGED <<Settings, mixed>> /\ balance[a]["revoking"] >= x
  BY DEF Undelegate
<1>4. "revoking" \in Denoms /\ "main" \in Denoms
  BY DEF Denoms
<1>5. ASSUME NEW l \in Holders, NEW e \in Denoms
      PROVE  balance[l][e] >= IF l = a /\ e = "revoking" THEN x ELSE 0
  <2>1. balance[l][e] \in Nat
    BY <1>2
  <2>. QED  BY <1>3, <2>1
<1>6. balance["splittable_fee_collector"]["main"] = Collected + 0
  BY <1>2 DEF Collected
<1>. QED  BY <1>1, <1>2, <1>3, <1>4, <1>5, <1>6, NothingDivides, ExchangeTogether

LEMMA ReceiveTogether ==
    ASSUME BankIInv, NEW a \in Users, NEW x \in Amounts, Receive(a, x)
    PROVE  Together
<1> DEFINE p == AddCoins(balance, "transfer", "voucher", x)
           c == SendCoins(p, "transfer", a, "voucher", x)
           t == Inflate(supply, "voucher", x)
<1>1. x \in Int /\ x >= 1
  BY BankAssumption
<1>2. /\ balance \in Ledgers /\ supply \in Records
      /\ \A l \in Holders, e \in Denoms : balance[l][e] \in Nat
  BY BankKnown
<1>3. /\ a \in Holders /\ "transfer" \in Holders /\ "voucher" \in Denoms /\ "main" \in Denoms
      /\ "splittable_fee_collector" \in Holders
  BY HolderFacts
<1>4. balance' = c /\ supply' = t /\ ratios' = ratios /\ mixed' = mixed
  BY DEF Receive, Settings
<1>5. t \in Records /\ \A e \in Denoms : t[e] = IF e = "voucher" THEN supply[e] + x ELSE supply[e]
  <2>1. supply \in Records /\ "voucher" \in Denoms /\ x \in Int
    BY <1>1, <1>2, <1>3
  <2>. QED  BY ONLY <2>1, SupplyValue
<1>. HIDE DEF t
<1>6. /\ p \in Ledgers
      /\ \A l \in Holders, e \in Denoms :
            p[l][e] = IF l = "transfer" /\ e = "voucher" THEN balance[l][e] + x ELSE balance[l][e]
      /\ \A e \in Denoms :
            TotalOf(p, e) = IF e = "voucher" THEN TotalOf(balance, e) + x ELSE TotalOf(balance, e)
  <2>1. balance \in Ledgers /\ "transfer" \in Holders /\ "voucher" \in Denoms /\ x \in Int
    BY <1>1, <1>2, <1>3
  <2>. QED  BY ONLY <2>1, AddValue
<1>. HIDE DEF p
<1>7. /\ c \in Ledgers
      /\ \A l \in Holders, e \in Denoms :
            c[l][e] = p[l][e] - (IF l = "transfer" /\ e = "voucher" THEN x ELSE 0)
                              + (IF l = a /\ e = "voucher" THEN x ELSE 0)
      /\ \A e \in Denoms : TotalOf(c, e) = TotalOf(p, e)
  <2>1. p \in Ledgers /\ "transfer" \in Holders /\ a \in Holders /\ "voucher" \in Denoms /\ x \in Int
    BY <1>1, <1>3, <1>6
  <2>. QED  BY ONLY <2>1, SendValue
<1>. HIDE DEF c
<1>8. ASSUME NEW l \in Holders, NEW e \in Denoms
      PROVE  c[l][e] = IF l = a /\ e = "voucher" THEN balance[l][e] + x ELSE balance[l][e]
  <2>1. balance[l][e] \in Nat
    BY <1>2
  <2>. QED  BY <1>1, <1>6, <1>7, <2>1
<1>9. ASSUME NEW l \in Holders, NEW e \in Denoms PROVE c[l][e] >= 0
  <2>1. balance[l][e] \in Nat
    BY <1>2
  <2>. QED  BY <1>1, <1>8, <2>1
<1>10. ASSUME NEW e \in Denoms
       PROVE  t[e] - TotalOf(c, e) = supply[e] - TotalOf(balance, e)
  <2>1. TotalOf(balance, e) \in Int /\ supply[e] \in Int
    BY <1>2, TotalType DEF Records
  <2>. QED  BY <1>1, <1>5, <1>6, <1>7, <2>1
<1>11. ASSUME ~mixed'
       PROVE  ~mixed /\ c["splittable_fee_collector"]["main"] = Collected + 0
  <2>1. balance["splittable_fee_collector"]["main"] \in Nat
    BY <1>2, <1>3
  <2>. QED  BY <1>3, <1>4, <1>8, <1>11, <2>1 DEF Collected
<1>. QED  BY <1>4, <1>5, <1>7, <1>9, <1>10, <1>11, NothingDivides, ToTogether

LEMMA SendBackTogether ==
    ASSUME BankIInv, NEW a \in Users, NEW x \in Amounts, SendBack(a, x)
    PROVE  Together
<1> DEFINE p == SendCoins(balance, a, "transfer", "voucher", x)
           c == SubtractCoins(p, "transfer", "voucher", x)
           t == Deflate(supply, "voucher", x)
<1>1. x \in Int /\ x >= 1
  BY BankAssumption
<1>2. /\ balance \in Ledgers /\ supply \in Records
      /\ \A l \in Holders, e \in Denoms : balance[l][e] \in Nat
  BY BankKnown
<1>3. /\ a \in Holders /\ "transfer" \in Holders /\ "voucher" \in Denoms /\ "main" \in Denoms
      /\ "splittable_fee_collector" \in Holders
  BY HolderFacts
<1>4. /\ balance' = c /\ supply' = t /\ ratios' = ratios /\ mixed' = mixed
      /\ balance[a]["voucher"] >= x
  BY DEF SendBack, Settings
<1>5. t \in Records /\ \A e \in Denoms : t[e] = IF e = "voucher" THEN supply[e] - x ELSE supply[e]
  <2>1. supply \in Records /\ "voucher" \in Denoms /\ x \in Int
    BY <1>1, <1>2, <1>3
  <2>. QED  BY ONLY <2>1, SupplyValue
<1>. HIDE DEF t
<1>6. /\ p \in Ledgers
      /\ \A l \in Holders, e \in Denoms :
            p[l][e] = balance[l][e] - (IF l = a /\ e = "voucher" THEN x ELSE 0)
                        + (IF l = "transfer" /\ e = "voucher" THEN x ELSE 0)
      /\ \A e \in Denoms : TotalOf(p, e) = TotalOf(balance, e)
  <2>1. balance \in Ledgers /\ a \in Holders /\ "transfer" \in Holders /\ "voucher" \in Denoms
        /\ x \in Int
    BY <1>1, <1>2, <1>3
  <2>. QED  BY ONLY <2>1, SendValue
<1>. HIDE DEF p
<1>7. /\ c \in Ledgers
      /\ \A l \in Holders, e \in Denoms :
            c[l][e] = IF l = "transfer" /\ e = "voucher" THEN p[l][e] - x ELSE p[l][e]
      /\ \A e \in Denoms :
            TotalOf(c, e) = IF e = "voucher" THEN TotalOf(p, e) - x ELSE TotalOf(p, e)
  <2>1. p \in Ledgers /\ "transfer" \in Holders /\ "voucher" \in Denoms /\ x \in Int
    BY <1>1, <1>3, <1>6
  <2>. QED  BY ONLY <2>1, SubtractValue
<1>. HIDE DEF c
<1>8. ASSUME NEW l \in Holders, NEW e \in Denoms
      PROVE  c[l][e] = IF l = a /\ e = "voucher" THEN balance[l][e] - x ELSE balance[l][e]
  <2>1. balance[l][e] \in Nat
    BY <1>2
  <2>. QED  BY <1>1, <1>6, <1>7, <2>1
<1>9. ASSUME NEW l \in Holders, NEW e \in Denoms PROVE c[l][e] >= 0
  <2>1. balance[l][e] \in Nat
    BY <1>2
  <2>. QED  BY <1>1, <1>4, <1>8, <2>1
<1>10. ASSUME NEW e \in Denoms
       PROVE  t[e] - TotalOf(c, e) = supply[e] - TotalOf(balance, e)
  <2>1. TotalOf(balance, e) \in Int /\ supply[e] \in Int
    BY <1>2, TotalType DEF Records
  <2>. QED  BY <1>1, <1>5, <1>6, <1>7, <2>1
<1>11. ASSUME ~mixed'
       PROVE  ~mixed /\ c["splittable_fee_collector"]["main"] = Collected + 0
  <2>1. balance["splittable_fee_collector"]["main"] \in Nat
    BY <1>2, <1>3
  <2>. QED  BY <1>3, <1>4, <1>8, <1>11, <2>1 DEF Collected
<1>. QED  BY <1>4, <1>5, <1>7, <1>9, <1>10, <1>11, NothingDivides, ToTogether

LEMMA ConfiscateTogether ==
    ASSUME BankIInv, NEW a \in Users, Confiscate(a)
    PROVE  Together
<1> DEFINE x == MulInt64(Penalty, balance[a]["delegated"])
           c == SendCoins(balance, a, "noding", "delegated", x)
<1>1. /\ balance \in Ledgers /\ supply \in Records
      /\ \A l \in Holders, e \in Denoms : balance[l][e] \in Nat
  BY BankKnown
<1>2. /\ a \in Holders /\ "noding" \in Holders /\ "main" \in Denoms /\ "delegated" \in Denoms
      /\ "splittable_fee_collector" \in Holders /\ a # "noding"
  BY HolderFacts
<1>3. x \in Nat /\ x <= balance[a]["delegated"]
  <2>1. Penalty \in Fractions /\ Penalty.num <= Penalty.den
    BY BankAssumption
  <2>2. balance[a]["delegated"] \in Nat
    BY <1>1, <1>2
  <2>. QED  BY ONLY <2>1, <2>2, TimesAtMostAll
<1>4. balance' = c /\ supply' = supply /\ ratios' = ratios /\ mixed' = mixed
  BY DEF Confiscate, Settings
<1>. HIDE DEF x
<1>5. /\ c \in Ledgers
      /\ \A l \in Holders, e \in Denoms :
            c[l][e] = balance[l][e] - (IF l = a /\ e = "delegated" THEN x ELSE 0)
                        + (IF l = "noding" /\ e = "delegated" THEN x ELSE 0)
      /\ \A e \in Denoms : TotalOf(c, e) = TotalOf(balance, e)
  <2>1. balance \in Ledgers /\ a \in Holders /\ "noding" \in Holders /\ "delegated" \in Denoms
        /\ x \in Int
    BY <1>1, <1>2, <1>3
  <2>. QED  BY ONLY <2>1, SendValue
<1>. HIDE DEF c
<1>6. ASSUME NEW l \in Holders, NEW e \in Denoms PROVE c[l][e] >= 0
  <2>1. balance[l][e] \in Nat
    BY <1>1
  <2>. QED  BY <1>2, <1>3, <1>5, <2>1
<1>7. ASSUME ~mixed'
      PROVE  ~mixed /\ c["splittable_fee_collector"]["main"] = Collected + 0
  <2>1. balance["splittable_fee_collector"]["main"] \in Nat
    BY <1>1, <1>2
  <2>. QED  BY <1>2, <1>4, <1>5, <1>7, <2>1 DEF Collected
<1>8. \A e \in Denoms : supply[e] - TotalOf(c, e) = supply[e] - TotalOf(balance, e)
  BY <1>5
<1>. QED  BY <1>1, <1>4, <1>5, <1>6, <1>7, <1>8, NothingDivides, ToTogether

LEMMA AccrueToValidatorTogether ==
    ASSUME BankIInv, NEW above \in SUBSET Users, NEW x \in Amounts, AccrueToValidator(above, x)
    PROVE  Together
<1> DEFINE c == [h \in Holders |->
                   IF h \in above THEN [balance[h] EXCEPT !["main"] = @ + x] ELSE balance[h]]
           n == Cardinality(above)
           t == Inflate(supply, "main", x * n)
<1>1. x \in Int /\ x >= 1
  BY BankAssumption
<1>2. /\ balance \in Ledgers /\ supply \in Records
      /\ \A l \in Holders, e \in Denoms : balance[l][e] \in Nat
  BY BankKnown
<1>3. /\ above \subseteq Holders /\ "main" \in Denoms
      /\ "splittable_fee_collector" \in Holders /\ "splittable_fee_collector" \notin above
  <2>1. \A a \in above : a \in Holders /\ a # "splittable_fee_collector"
    BY HolderFacts
  <2>. QED  BY <2>1 DEF Holders, Collectors, Denoms
<1>4. balance' = c /\ supply' = t /\ ratios' = ratios /\ mixed' = mixed
  BY DEF AccrueToValidator, Settings
<1>5. n \in Nat
  BY <1>3, HoldersFinite, FS_Subset, FS_CardinalityType
<1>6. c \in Ledgers /\ \A l \in Holders, e \in Denoms :
         c[l][e] = IF l \in above /\ e = "main" THEN balance[l][e] + x ELSE balance[l][e]
  BY <1>1, <1>2, <1>3 DEF Ledgers
<1>. HIDE DEF c
<1>7. t \in Records
      /\ \A e \in Denoms : t[e] = IF e = "main" THEN supply[e] + x * n ELSE supply[e]
  <2>1. supply \in Records /\ "main" \in Denoms /\ x * n \in Int
    BY <1>1, <1>2, <1>3, <1>5
  <2>. QED  BY ONLY <2>1, SupplyValue
<1>. HIDE DEF t
<1>8. ASSUME NEW e \in Denoms
      PROVE  TotalOf(c, e) = IF e = "main" THEN TotalOf(balance, e) + x * n
                                           ELSE TotalOf(balance, e)
  <2> DEFINE f == Owned(balance, e)
             g == Owned(c, e)
  <2>1. \A l \in Holders : /\ f[l] = balance[l][e] /\ g[l] = c[l][e]
                           /\ f[l] \in Int
    BY <1>2 DEF Owned
  <2>. HIDE DEF f, g
  <2>2. CASE e = "main"
    <3>1. \A l \in Holders : g[l] = IF l \in above THEN f[l] + x ELSE f[l]
      BY <1>6, <2>1, <2>2
    <3>2. SumOver(g, Holders) = SumOver(f, Holders) + x * n
      BY <1>1, <1>3, <2>1, <3>1, HoldersFinite, SumShift
    <3>. QED  BY <2>2, <3>2 DEF TotalOf, f, g
  <2>3. CASE e # "main"
    <3>1. \A l \in Holders : g[l] = f[l]
      BY <1>6, <2>1, <2>3
    <3>2. SumOver(g, Holders) = SumOver(f, Holders)
      BY <3>1, HoldersFinite, SumAgree
    <3>. QED  BY <2>3, <3>2 DEF TotalOf, f, g
  <2>. QED  BY <2>2, <2>3
<1>9. ASSUME NEW l \in Holders, NEW e \in Denoms PROVE c[l][e] >= 0
  <2>1. balance[l][e] \in Nat
    BY <1>2
  <2>. QED  BY <1>1, <1>6, <2>1
<1>10. ASSUME NEW e \in Denoms
       PROVE  t[e] - TotalOf(c, e) = supply[e] - TotalOf(balance, e)
  <2>1. TotalOf(balance, e) \in Int /\ supply[e] \in Int /\ x * n \in Int
    BY <1>1, <1>2, <1>5, TotalType DEF Records
  <2>. QED  BY <1>7, <1>8, <2>1
<1>11. ASSUME ~mixed'
       PROVE  ~mixed /\ c["splittable_fee_collector"]["main"] = Collected + 0
  <2>1. balance["splittable_fee_collector"]["main"] \in Nat
    BY <1>2, <1>3
  <2>. QED  BY <1>3, <1>4, <1>6, <1>11, <2>1 DEF Collected
<1>. QED  BY <1>4, <1>6, <1>7, <1>9, <1>10, <1>11, NothingDivides, ToTogether

\* The smaller of two amounts.
LEMMA MinOfTwo ==
    ASSUME NEW x \in Nat, NEW y \in Nat
    PROVE  Min({x, y}) \in Nat /\ Min({x, y}) <= x /\ Min({x, y}) <= y
<1> DEFINE S == {x, y}
<1>1. S \in SUBSET Nat /\ S # {} /\ x \in S /\ y \in S
  OBVIOUS
<1>. HIDE DEF S
<1>2. Min(S) \in S /\ \A n \in S : Min(S) <= n
  BY <1>1, MinOfNaturals
<1>. QED  BY <1>1, <1>2 DEF S

(***************************************************************************)
(* All plain fees go to the proposer: what the total gains with one of the *)
(* two it loses with the other.                                            *)
(***************************************************************************)
PlainPaid(a) ==
    [balance EXCEPT ![a] = [d \in Denoms |-> @[d] + balance["fee_collector"][d]],
                    !["fee_collector"] = [d \in Denoms |-> 0]]

LEMMA PlainFeesPaid ==
    ASSUME BankIInv, NEW a \in Users
    PROVE  /\ PlainPaid(a) \in Ledgers
           /\ \A l \in Holders, e \in Denoms : PlainPaid(a)[l][e] >= 0
           /\ PlainPaid(a)["splittable_fee_collector"]["main"] = Collected
           /\ \A e \in Denoms : TotalOf(PlainPaid(a), e) = TotalOf(balance, e)
<1> DEFINE c == PlainPaid(a)
<1>1. /\ balance \in Ledgers
      /\ \A l \in Holders, e \in Denoms : balance[l][e] \in Nat
  BY BankKnown
<1>2. /\ a \in Holders /\ "fee_collector" \in Holders /\ a # "fee_collector"
      /\ "splittable_fee_collector" \in Holders /\ "main" \in Denoms
      /\ a # "splittable_fee_collector"
  BY HolderFacts
<1> DEFINE k == [balance EXCEPT ![a] = [d \in Denoms |-> @[d] + balance["fee_collector"][d]]]
<1>3. k \in Ledgers /\ \A l \in Holders, e \in Denoms :
         k[l][e] = IF l = a THEN balance[a][e] + balance["fee_collector"][e] ELSE balance[l][e]
  BY <1>1, <1>2 DEF Ledgers
<1>4. c \in Ledgers /\ \A l \in Holders, e \in Denoms :
         c[l][e] = IF l = a THEN balance[a][e] + balance["fee_collector"][e]
                   ELSE IF l = "fee_collector" THEN 0 ELSE balance[l][e]
  BY <1>1, <1>2 DEF Ledgers, PlainPaid
<1>. HIDE DEF k, c
<1>5. ASSUME NEW l \in Holders, NEW e \in Denoms PROVE c[l][e] >= 0
  <2>1. balance[l][e] \in Nat /\ balance[a][e] \in Nat /\ balance["fee_collector"][e] \in Nat
    BY <1>1, <1>2
  <2>. QED  BY <1>4, <2>1
<1>6. c["splittable_fee_collector"]["main"] = Collected
  BY <1>2, <1>4 DEF Collected
<1>7. ASSUME NEW e \in Denoms PROVE TotalOf(c, e) = TotalOf(balance, e)
  <2> DEFINE f == Owned(balance, e)
             g == Owned(k, e)
             h == Owned(c, e)
  <2>1. \A l \in Holders : /\ f[l] = balance[l][e] /\ g[l] = k[l][e] /\ h[l] = c[l][e]
                           /\ f[l] \in Int /\ g[l] \in Int /\ h[l] \in Int
    BY <1>1, <1>3, <1>4 DEF Owned, Ledgers
  <2>. HIDE DEF f, g, h
  <2>2. \A l \in Holders : l # a => g[l] = f[l]
    BY <1>3, <2>1
  <2>3. \A l \in Holders : l # "fee_collector" => h[l] = g[l]
    BY <1>3, <1>4, <2>1
  <2>4. SumOver(g, Holders) = SumOver(f, Holders) + g[a] - f[a]
    BY <1>2, <2>1, <2>2, HoldersFinite, SumChange
  <2>5. SumOver(h, Holders)
          = SumOver(g, Holders) + h["fee_collector"] - g["fee_collector"]
    BY <1>2, <2>1, <2>3, HoldersFinite, SumChange
  <2>6. /\ g[a] = f[a] + f["fee_collector"] /\ h["fee_collector"] = 0
        /\ g["fee_collector"] = f["fee_collector"]
    BY <1>2, <1>3, <1>4, <2>1
  <2>7. SumOver(f, Holders) \in Int
    BY <2>1, HoldersFinite, SumType
  <2>. QED  BY <1>2, <2>1, <2>4, <2>5, <2>6, <2>7 DEF TotalOf, f, h
<1>. QED  BY <1>4, <1>5, <1>6, <1>7 DEF c

LEMMA PayProposerRewardTogether ==
    ASSUME BankIInv, NEW a \in Users, PayProposerReward(a)
    PROVE  Together
<1> DEFINE all == SplitFee(Collected, ratios)
           q == Min({all.proposer, Collected})
           m == Min({all.company, Collected - q})
           plain == PlainPaid(a)
           p == SendCoins(plain, "splittable_fee_collector", a, "main", q)
           paid == SendCoins(p, "splittable_fee_collector", Company, "main", m)
           x == Collected - q - m
           c == SubtractCoins(paid, "splittable_fee_collector", "main", x)
           t == Deflate(supply, "main", x)
<1>1. /\ balance \in Ledgers /\ supply \in Records /\ ratios \in SplitRatios
      /\ Collected \in Nat
  BY BankKnown
<1>2. /\ a \in Holders /\ Company \in Holders /\ "splittable_fee_collector" \in Holders
      /\ "main" \in Denoms
      /\ a # "splittable_fee_collector" /\ Company # "splittable_fee_collector"
  BY HolderFacts
<1>3. all.proposer \in Nat /\ all.company \in Nat
  <2>1. /\ ratios.proposer \in SignedFractions /\ ratios.proposer.num >= 0
        /\ ratios.company \in SignedFractions /\ ratios.company.num >= 0
    BY <1>1 DEF SplitRatios, Fractions, SignedFractions, Positive
  <2>2. MulInt64(ratios.proposer, Collected) \in Nat /\ MulInt64(ratios.company, Collected) \in Nat
    BY <1>1, <2>1, TimesNatural
  <2>. QED  BY <2>2 DEF SplitFee
<1>4. /\ balance' = c /\ supply' = t /\ ratios' = ratios /\ mixed' = FALSE
  BY DEF PayProposerReward, Settings, SplitFee, Collected, PlainPaid
<1>. HIDE DEF all
<1>5. q \in Nat /\ q <= Collected
  BY <1>1, <1>3, MinOfTwo
<1>6. Collected - q \in Nat
  BY <1>1, <1>5
<1>7. m \in Nat /\ m <= Collected - q
  BY <1>3, <1>6, MinOfTwo
<1>. HIDE DEF q, m
<1>8. x \in Nat
  BY <1>1, <1>5, <1>7
<1>9. t \in Records /\ \A e \in Denoms : t[e] = IF e = "main" THEN supply[e] - x ELSE supply[e]
  <2>1. supply \in Records /\ "main" \in Denoms /\ x \in Int
    BY <1>1, <1>2, <1>8
  <2>. QED  BY ONLY <2>1, SupplyValue
<1>. HIDE DEF t
<1>10. /\ plain \in Ledgers /\ \A l \in Holders, e \in Denoms : plain[l][e] >= 0
       /\ plain["splittable_fee_collector"]["main"] = Collected
       /\ \A e \in Denoms : TotalOf(plain, e) = TotalOf(balance, e)
  BY PlainFeesPaid
<1>. HIDE DEF plain
<1>11. /\ p \in Ledgers
       /\ \A l \in Holders, e \in Denoms :
             p[l][e] = plain[l][e]
                         - (IF l = "splittable_fee_collector" /\ e = "main" THEN q ELSE 0)
                         + (IF l = a /\ e = "main" THEN q ELSE 0)
       /\ \A e \in Denoms : TotalOf(p, e) = TotalOf(plain, e)
  <2>1. plain \in Ledgers /\ "splittable_fee_collector" \in Holders /\ a \in Holders
        /\ "main" \in Denoms /\ q \in Int
    BY <1>2, <1>5, <1>10
  <2>. QED  BY ONLY <2>1, SendValue
<1>. HIDE DEF p
<1>12. /\ paid \in Ledgers
       /\ \A l \in Holders, e \in Denoms :
             paid[l][e] = p[l][e]
                           - (IF l = "splittable_fee_collector" /\ e = "main" THEN m ELSE 0)
                           + (IF l = Company /\ e = "main" THEN m ELSE 0)
       /\ \A e \in Denoms : TotalOf(paid, e) = TotalOf(p, e)
  <2>1. p \in Ledgers /\ "splittable_fee_collector" \in Holders /\ Company \in Holders
        /\ "main" \in Denoms /\ m \in Int
    BY <1>2, <1>7, <1>11
  <2>. QED  BY ONLY <2>1, SendValue
<1>. HIDE DEF paid
<1>13. /\ c \in Ledgers
       /\ \A l \in Holders, e \in Denoms :
             c[l][e] = IF l = "splittable_fee_collector" /\ e = "main"
                       THEN paid[l][e] - x ELSE paid[l][e]
       /\ \A e \in Denoms :
             TotalOf(c, e) = IF e = "main" THEN TotalOf(paid, e) - x ELSE TotalOf(paid, e)
  <2>1. paid \in Ledgers /\ "splittable_fee_collector" \in Holders /\ "main" \in Denoms
        /\ x \in Int
    BY <1>2, <1>8, <1>12
  <2>. QED  BY ONLY <2>1, SubtractValue
<1>. HIDE DEF c
<1>14. c["splittable_fee_collector"]["main"] = 0
  <2>1. paid["splittable_fee_collector"]["main"] = Collected - q - m
    BY <1>1, <1>2, <1>5, <1>7, <1>10, <1>11, <1>12
  <2>. QED  BY <1>1, <1>2, <1>5, <1>7, <1>13, <2>1
<1>. HIDE DEF x
<1>15. ASSUME NEW l \in Holders, NEW e \in Denoms PROVE c[l][e] >= 0
  <2>1. plain[l][e] \in Int /\ plain[l][e] >= 0
    BY <1>10 DEF Ledgers
  <2>2. CASE l = "splittable_fee_collector" /\ e = "main"
    BY <1>14, <2>2
  <2>3. CASE ~(l = "splittable_fee_collector" /\ e = "main")
    BY <1>5, <1>7, <1>11, <1>12, <1>13, <2>1, <2>3
  <2>. QED  BY <2>2, <2>3
<1>16. ASSUME NEW e \in Denoms
       PROVE  t[e] - TotalOf(c, e) = supply[e] - TotalOf(balance, e)
  <2>1. TotalOf(balance, e) \in Int /\ supply[e] \in Int
    BY <1>1, TotalType DEF Records
  <2>. QED  BY <1>8, <1>9, <1>10, <1>11, <1>12, <1>13, <2>1
<1>17. balance' \in Balances
  BY <1>4, <1>13, <1>15 DEF Ledgers, Balances
<1>18. \A d \in Denoms : Beyond(d)' = Beyond(d)
  BY <1>4, <1>16 DEF Beyond
<1>19. FeesDivide'
  <2>1. Collected' = 0
    BY <1>4, <1>14 DEF Collected
  <2>2. RatiosLCM(ratios)' = RatiosLCM(ratios)
    BY <1>4
  <2>. QED  BY <2>1, <2>2, NothingDivides DEF FeesDivide
<1>. QED  BY <1>4, <1>9, <1>17, <1>18, <1>19 DEF Together

(***************************************************************************)
(* Accrue alone may leave more recorded than owned: when the fee exceeds   *)
(* the amount, which takes a transaction fee of more than everything.      *)
(***************************************************************************)
LEMMA AccrueCovers ==
    ASSUME BankIInv, NEW a \in Users, NEW x \in Amounts, Accrue(a, x)
    PROVE  /\ balance' \in Balances /\ supply' \in Records /\ FeesDivide'
           /\ \A d \in Denoms : Beyond(d)' >= Beyond(d)
           /\ Fee(x) <= x => \A d \in Denoms : Beyond(d)' = Beyond(d)
<1> DEFINE f == Fee(x)
           y == x - f
           p == AddCoins(balance, "splittable_fee_collector", "main", f)
           c == AddCoins(p, a, "main", y)
           t == Inflate(supply, "main", x)
<1>1. x \in Nat /\ x >= 1
  BY BankAssumption
<1>2. /\ balance \in Ledgers /\ supply \in Records /\ ratios \in SplitRatios
      /\ \A l \in Holders, e \in Denoms : balance[l][e] \in Nat
  BY BankKnown
<1>3. /\ a \in Holders /\ "main" \in Denoms /\ a # "splittable_fee_collector"
      /\ "splittable_fee_collector" \in Holders
  BY HolderFacts
<1>4. f \in Nat /\ f % RatiosLCM(ratios) = 0
  BY <1>1, <1>2, FeeValue
<1>5. /\ balance' = IF f > x THEN balance ELSE c
      /\ supply' = t /\ ratios' = ratios /\ mixed' = mixed
  BY DEF Accrue, Settings
<1>6. t \in Records /\ \A e \in Denoms : t[e] = IF e = "main" THEN supply[e] + x ELSE supply[e]
  <2>1. supply \in Records /\ "main" \in Denoms /\ x \in Int
    BY <1>1, <1>2, <1>3
  <2>. QED  BY ONLY <2>1, SupplyValue
<1>. HIDE DEF f, t
<1>7. y \in Int /\ x = f + y
  BY <1>1, <1>4
<1>. HIDE DEF y
<1>8. /\ p \in Ledgers
      /\ \A l \in Holders, e \in Denoms :
            p[l][e] = IF l = "splittable_fee_collector" /\ e = "main"
                      THEN balance[l][e] + f ELSE balance[l][e]
      /\ \A e \in Denoms :
            TotalOf(p, e) = IF e = "main" THEN TotalOf(balance, e) + f ELSE TotalOf(balance, e)
  <2>1. balance \in Ledgers /\ "splittable_fee_collector" \in Holders /\ "main" \in Denoms
        /\ f \in Int
    BY <1>2, <1>3, <1>4
  <2>. QED  BY ONLY <2>1, AddValue
<1>. HIDE DEF p
<1>9. /\ c \in Ledgers
      /\ \A l \in Holders, e \in Denoms :
            c[l][e] = IF l = a /\ e = "main" THEN p[l][e] + y ELSE p[l][e]
      /\ \A e \in Denoms :
            TotalOf(c, e) = IF e = "main" THEN TotalOf(p, e) + y ELSE TotalOf(p, e)
  <2>1. p \in Ledgers /\ a \in Holders /\ "main" \in Denoms /\ y \in Int
    BY <1>3, <1>7, <1>8
  <2>. QED  BY ONLY <2>1, AddValue
<1>. HIDE DEF c
<1>10. \A e \in Denoms : TotalOf(balance, e) \in Int /\ supply[e] \in Int
  BY <1>2, TotalType DEF Records
<1>11. CASE f <= x
  <2>1. balance' = c /\ y >= 0
    BY <1>1, <1>4, <1>5, <1>7, <1>11
  <2>2. ASSUME NEW l \in Holders, NEW e \in Denoms PROVE c[l][e] >= 0
    <3>1. balance[l][e] \in Nat
      BY <1>2
    <3>. QED  BY <1>4, <1>7, <1>8, <1>9, <2>1, <3>1
  <2>3. ASSUME NEW e \in Denoms
        PROVE  t[e] - TotalOf(c, e) = supply[e] - TotalOf(balance, e)
    BY <1>4, <1>6, <1>7, <1>8, <1>9, <1>10
  <2>4. ASSUME ~mixed'
        PROVE  ~mixed /\ c["splittable_fee_collector"]["main"] = Collected + f
    BY <1>3, <1>5, <1>8, <1>9, <2>4 DEF Collected
  <2>5. Together
    BY <1>4, <1>5, <1>6, <1>9, <2>1, <2>2, <2>3, <2>4, ToTogether
  <2>6. \A d \in Denoms : Beyond(d) \in Int
    BY <1>10 DEF Beyond
  <2>. QED  BY <2>5, <2>6 DEF Together
<1>12. CASE f > x
  <2>1. balance' = balance /\ balance \in Balances
    BY <1>5, <1>12 DEF BankIInv, BankTypeOK, Balances
  <2>2. FeesDivide'
    <3>1. Collected' = Collected /\ RatiosLCM(ratios)' = RatiosLCM(ratios)
      BY <1>5, <2>1 DEF Collected
    <3>. QED  BY <1>5, <3>1 DEF BankIInv, FeesDivide
  <2>3. ASSUME NEW d \in Denoms PROVE Beyond(d)' >= Beyond(d)
    <3>1. t[d] - TotalOf(balance, d) >= supply[d] - TotalOf(balance, d)
      BY <1>1, <1>6, <1>10
    <3>. QED  BY <1>5, <2>1, <3>1 DEF Beyond
  <2>4. ~(f <= x)
    BY <1>1, <1>4, <1>12
  <2>. QED  BY <1>5, <1>6, <2>1, <2>2, <2>3, <2>4 DEF f
<1>13. f <= x \/ f > x
  BY <1>1, <1>4
<1>. QED  BY <1>11, <1>12, <1>13

\* New shares: whatever waits was not collected for them.
LEMMA SetRatiosDivides ==
    ASSUME BankIInv, NEW r \in Ratios, SetRatios(r)
    PROVE  FeesDivide'
<1>1. ratios' = r /\ balance' = balance /\ mixed' = (mixed \/ Collected # 0)
  BY DEF SetRatios, Collected
<1>2. Collected' = Collected /\ RatiosLCM(ratios)' = RatiosLCM(r)
  BY <1>1 DEF Collected
<1>3. r \in SplitRatios
  BY BankAssumption DEF SplitRatios
<1>4. RatiosLCM(r) \in Positive
  BY <1>3, RatiosLCMValue
<1>5. 0 % RatiosLCM(r) = 0
  <2>1. (0 * RatiosLCM(r)) % RatiosLCM(r) = 0 /\ 0 * RatiosLCM(r) = 0
    BY <1>4, MultipleMod DEF Positive
  <2>. QED  BY <2>1
<1>. QED  BY <1>1, <1>2, <1>5 DEF FeesDivide

\* A file without a supply gets the total: nothing beyond what is owned.
LEMMA RestartCovers ==
    ASSUME BankIInv, Restart
    PROVE  /\ supply' \in Records /\ Covered'
           /\ (\A d \in Denoms : Beyond(d) = 0) => (\A d \in Denoms : Beyond(d)' = 0)
<1>1. balance \in Ledgers /\ supply \in Records
  BY BankKnown
<1>2. \A d \in Denoms : Total(d) = TotalOf(balance, d) /\ TotalOf(balance, d) \in Int
  BY <1>1, TotalIsSum, TotalType
<1>3. balance' = balance
  BY DEF Restart
<1>4. CASE supply' = supply
  BY <1>1, <1>3, <1>4 DEF BankIInv, Covered, Beyond
<1>5. CASE supply' = [d \in Denoms |-> Total(d)]
  <2>1. supply' \in Records /\ \A d \in Denoms : supply'[d] = TotalOf(balance, d)
    BY <1>2, <1>5 DEF Records
  <2>2. \A d \in Denoms : Beyond(d)' = supply'[d] - TotalOf(balance, d)
    BY <1>3 DEF Beyond
  <2>3. \A d \in Denoms : Beyond(d)' = 0
    BY <1>2, <2>1, <2>2
  <2>. QED  BY <2>1, <2>3 DEF Covered
<1>. QED  BY <1>4, <1>5 DEF Restart

\* At genesis the record is the total, and no fee waits.
LEMMA InitCovers ==
    ASSUME BankInit
    PROVE  BankIInv /\ \A d \in Denoms : Beyond(d) = 0
<1>1. balance \in Balances
  BY BankAssumption DEF BankInit, Balances
<1>2. balance \in Ledgers /\ \A d \in Denoms, h \in Holders : balance[h][d] \in Nat
  BY <1>1 DEF Balances, Ledgers
<1>3. \A d \in Denoms : supply[d] = TotalOf(balance, d)
  BY TotalIsSum DEF BankInit
<1>4. ASSUME NEW d \in Denoms
      PROVE  TotalOf(balance, d) \in Int /\ TotalOf(balance, d) >= 0
  BY <1>2, TotalType
<1>5. \A d \in Denoms : Beyond(d) = 0
  BY <1>3, <1>4 DEF Beyond
<1>6. supply \in [Denoms -> Nat]
  <2>1. supply = [d \in Denoms |-> Total(d)] /\ \A d \in Denoms : Total(d) \in Nat
    BY <1>4, TotalIsSum DEF BankInit
  <2>. QED  BY <2>1
<1>7. ratios \in Ratios /\ blocked \subseteq Users /\ txs \in 0..MaxTxs /\ mixed \in BOOLEAN
  <2>1. ratios \in Ratios /\ blocked = {} /\ txs = 0 /\ MaxTxs \in Nat
    BY BankAssumption DEF BankInit
  <2>2. mixed \in BOOLEAN
    BY DEF BankInit
  <2>. QED  BY <2>1, <2>2
<1>8. Collected = 0
  <2>1. "splittable_fee_collector" \in Holders /\ "main" \in Denoms
        /\ "splittable_fee_collector" \notin Users
    BY BankAssumption DEF Holders, Collectors, Denoms
  <2>. QED  BY <2>1 DEF BankInit, Collected
<1>9. FeesDivide
  <2>1. ratios \in SplitRatios
    BY <1>7, BankAssumption DEF SplitRatios
  <2>2. RatiosLCM(ratios) \in Positive
    BY <2>1, RatiosLCMValue
  <2>3. (0 * RatiosLCM(ratios)) % RatiosLCM(ratios) = 0 /\ 0 * RatiosLCM(ratios) = 0
    BY <2>2, MultipleMod DEF Positive
  <2>. QED  BY <1>8, <2>3 DEF FeesDivide
<1>10. BankTypeOK
  BY <1>1, <1>6, <1>7 DEF BankTypeOK, Balances
<1>. QED  BY <1>5, <1>9, <1>10 DEF BankIInv, Covered

(***************************************************************************)
(* Every step but Accrue, a restart or a change of parameters: Together.   *)
(***************************************************************************)
LEMMA StepCovers ==
    ASSUME BankIInv, [BankNext]_bankVars
    PROVE  /\ balance' \in Balances /\ supply' \in Records /\ FeesDivide' /\ Covered'
           /\ TransactionFee.num <= TransactionFee.den =>
                ((\A d \in Denoms : Beyond(d) = 0) => (\A d \in Denoms : Beyond(d)' = 0))
<1> DEFINE Exact == \A d \in Denoms : Beyond(d) = 0
           Goal == /\ balance' \in Balances /\ supply' \in Records /\ FeesDivide' /\ Covered'
                   /\ TransactionFee.num <= TransactionFee.den => (Exact => Exact')
<1>1. ASSUME Together PROVE Goal
  BY <1>1 DEF Together, BankIInv, Covered
<1>2. /\ balance \in Balances /\ supply \in Records
      /\ \A d \in Denoms : Beyond(d) \in Int
  <2>1. balance \in Ledgers /\ supply \in Records
    BY BankKnown
  <2>. QED  BY <2>1, TotalType DEF BankIInv, BankTypeOK, Balances, Beyond, Records
<1>3. ASSUME UNCHANGED <<balance, supply>>, FeesDivide' PROVE Goal
  <2>1. \A d \in Denoms : Beyond(d)' = Beyond(d)
    BY <1>3 DEF Beyond
  <2>. QED  BY <1>2, <1>3, <2>1 DEF BankIInv, Covered
<1>4. ASSUME NEW a \in Users, NEW x \in Amounts, Accrue(a, x) PROVE Goal
  <2>1. /\ balance' \in Balances /\ supply' \in Records /\ FeesDivide'
        /\ \A d \in Denoms : Beyond(d)' >= Beyond(d)
        /\ Fee(x) <= x => \A d \in Denoms : Beyond(d)' = Beyond(d)
    BY <1>4, AccrueCovers
  <2>2. \A d \in Denoms : Beyond(d)' \in Int
    <3>1. balance' \in Ledgers
      BY <2>1 DEF Balances, Ledgers
    <3>2. \A d \in Denoms : TotalOf(balance', d) \in Int
      BY <3>1, TotalType
    <3>. QED  BY <2>1, <3>2 DEF Beyond, Records
  <2>3. Covered'
    BY <1>2, <2>1, <2>2 DEF BankIInv, Covered
  <2>4. ASSUME TransactionFee.num <= TransactionFee.den PROVE Fee(x) <= x
    BY <2>4, FeeAtMostAll, BankKnown, BankAssumption
  <2>. QED  BY <2>1, <2>3, <2>4
<1>. HIDE DEF Goal
<1>5. ASSUME NEW a \in Users, NEW x \in Amounts, UserOp(a, x) PROVE Goal
  <2>1. ASSUME NEW to \in Users \cup Collectors, Send(a, to, x) PROVE Goal
    BY <1>1, <2>1, SendTogether
  <2>2. CASE Burn(a, x)
    BY <1>1, <2>2, BurnTogether
  <2>3. CASE PayService(a, x)
    BY <1>1, <2>3, PayServiceTogether
  <2>4. CASE PayProposer(a, x)
    BY <1>1, <2>4, PayProposerTogether
  <2>5. CASE Delegate(a, x)
    BY <1>1, <2>5, DelegateTogether
  <2>6. CASE Undelegate(a, x)
    BY <1>1, <2>6, UndelegateTogether
  <2>7. ASSUME NEW burn \in RevokeBurns, Freeze(a, x, burn) PROVE Goal
    BY <1>1, <2>7, FreezeTogether
  <2>8. CASE Accrue(a, x)
    BY <1>4, <2>8
  <2>9. CASE Receive(a, x)
    BY <1>1, <2>9, ReceiveTogether
  <2>10. CASE SendBack(a, x)
    BY <1>1, <2>10, SendBackTogether
  <2>. QED
    BY <1>5, <2>1, <2>2, <2>3, <2>4, <2>5, <2>6, <2>7, <2>8, <2>9, <2>10 DEF UserOp
<1>6. ASSUME NEW above \in SUBSET Users, NEW x \in Amounts, AccrueToValidator(above, x)
      PROVE  Goal
  BY <1>1, <1>6, AccrueToValidatorTogether
<1>7. ASSUME NEW a \in Users, Confiscate(a) PROVE Goal
  BY <1>1, <1>7, ConfiscateTogether
<1>8. ASSUME NEW a \in Users, PayProposerReward(a) PROVE Goal
  BY <1>1, <1>8, PayProposerRewardTogether
<1>9. ASSUME UNCHANGED <<balance, ratios, mixed>> PROVE FeesDivide'
  <2>1. Collected' = Collected /\ RatiosLCM(ratios)' = RatiosLCM(ratios)
    BY <1>9 DEF Collected
  <2>. QED  BY <1>9, <2>1 DEF BankIInv, FeesDivide
<1>10. ASSUME NEW a \in Users, SetBlocked(a) PROVE Goal
  BY <1>3, <1>9, <1>10 DEF SetBlocked
<1>11. ASSUME NEW r \in Ratios, SetRatios(r) PROVE Goal
  BY <1>3, <1>11, SetRatiosDivides DEF SetRatios
<1>12. ASSUME Restart PROVE Goal
  <2>1. UNCHANGED <<balance, ratios, mixed>>
    BY <1>12 DEF Restart
  <2>. QED  BY <1>2, <1>9, <1>12, <2>1, RestartCovers DEF Goal
<1>13. ASSUME UNCHANGED bankVars PROVE Goal
  BY <1>3, <1>9, <1>13 DEF bankVars
<1>14. Goal
  BY <1>5, <1>6, <1>7, <1>8, <1>10, <1>11, <1>12, <1>13 DEF BankNext
<1>. QED  BY <1>14 DEF Goal

\* The other variables.
LEMMA StepSettings ==
    ASSUME BankTypeOK, [BankNext]_bankVars
    PROVE  /\ ratios' \in Ratios /\ blocked' \subseteq Users
           /\ txs' \in 0..MaxTxs /\ mixed' \in BOOLEAN
<1>1. ratios \in Ratios /\ blocked \subseteq Users /\ txs \in 0..MaxTxs /\ mixed \in BOOLEAN
      /\ MaxTxs \in Nat
  BY BankAssumption DEF BankTypeOK
<1>2. ASSUME Op PROVE txs' \in 0..MaxTxs
  BY <1>1, <1>2 DEF Op
<1>3. ASSUME UNCHANGED Settings PROVE ratios' = ratios /\ blocked' = blocked
  BY <1>3 DEF Settings
<1>4. ASSUME NEW a \in Users, NEW x \in Amounts, UserOp(a, x)
      PROVE  Op /\ UNCHANGED Settings /\ mixed' \in BOOLEAN
  BY <1>1, <1>4 DEF UserOp, Send, Burn, PayService, PayProposer, Delegate, Undelegate,
     Freeze, Accrue, Receive, SendBack
<1>5. ASSUME NEW above \in SUBSET Users, NEW x \in Amounts, AccrueToValidator(above, x)
      PROVE  Op /\ UNCHANGED Settings /\ mixed' \in BOOLEAN
  BY <1>1, <1>5 DEF AccrueToValidator
<1>6. ASSUME NEW a \in Users, Confiscate(a) \/ PayProposerReward(a)
      PROVE  Op /\ UNCHANGED Settings /\ mixed' \in BOOLEAN
  BY <1>1, <1>6 DEF Confiscate, PayProposerReward
<1>7. ASSUME NEW a \in Users, SetBlocked(a)
      PROVE  Op /\ ratios' = ratios /\ blocked' \subseteq Users /\ mixed' = mixed
  BY <1>1, <1>7 DEF SetBlocked
<1>8. ASSUME NEW r \in Ratios, SetRatios(r)
      PROVE  Op /\ ratios' = r /\ blocked' = blocked /\ mixed' \in BOOLEAN
  BY <1>1, <1>8 DEF SetRatios
<1>9. ASSUME Restart \/ UNCHANGED bankVars PROVE UNCHANGED <<ratios, blocked, txs, mixed>>
  BY <1>9 DEF Restart, bankVars
<1>. QED  BY <1>1, <1>2, <1>3, <1>4, <1>5, <1>6, <1>7, <1>8, <1>9 DEF BankNext

LEMMA BankInductive == BankIInv /\ [BankNext]_bankVars => BankIInv'
<1>. SUFFICES ASSUME BankIInv, [BankNext]_bankVars PROVE BankIInv'
  OBVIOUS
<1>1. balance' \in Balances /\ supply' \in Records /\ FeesDivide' /\ Covered'
  BY StepCovers
<1>2. balance' \in Ledgers /\ \A d \in Denoms, h \in Holders : balance'[h][d] >= 0
  BY <1>1 DEF Balances, Ledgers
<1>3. ASSUME NEW d \in Denoms PROVE TotalOf(balance', d) \in Int /\ TotalOf(balance', d) >= 0
  BY <1>2, TotalType
<1>4. \A d \in Denoms : supply'[d] \in Int /\ supply'[d] - TotalOf(balance', d) >= 0
  BY <1>1 DEF Covered, Beyond, Records
<1>5. supply' \in [Denoms -> Nat]
  <2>1. \A d \in Denoms : supply'[d] \in Nat
    BY <1>3, <1>4
  <2>. QED  BY <1>1, <2>1 DEF Records
<1>6. BankTypeOK'
  BY <1>1, <1>5, StepSettings DEF BankTypeOK, Balances, BankIInv
<1>. QED  BY <1>1, <1>6 DEF BankIInv

-----------------------------------------------------------------------------
(* The theorems.                                                           *)

(***************************************************************************)
(* No balance and no record of the supply falls below zero: every          *)
(* operation of the bank keeper that subtracts, the burning of shares of   *)
(* the fees included, finds enough.                                        *)
(***************************************************************************)
THEOREM BankTypeCorrect == BankSpec => []BankTypeOK
<1>1. BankInit => BankIInv
  BY InitCovers
<1>2. BankIInv => BankTypeOK
  BY DEF BankIInv
<1>. QED  BY <1>1, <1>2, BankInductive, PTL DEF BankSpec

(***************************************************************************)
(* SplitFee shares the collected fees to the last coin, whatever the       *)
(* shares are that validateTransactionFeeSplitRatios lets through and      *)
(* whatever CalculateFee took, unless other coins were mixed with them;    *)
(* and it never shares more than there is.                                 *)
(***************************************************************************)
THEOREM BankSharesAddUp == BankSpec => []SharesAddUp
<1>1. BankInit => BankIInv
  BY InitCovers
<1>2. BankIInv => SharesAddUp
  <2>. SUFFICES ASSUME BankIInv PROVE SharesAddUp
    OBVIOUS
  <2> DEFINE s == SplitFee(Collected, ratios)
  <2>1. ratios \in SplitRatios /\ Collected \in Nat
    BY BankKnown
  <2>2. s.proposer + s.company + s.burning <= Collected
    BY <2>1, SharedAtMostAll
  <2>3. ASSUME ~mixed PROVE s.proposer + s.company + s.burning = Collected
    <3>1. Collected % RatiosLCM(ratios) = 0
      BY <2>3 DEF BankIInv, FeesDivide
    <3>. QED  BY <2>1, <3>1, SharedExactly
  <2>. QED  BY <2>2, <2>3 DEF SharesAddUp, Collected
<1>. QED  BY <1>1, <1>2, BankInductive, PTL DEF BankSpec

(***************************************************************************)
(* The recorded supply is what all holders own, if the transaction fee is  *)
(* at most everything.  validateTransactionFee asks only that it is not    *)
(* negative; with more than everything accrue panics after it recorded     *)
(* what it emits, and the two differ.                                      *)
(***************************************************************************)
THEOREM BankSupplyMatches ==
    ASSUME TransactionFee.num <= TransactionFee.den
    PROVE  BankSpec => []SupplyMatches
<1> DEFINE Exact == \A d \in Denoms : Beyond(d) = 0
           EInv == BankIInv /\ Exact
<1>1. BankInit => EInv
  BY InitCovers
<1>2. EInv /\ [BankNext]_bankVars => EInv'
  BY BankInductive, StepCovers
<1>3. EInv => SupplyMatches
  <2>. SUFFICES ASSUME EInv PROVE SupplyMatches
    OBVIOUS
  <2>1. balance \in Ledgers /\ supply \in Records
    BY BankKnown
  <2>2. \A d \in Denoms : TotalOf(balance, d) \in Int /\ supply[d] \in Int
    BY <2>1, TotalType DEF Records
  <2>3. \A d \in Denoms : supply[d] = TotalOf(balance, d)
    BY <2>2 DEF Beyond
  <2>. QED  BY <2>3, TotalIsSum DEF SupplyMatches
<1>. QED  BY <1>1, <1>2, <1>3, PTL DEF BankSpec
=============================================================================
