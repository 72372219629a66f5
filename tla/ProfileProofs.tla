--------------------------- MODULE ProfileProofs ----------------------------
(***************************************************************************)
(* That x/profile gives every month that is paid for, once, and keeps the  *)
(* timers, the activity, the limits and the index of nicknames consistent, *)
(* for all accounts, prices, purchases and restarts, as long as blocks are *)
(* less than a month apart (ProfileAssumption) and traffic fits into its   *)
(* counter (TrafficAssumption).  What is said of months, activity, extra   *)
(* storage and limits is said of accounts that were created without any    *)
(* (all but gifts), and of limits only until a reading exceeds them        *)
(* (overs): the code checks neither, and of those accounts the invariant   *)
(* keeps no more than the types and that a renewal has a time.             *)
(***************************************************************************)
EXTENDS Profile, TLAPS

(***************************************************************************)
(* Where the tasks of the module are in time.  Those of buyers in the      *)
(* store lie ahead, except between a restart and the first pass; none is   *)
(* ever late by a month.  A task has an account, and its number tells      *)
(* nothing.                                                                *)
(***************************************************************************)
TasksInv ==
    /\ \A t \in tasks \cup due :
         t.id = 0 /\ Exists(t.data) /\ (t.data \notin gifts => t.time + Month > now)
    /\ phase # "genesis" => \A t \in tasks : t.data \notin gifts => t.time > now
    /\ phase # "pass" => due = {}
    /\ \A t \in due : t.time <= now

\* The history is about accounts there are.
Marked == \A a \in gifts \cup overs : Exists(a)

\* x/referral lags behind only in a pass, and only by an end of activity.
ActiveOK(a) ==
    /\ IsActive(profile[a]) => active[a]
    /\ active[a] /\ ~IsActive(profile[a]) => phase = "pass"

\* The ends of the last n + 1 months before u.
MonthsTo(u, n) == {u - k * Month : k \in 0..n}

\* The renewals that wait are those of the months ahead and of the last one,
\* and the month before the earliest of them has ended.
MonthsOK(a) ==
    /\ ahead[a] \in Nat
    /\ IF Exists(a) /\ TimesOf("refresh", a) # {}
       THEN /\ profile[a].activeUntil # NoTime
            /\ TimesOf("refresh", a) = MonthsTo(profile[a].activeUntil, ahead[a])
            /\ profile[a].activeUntil - (ahead[a] + 1) * Month <= now
       ELSE ahead[a] = 0 /\ ~active[a]

\* Traffic comes with a tariff, and fits into an uint64.
Capacity == Word - 1 - BaseVpn

TrafficOK(a) ==
    /\ spare[a] \in Nat /\ spare[a] <= Capacity /\ spare[a] * MaxTxs <= txs * Capacity
    /\ ~Exists(a) => spare[a] = 0
    /\ Exists(a) /\ profile[a].activeUntil = NoTime => profile[a].vpnLimit = 0 /\ spare[a] = 0

\* What ImArmed and LimitsHold say of one account.
ImOK(a) ==
    Exists(a) =>
      /\ TimesOf("refresh-im", a) = {profile[a].imUntil} \ {NoTime}
      /\ profile[a].imExtra > 0 <=> profile[a].imUntil # NoTime
      /\ phase = "txs" /\ profile[a].imUntil # NoTime => profile[a].imUntil > now

LimitsOK(a) ==
    Exists(a) =>
      /\ profile[a].storageCurrent <= profile[a].storageLimit
      /\ profile[a].vpnCurrent <= profile[a].vpnLimit
      /\ profile[a].activeUntil # NoTime => profile[a].vpnLimit = BaseVpn + spare[a]

\* Whoever waits for a renewal has a month.
LateOK(a) ==
    Exists(a) /\ TimesOf("refresh", a) # {} => profile[a].activeUntil # NoTime

BuyerOK(a) == ActiveOK(a) /\ MonthsOK(a) /\ ImOK(a)

AccountOK(a) ==
    /\ LateOK(a)
    /\ a \notin gifts => BuyerOK(a)
    /\ a \notin gifts \cup overs => TrafficOK(a) /\ LimitsOK(a)

IInv == TypeOK /\ TasksInv /\ Marked /\ NicknamesIndexed /\ \A a \in Accounts : AccountOK(a)

-----------------------------------------------------------------------------
(* Arithmetic.                                                             *)

LEMMA MinPair ==
    ASSUME NEW x \in Int, NEW y \in Int
    PROVE  Min({x, y}) \in Int /\ Min({x, y}) <= x /\ Min({x, y}) <= y
           /\ (Min({x, y}) = x \/ Min({x, y}) = y)
<1> DEFINE Least(m) == m \in {x, y} /\ \A n \in {x, y} : m <= n
<1>1. \E m : Least(m)
  <2>1. CASE x <= y
    BY <2>1
  <2>2. CASE y <= x
    BY <2>2
  <2>. QED  BY <2>1, <2>2
<1>2. Min({x, y}) = CHOOSE m : Least(m)
  BY DEF Min
<1>. HIDE DEF Least
<1>3. Least(Min({x, y}))
  BY <1>1, <1>2
<1>. QED  BY <1>3 DEF Least

LEMMA MaxPair ==
    ASSUME NEW x \in Int, NEW y \in Int
    PROVE  Max({x, y}) \in Int /\ Max({x, y}) >= x /\ Max({x, y}) >= y
           /\ (Max({x, y}) = x \/ Max({x, y}) = y)
<1> DEFINE Most(m) == m \in {x, y} /\ \A n \in {x, y} : m >= n
<1>1. \E m : Most(m)
  <2>1. CASE x >= y
    BY <2>1
  <2>2. CASE y >= x
    BY <2>2
  <2>. QED  BY <2>1, <2>2
<1>2. Max({x, y}) = CHOOSE m : Most(m)
  BY DEF Max
<1>. HIDE DEF Most
<1>3. Most(Max({x, y}))
  BY <1>1, <1>2
<1>. QED  BY <1>3 DEF Most

\* One month more at the end.
LEMMA MonthsMore ==
    ASSUME NEW u \in Int, NEW n \in Nat
    PROVE  MonthsTo(u + Month, n + 1) = MonthsTo(u, n) \cup {u + Month}
<1> DEFINE v == u + Month
<1>1. Month \in Int /\ Month >= 1 /\ v \in Int
  BY ProfileAssumption
<1>2. ASSUME NEW k \in 0..(n + 1), k # 0
      PROVE  k - 1 \in 0..n /\ v - k * Month = u - (k - 1) * Month
  <2>1. k - 1 \in 0..n
    BY <1>2
  <2>2. (k - 1) * Month = k * Month - Month /\ k * Month \in Int
    BY <1>1
  <2>. QED  BY <1>1, <2>1, <2>2
<1>3. ASSUME NEW k \in 0..n
      PROVE  k + 1 \in 0..(n + 1) /\ v - (k + 1) * Month = u - k * Month
  BY <1>1
<1>4. 0 \in 0..(n + 1) /\ v - 0 * Month = v
  BY <1>1
<1>. HIDE DEF v
<1>5. ASSUME NEW x \in MonthsTo(v, n + 1) PROVE x \in MonthsTo(u, n) \cup {v}
  <2>1. PICK k \in 0..(n + 1) : x = v - k * Month
    BY <1>5 DEF MonthsTo
  <2>2. CASE k = 0
    BY <1>4, <2>1, <2>2
  <2>3. CASE k # 0
    <3>1. k - 1 \in 0..n /\ x = u - (k - 1) * Month
      BY <1>2, <2>1, <2>3
    <3>. QED  BY <3>1 DEF MonthsTo
  <2>. QED  BY <2>2, <2>3
<1>6. ASSUME NEW x \in MonthsTo(u, n) PROVE x \in MonthsTo(v, n + 1)
  <2>1. PICK k \in 0..n : x = u - k * Month
    BY <1>6 DEF MonthsTo
  <2>2. k + 1 \in 0..(n + 1) /\ x = v - (k + 1) * Month
    BY <1>3, <2>1
  <2>. QED  BY <2>2 DEF MonthsTo
<1>7. v \in MonthsTo(v, n + 1)
  BY <1>4 DEF MonthsTo
<1>8. MonthsTo(v, n + 1) = MonthsTo(u, n) \cup {v}
  BY <1>5, <1>6, <1>7
<1>. QED  BY <1>8 DEF v

\* The earliest month less.
LEMMA MonthsLess ==
    ASSUME NEW u \in Int, NEW n \in Nat, n # 0
    PROVE  MonthsTo(u, n) \ {u - n * Month} = MonthsTo(u, n - 1)
<1>1. Month \in Int /\ Month >= 1
  BY ProfileAssumption
<1>2. ASSUME NEW k \in 0..(n - 1) PROVE k \in 0..n /\ u - k * Month # u - n * Month
  <2>1. (n - k) * Month >= Month /\ (n - k) * Month = n * Month - k * Month
    BY <1>1
  <2>2. k * Month \in Int /\ n * Month \in Int
    BY <1>1
  <2>3. k \in 0..n
    OBVIOUS
  <2>. QED  BY <1>1, <2>1, <2>2, <2>3
<1>3. \A k \in 0..n : k = n \/ k \in 0..(n - 1)
  OBVIOUS
<1>. QED  BY <1>2, <1>3 DEF MonthsTo

\* All of the months to u lie between the first one and u.
LEMMA MonthsBetween ==
    ASSUME NEW u \in Int, NEW n \in Nat, NEW x \in MonthsTo(u, n)
    PROVE  /\ x \in Int /\ u - n * Month <= x /\ x <= u
           /\ x = u \/ x + Month <= u
           /\ x = u - n * Month \/ u - n * Month + Month <= x
<1>1. Month \in Int /\ Month >= 1
  BY ProfileAssumption
<1>2. PICK k \in 0..n : x = u - k * Month
  BY DEF MonthsTo
<1>3. k * Month \in Int /\ n * Month \in Int
  BY <1>1
<1>4. k = 0 \/ k * Month >= Month
  BY <1>1
<1>5. k = n \/ k * Month + Month <= n * Month
  <2>1. CASE k < n
    <3>1. (n - k) * Month >= Month /\ (n - k) * Month = n * Month - k * Month
      BY <1>1, <2>1
    <3>. QED  BY <1>3, <3>1, <1>1
  <2>. QED  BY <2>1
<1>6. k * Month >= 0 /\ k * Month <= n * Month
  BY <1>1, <1>3, <1>5
<1>7. k = 0 => x = u
  BY <1>1, <1>2
<1>8. k = n => x = u - n * Month
  BY <1>2
<1>. QED  BY <1>1, <1>2, <1>3, <1>4, <1>5, <1>6, <1>7, <1>8

\* The first and the last of them are among them.
LEMMA MonthsEnds ==
    ASSUME NEW u \in Int, NEW n \in Nat
    PROVE  u \in MonthsTo(u, n) /\ u - n * Month \in MonthsTo(u, n)
           /\ MonthsTo(u, 0) = {u}
<1>1. Month \in Int
  BY ProfileAssumption
<1>2. u - 0 * Month = u /\ 0 \in 0..n /\ n \in 0..n
  BY <1>1
<1>3. \A k \in 0..0 : k = 0
  OBVIOUS
<1>. QED  BY <1>2, <1>3 DEF MonthsTo

-----------------------------------------------------------------------------
(* Tasks that come and go.                                                 *)

Handlers == {"refresh", "refresh-im"}
TaskType == Task(Handlers, Accounts)

\* What is known of a task that waits.
LEMMA Waits ==
    ASSUME IInv, NEW t \in tasks \cup due
    PROVE  /\ t \in TaskType /\ t.id = 0 /\ t.time \in Nat /\ t.data \in Accounts
           /\ t.handler \in Handlers /\ Exists(t.data)
           /\ t.data \notin gifts => t.time + Month > now
           /\ t = Timer(t.time, t.handler, t.data)
           /\ t.time \in TimesOf(t.handler, t.data)
<1>1. t \in TaskType /\ t.id = 0 /\ Exists(t.data)
      /\ (t.data \notin gifts => t.time + Month > now)
  BY DEF IInv, TypeOK, TasksInv, TaskType, Handlers
<1>2. t = Timer(t.time, t.handler, t.data) /\ t.time \in Nat /\ t.data \in Accounts
      /\ t.handler \in Handlers
  BY <1>1 DEF TaskType, Task, Timer
<1>. QED  BY <1>1, <1>2 DEF TimesOf

\* Two tasks of one account, one handler and one time are one.
LEMMA OneOfATime ==
    ASSUME IInv, NEW t \in tasks \cup due, NEW u \in tasks \cup due,
           t.time = u.time, t.handler = u.handler, t.data = u.data
    PROVE  t = u
<1>1. t = Timer(t.time, t.handler, t.data) /\ u = Timer(u.time, u.handler, u.data)
  BY Waits
<1>. QED  BY <1>1

(***************************************************************************)
(* Some tasks of one account for one handler go, and another comes.        *)
(***************************************************************************)
Changed(h, a, gone, come) ==
    {u \in tasks \cup due : ~(u.handler = h /\ u.data = a /\ u.time \in gone)}
      \cup {Timer(n, h, a) : n \in come}

LEMMA TimesChange ==
    ASSUME IInv, NEW a \in Accounts, NEW h \in Handlers, NEW gone, NEW come \in SUBSET Nat,
           (tasks \cup due)' = Changed(h, a, gone, come)
    PROVE  /\ TimesOf(h, a)' = (TimesOf(h, a) \ gone) \cup come
           /\ \A g \in Handlers, b \in Accounts :
                g # h \/ b # a => TimesOf(g, b)' = TimesOf(g, b)
<1> DEFINE new == {Timer(n, h, a) : n \in come}
           old == tasks \cup due
           kept == {u \in old : ~(u.handler = h /\ u.data = a /\ u.time \in gone)}
           both == (tasks \cup due)'
<1>1. \A u \in new : u.handler = h /\ u.data = a /\ u.time \in come
  BY DEF Timer
<1>2. \A n \in come : Timer(n, h, a) \in new /\ Timer(n, h, a).time = n
        /\ Timer(n, h, a).handler = h /\ Timer(n, h, a).data = a
  BY DEF Timer
<1>3. both = kept \cup new
  BY DEF Changed
<1>4. \A g, b : TimesOf(g, b)' = {t.time : t \in {u \in both : u.handler = g /\ u.data = b}}
  BY DEF TimesOf
<1>5. \A g, b : TimesOf(g, b) = {t.time : t \in {u \in old : u.handler = g /\ u.data = b}}
  BY DEF TimesOf
<1>. HIDE DEF new, old, both
<1>6. TimesOf(h, a)' = (TimesOf(h, a) \ gone) \cup come
  <2>1. ASSUME NEW n \in TimesOf(h, a)' PROVE n \in (TimesOf(h, a) \ gone) \cup come
    <3>1. PICK u \in both : u.handler = h /\ u.data = a /\ n = u.time
      BY <1>4, <2>1
    <3>2. CASE u \in new
      BY <1>1, <3>1, <3>2
    <3>3. CASE u \in kept
      BY <1>5, <3>1, <3>3
    <3>. QED  BY <1>3, <3>2, <3>3
  <2>2. ASSUME NEW n \in TimesOf(h, a), n \notin gone PROVE n \in TimesOf(h, a)'
    <3>1. PICK u \in old : u.handler = h /\ u.data = a /\ n = u.time
      BY <1>5, <2>2
    <3>2. u \in both
      BY <1>3, <2>2, <3>1
    <3>. QED  BY <1>4, <3>1, <3>2
  <2>3. ASSUME NEW n \in come PROVE n \in TimesOf(h, a)'
    BY <1>2, <1>3, <1>4
  <2>. QED  BY <2>1, <2>2, <2>3
<1>7. ASSUME NEW g \in Handlers, NEW b \in Accounts, g # h \/ b # a
      PROVE  TimesOf(g, b)' = TimesOf(g, b)
  <2>1. \A u : u \in both /\ u.handler = g /\ u.data = b <=>
               u \in old /\ u.handler = g /\ u.data = b
    BY <1>1, <1>3, <1>7
  <2>2. {u \in both : u.handler = g /\ u.data = b} = {u \in old : u.handler = g /\ u.data = b}
    BY <2>1
  <2>. QED  BY <1>4, <1>5, <2>2
<1>. QED  BY <1>6, <1>7

\* What waits changes for one handler of one account only.
LEMMA OtherTimes ==
    ASSUME NEW a, NEW h,
           \A u : ~(u.handler = h /\ u.data = a) =>
                   (u \in (tasks \cup due)' <=> u \in tasks \cup due)
    PROVE  \A g, b : g # h \/ b # a => TimesOf(g, b)' = TimesOf(g, b)
<1> DEFINE old == tasks \cup due  both == (tasks \cup due)'
<1>1. \A u : ~(u.handler = h /\ u.data = a) => (u \in both <=> u \in old)
  OBVIOUS
<1>2. \A g, b : TimesOf(g, b)' = {t.time : t \in {u \in both : u.handler = g /\ u.data = b}}
  BY DEF TimesOf
<1>3. \A g, b : TimesOf(g, b) = {t.time : t \in {u \in old : u.handler = g /\ u.data = b}}
  BY DEF TimesOf
<1>. HIDE DEF old, both
<1>4. ASSUME NEW g, NEW b, g # h \/ b # a PROVE TimesOf(g, b)' = TimesOf(g, b)
  <2>1. {u \in both : u.handler = g /\ u.data = b} = {u \in old : u.handler = g /\ u.data = b}
    BY <1>1, <1>4
  <2>. QED  BY <1>2, <1>3, <2>1
<1>. QED  BY <1>4

\* Nothing changes what waits.
LEMMA TimesStay ==
    ASSUME (tasks \cup due)' = tasks \cup due
    PROVE  \A g, b : TimesOf(g, b)' = TimesOf(g, b)
BY DEF TimesOf

\* The tasks stay well placed when some go and one that lies ahead comes.
LEMMA TasksChange ==
    ASSUME IInv, NEW a \in Accounts, NEW h \in Handlers, NEW come \in SUBSET Nat,
           a \notin gifts => \A n \in come : n > now, phase # "genesis",
           tasks' \subseteq tasks \cup {Timer(n, h, a) : n \in come}, due' \subseteq due,
           UNCHANGED <<now, phase>>, gifts \subseteq gifts',
           profile' \in [Accounts -> Profile \cup {NoProfile}],
           Exists(a)', \A b \in Accounts : Exists(b) => Exists(b)'
    PROVE  TasksInv' /\ tasks' \subseteq TaskType /\ due' \subseteq TaskType
<1>1. ASSUME NEW n \in come
      PROVE  LET t == Timer(n, h, a)
             IN  t \in TaskType /\ t.id = 0 /\ t.time = n /\ t.data = a
  BY DEF Timer, TaskType, Task
<1>2. now \in Nat /\ Month \in Nat /\ Month >= 1
  BY ProfileAssumption DEF IInv, TypeOK
<1>3. ASSUME NEW t \in tasks'
      PROVE  /\ t \in TaskType /\ t.id = 0 /\ Exists(t.data)'
             /\ t.data \notin gifts => t.time + Month > now /\ t.time > now
  <2>1. CASE t \in tasks
    <3>1. /\ t \in TaskType /\ t.id = 0 /\ t.data \in Accounts /\ Exists(t.data)
          /\ t.data \notin gifts => t.time + Month > now
      BY <2>1, Waits
    <3>. QED  BY <2>1, <3>1 DEF IInv, TasksInv
  <2>2. CASE t \notin tasks
    <3>1. PICK n \in come : t = Timer(n, h, a)
      BY <1>3, <2>2
    <3>. QED  BY <1>1, <1>2, <3>1
  <2>. QED  BY <2>1, <2>2
<1>4. ASSUME NEW t \in due'
      PROVE  /\ t \in TaskType /\ t.id = 0 /\ Exists(t.data)' /\ t.time <= now
             /\ t.data \notin gifts => t.time + Month > now
  <2>1. /\ t \in TaskType /\ t.id = 0 /\ t.data \in Accounts /\ Exists(t.data)
        /\ t.data \notin gifts => t.time + Month > now
    BY Waits
  <2>. QED  BY <2>1 DEF IInv, TasksInv
<1>5. phase # "pass" => due' = {}
  BY DEF IInv, TasksInv
<1>6. UNCHANGED <<now, phase>> /\ \A t \in tasks' \cup due' : t.data \notin gifts' => t.data \notin gifts
  OBVIOUS
<1>. QED  BY <1>3, <1>4, <1>5, <1>6 DEF TasksInv

-----------------------------------------------------------------------------
(* Who is active.                                                          *)

LEMMA ActiveSet ==
    ASSUME NEW a \in Accounts, NEW p, SetProfile(a, p), active \in [Accounts -> BOOLEAN]
    PROVE  /\ active' \in [Accounts -> BOOLEAN]
           /\ \A b \in Accounts : b # a => active'[b] = active[b]
           /\ IsActive(p) /\ (IsActive(profile[a]) => active[a]) => active'[a]
           /\ ~IsActive(p) /\ (active[a] => IsActive(profile[a])) => ~active'[a]
           /\ (IsActive(p) <=> IsActive(profile[a])) => active' = active
<1>1. CASE IsActive(p) = IsActive(profile[a])
  <2>1. active' = active
    BY <1>1 DEF SetProfile
  <2>. QED  BY <1>1, <2>1
<1>2. CASE IsActive(p) # IsActive(profile[a])
  <2>1. active' = [active EXCEPT ![a] = IsActive(p)]
    BY <1>2 DEF SetProfile
  <2>2. IsActive(p) \in BOOLEAN /\ IsActive(profile[a]) \in BOOLEAN
    BY Zenon DEF IsActive, IsActiveAt
  <2>3. active'[a] = IsActive(p)
    BY <2>1
  <2>4. active' \in [Accounts -> BOOLEAN]
    BY <2>1, <2>2, Zenon
  <2>5. ~(IsActive(p) <=> IsActive(profile[a]))
    BY <1>2, <2>2
  <2>. QED  BY <2>1, <2>3, <2>4, <2>5
<1>. QED  BY <1>1, <1>2

-----------------------------------------------------------------------------
(* One account changes.                                                    *)

\* The other accounts are as they were.
Apart(a) ==
    /\ UNCHANGED <<now, phase>>
    /\ txs' \in txs..MaxTxs
    /\ \A b \in Accounts \ {a} :
         /\ profile'[b] = profile[b] /\ active'[b] = active[b]
         /\ ahead'[b] = ahead[b] /\ spare'[b] = spare[b]
         /\ b \in gifts' <=> b \in gifts
         /\ b \in overs' <=> b \in overs
         /\ \A h \in Handlers : TimesOf(h, b)' = TimesOf(h, b)

LEMMA Capacities ==
    /\ Capacity \in Nat
    /\ \A gb \in Gbs : gb \in Nat /\ gb * MaxTxs <= Capacity
<1>1. Word \in Nat /\ BaseVpn \in Nat /\ BaseVpn < Word /\ MaxTxs \in Nat
  BY ProfileAssumption, TrafficAssumption
<1>2. ASSUME NEW gb \in Gbs PROVE gb \in Nat /\ gb * MaxTxs <= Capacity
  <2>1. gb \in Nat /\ BaseVpn + MaxTxs * gb < Word
    BY ProfileAssumption, TrafficAssumption
  <2>2. MaxTxs * gb \in Nat /\ gb * MaxTxs = MaxTxs * gb
    BY <1>1, <2>1
  <2>. QED  BY <1>1, <2>1, <2>2 DEF Capacity
<1>. QED  BY <1>1, <1>2 DEF Capacity

\* More transactions leave more room.
LEMMA MoreRoom ==
    ASSUME NEW x \in Int, NEW m \in Nat, NEW n \in Nat, m <= n, x <= m * Capacity
    PROVE  x <= n * Capacity
<1>1. Capacity \in Nat
  BY Capacities
<1>. HIDE DEF Capacity
<1>2. (n - m) * Capacity >= 0 /\ (n - m) * Capacity = n * Capacity - m * Capacity
  BY <1>1
<1>3. n * Capacity \in Int /\ m * Capacity \in Int
  BY <1>1
<1>. QED  BY <1>2, <1>3

LEMMA Others ==
    ASSUME IInv, NEW a \in Accounts, Apart(a), NEW b \in Accounts \ {a}
    PROVE  AccountOK(b)'
<1>1. AccountOK(b)
  BY DEF IInv
<1>2. /\ UNCHANGED <<now, phase>> /\ profile'[b] = profile[b] /\ active'[b] = active[b]
      /\ ahead'[b] = ahead[b] /\ spare'[b] = spare[b]
      /\ b \in gifts' <=> b \in gifts
      /\ b \in overs' <=> b \in overs
      /\ TimesOf("refresh", b)' = TimesOf("refresh", b)
      /\ TimesOf("refresh-im", b)' = TimesOf("refresh-im", b)
  BY DEF Apart, Handlers
<1>3. txs \in Nat /\ txs' \in Nat /\ txs <= txs' /\ MaxTxs \in Nat
  BY ProfileAssumption DEF IInv, TypeOK, Apart
<1>4. LateOK(b)'
  BY <1>1, <1>2 DEF AccountOK, LateOK, Exists
<1>5. ASSUME b \notin gifts PROVE BuyerOK(b)'
  <2>1. BuyerOK(b)
    BY <1>1, <1>5 DEF AccountOK
  <2>2. ActiveOK(b)'
    BY <1>2, <2>1 DEF BuyerOK, ActiveOK, IsActive, IsActiveAt
  <2>3. MonthsOK(b)'
    BY <1>2, <2>1 DEF BuyerOK, MonthsOK, Exists
  <2>4. ImOK(b)'
    BY <1>2, <2>1 DEF BuyerOK, ImOK, Exists
  <2>. QED  BY <2>2, <2>3, <2>4 DEF BuyerOK
<1>6. ASSUME b \notin gifts \cup overs PROVE TrafficOK(b)' /\ LimitsOK(b)'
  <2>1. TrafficOK(b) /\ LimitsOK(b)
    BY <1>1, <1>6 DEF AccountOK
  <2>2. spare[b] * MaxTxs <= txs' * Capacity
    <3>1. spare[b] * MaxTxs <= txs * Capacity /\ spare[b] \in Nat
      BY <2>1 DEF TrafficOK
    <3>2. spare[b] * MaxTxs \in Int
      BY <1>3, <3>1
    <3>. QED  BY <1>3, <3>1, <3>2, MoreRoom
  <2>3. TrafficOK(b)'
    BY <1>2, <2>1, <2>2 DEF TrafficOK, Exists
  <2>4. LimitsOK(b)'
    BY <1>2, <2>1 DEF LimitsOK, Exists
  <2>. QED  BY <2>3, <2>4
<1>. QED  BY <1>2, <1>4, <1>5, <1>6 DEF AccountOK

\* What SetProfile does, whatever it sets.
LEMMA Setting ==
    ASSUME IInv, NEW a \in Accounts, NEW p \in Profile, SetProfile(a, p),
           UNCHANGED <<now, phase>>
    PROVE  /\ profile' \in [Accounts -> Profile \cup {NoProfile}] /\ profile'[a] = p
           /\ \A b \in Accounts : b # a => profile'[b] = profile[b]
           /\ active' \in [Accounts -> BOOLEAN]
           /\ \A b \in Accounts : b # a => active'[b] = active[b]
           /\ Exists(a)' /\ \A b \in Accounts : Exists(b) => Exists(b)'
           /\ a \notin gifts => ActiveOK(a)'
<1>1. /\ profile \in [Accounts -> Profile \cup {NoProfile}]
      /\ active \in [Accounts -> BOOLEAN]
      /\ a \notin gifts => ActiveOK(a)
  BY DEF IInv, TypeOK, AccountOK, BuyerOK
<1>2. profile' = [profile EXCEPT ![a] = p]
  BY DEF SetProfile
<1>3. profile' \in [Accounts -> Profile \cup {NoProfile}] /\ profile'[a] = p
      /\ \A b \in Accounts : b # a => profile'[b] = profile[b]
  BY <1>1, <1>2
<1>4. p # NoProfile
  BY ProfileAssumption
<1>5. /\ active' \in [Accounts -> BOOLEAN]
      /\ \A b \in Accounts : b # a => active'[b] = active[b]
      /\ IsActive(p) /\ (IsActive(profile[a]) => active[a]) => active'[a]
      /\ ~IsActive(p) /\ (active[a] => IsActive(profile[a])) => ~active'[a]
  BY <1>1, ActiveSet
<1>6. IsActive(profile[a])' <=> IsActive(p)
  BY <1>3 DEF IsActive, IsActiveAt
<1>7. a \notin gifts => ActiveOK(a)'
  BY <1>1, <1>5, <1>6 DEF ActiveOK
<1>. QED  BY <1>3, <1>4, <1>5, <1>7 DEF Exists

\* Nicknames that no one changes stay indexed.
LEMMA SameNicknames ==
    ASSUME IInv, UNCHANGED index,
           \A b \in Accounts : Exists(b)' => Exists(b) /\ profile'[b].nickname = profile[b].nickname
    PROVE  NicknamesIndexed'
BY DEF IInv, NicknamesIndexed, Exists

LEMMA Renaming ==
    ASSUME IInv, NEW a \in Accounts, NEW new \in DOMAIN Trimmed,
           NEW old \in DOMAIN Trimmed,
           old # NoName => Exists(a) /\ profile[a].nickname = old,
           MayHold(a, new), index' = Renamed(a, old, new),
           Exists(a)', profile'[a].nickname = new,
           \A b \in Accounts \ {a} : profile'[b] = profile[b]
    PROVE  NicknamesIndexed' /\ \A k \in DOMAIN index' : index'[k] \in Accounts
<1> DEFINE removed == IF old = NoName THEN {} ELSE {Lower[old]}
           keys == DOMAIN index \ removed
           KeyOf(b) == Trimmed[profile[b].nickname]
           Named(b) == Exists(b) /\ KeyOf(b) # NoName
<1>1. \A k \in DOMAIN index : index[k] \in Accounts
  BY DEF IInv, TypeOK
<1>2. \A b \in Accounts : Named(b) => KeyOf(b) \in DOMAIN index /\ index[KeyOf(b)] = b
  BY DEF IInv, NicknamesIndexed
<1>3. ASSUME NEW b \in Accounts \ {a}, Named(b)
      PROVE  KeyOf(b) \in keys
  <2>1. ASSUME old # NoName, KeyOf(b) = Lower[old] PROVE FALSE
    <3>1. profile[b].nickname \in DOMAIN Trimmed
      BY <1>3 DEF IInv, TypeOK, Profile, Exists
    <3>2. old \in DOMAIN Trimmed /\ Lower[old] = Trimmed[profile[b].nickname]
      BY <2>1
    <3>3. Lower[old] = Trimmed[old]
      BY <3>1, <3>2, ProfileAssumption
    <3>4. Named(a) /\ KeyOf(a) = KeyOf(b)
      BY <1>3, <2>1, <3>3
    <3>. QED  BY <1>2, <1>3, <3>4
  <2>. QED  BY <1>2, <1>3, <2>1
<1>4. ASSUME NEW b \in Accounts \ {a}, Named(b), Trimmed[new] # NoName
      PROVE  KeyOf(b) # Trimmed[new]
  BY <1>2, <1>4 DEF MayHold
<1>5. \A b \in Accounts \ {a} : profile'[b].nickname = profile[b].nickname
                                 /\ (Exists(b)' <=> Exists(b))
  BY DEF Exists
<1>6. CASE Trimmed[new] = NoName
  <2>1. index' = [k \in keys |-> index[k]]
    BY <1>6 DEF Renamed
  <2>2. DOMAIN index' = keys /\ \A k \in keys : index'[k] = index[k]
    BY <2>1
  <2>3. ASSUME NEW b \in Accounts, Exists(b)', KeyOf(b)' # NoName
        PROVE  KeyOf(b)' \in DOMAIN index' /\ index'[KeyOf(b)'] = b
    <3>1. b # a
      BY <1>6, <2>3
    <3>2. Named(b) /\ KeyOf(b)' = KeyOf(b)
      BY <1>5, <2>3, <3>1
    <3>. QED  BY <1>2, <1>3, <2>2, <3>1, <3>2
  <2>. QED  BY <1>1, <2>2, <2>3 DEF NicknamesIndexed
<1>7. CASE Trimmed[new] # NoName
  <2> DEFINE key == Trimmed[new]
  <2>1. index' = [k \in keys \cup {key} |-> IF k = key THEN a ELSE index[k]]
    BY <1>7 DEF Renamed
  <2>2. DOMAIN index' = keys \cup {key} /\ index'[key] = a
        /\ \A k \in keys : k # key => index'[k] = index[k]
    BY <2>1
  <2>3. ASSUME NEW b \in Accounts, Exists(b)', KeyOf(b)' # NoName
        PROVE  KeyOf(b)' \in DOMAIN index' /\ index'[KeyOf(b)'] = b
    <3>1. CASE b = a
      <4>1. KeyOf(b)' = key
        BY <3>1
      <4>. QED  BY <2>2, <3>1, <4>1
    <3>2. CASE b # a
      <4>1. Named(b) /\ KeyOf(b)' = KeyOf(b)
        BY <1>5, <2>3, <3>2
      <4>2. KeyOf(b) \in keys /\ KeyOf(b) # key /\ index[KeyOf(b)] = b
        BY <1>2, <1>3, <1>4, <1>7, <3>2, <4>1
      <4>. QED  BY <2>2, <4>1, <4>2
    <3>. QED  BY <3>1, <3>2
  <2>. QED  BY <1>1, <2>2, <2>3 DEF NicknamesIndexed
<1>. QED  BY <1>6, <1>7

(***************************************************************************)
(* What has to be shown of an operation on one account: its part of the    *)
(* invariant.                                                              *)
(***************************************************************************)
LEMMA Composed ==
    ASSUME IInv, NEW a \in Accounts, NEW p \in Profile, SetProfile(a, p),
           UNCHANGED <<now, phase, restarts>>, txs' \in txs..MaxTxs,
           gifts \subseteq gifts', gifts' \subseteq gifts \cup {a},
           overs \subseteq overs', overs' \subseteq overs \cup {a},
           balance' \in [Accounts -> Nat],
           ahead' \in [Accounts -> Int], spare' \in [Accounts -> Int],
           \A b \in Accounts \ {a} :
             /\ ahead'[b] = ahead[b] /\ spare'[b] = spare[b]
             /\ \A h \in Handlers : TimesOf(h, b)' = TimesOf(h, b),
           TasksInv', tasks' \subseteq TaskType, due' \subseteq TaskType,
           NicknamesIndexed', \A k \in DOMAIN index' : index'[k] \in Accounts,
           LateOK(a)', a \notin gifts' => MonthsOK(a)' /\ ImOK(a)',
           a \notin gifts' \cup overs' => TrafficOK(a)' /\ LimitsOK(a)'
    PROVE  IInv'
<1>1. /\ profile' \in [Accounts -> Profile \cup {NoProfile}]
      /\ a \notin gifts => ActiveOK(a)'
      /\ \A b \in Accounts \ {a} : profile'[b] = profile[b] /\ active'[b] = active[b]
      /\ active' \in [Accounts -> BOOLEAN]
      /\ Exists(a)' /\ \A b \in Accounts : Exists(b) => Exists(b)'
  BY Setting
<1>2. Apart(a)
  BY <1>1 DEF Apart
<1>3. \A b \in Accounts : AccountOK(b)'
  <2>1. AccountOK(a)'
    BY <1>1 DEF AccountOK, BuyerOK
  <2>. QED  BY <1>2, <2>1, Others
<1>4. txs' \in 0..MaxTxs
  BY DEF IInv, TypeOK
<1>5. gifts' \subseteq Accounts /\ overs' \subseteq Accounts /\ Marked'
  BY <1>1 DEF IInv, TypeOK, Marked
<1>6. TypeOK'
  BY <1>1, <1>4, <1>5 DEF IInv, TypeOK, TaskType, Handlers
<1>. QED  BY <1>3, <1>5, <1>6 DEF IInv

\* No task comes or goes, and the ends of the months stay.
LEMMA TasksStay ==
    ASSUME IInv, UNCHANGED <<now, phase, due, tasks>>,
           gifts \subseteq gifts', \A b \in Accounts : Exists(b) => Exists(b)'
    PROVE  /\ TasksInv' /\ tasks' \subseteq TaskType /\ due' \subseteq TaskType
           /\ \A g, b : TimesOf(g, b)' = TimesOf(g, b)
<1>1. \A t \in tasks \cup due : t \in TaskType /\ t.data \in Accounts
  BY Waits
<1>2. TasksInv'
  BY <1>1 DEF IInv, TasksInv
<1>. QED  BY <1>1, <1>2, TimesStay

LEMMA MonthsStay ==
    ASSUME IInv, NEW a \in Accounts, NEW p \in Profile, SetProfile(a, p), Exists(a),
           a \notin gifts,
           UNCHANGED <<now, phase>>, p.activeUntil = profile[a].activeUntil,
           ahead'[a] = ahead[a], TimesOf("refresh", a)' = TimesOf("refresh", a)
    PROVE  MonthsOK(a)'
<1>1. profile'[a] = p /\ Exists(a)'
  BY Setting
<1>2. active \in [Accounts -> BOOLEAN]
  BY DEF IInv, TypeOK
<1>3. p # NoProfile
  BY ProfileAssumption
<1>4. IsActive(p) <=> IsActive(profile[a])
  BY <1>3 DEF IsActive, IsActiveAt, Exists
<1>5. active' = active
  BY <1>2, <1>4, ActiveSet
<1>6. MonthsOK(a)
  BY DEF IInv, AccountOK, BuyerOK
<1>. QED  BY <1>1, <1>5, <1>6 DEF MonthsOK

LEMMA ImStays ==
    ASSUME IInv, NEW a \in Accounts, NEW p \in Profile, SetProfile(a, p), Exists(a),
           a \notin gifts,
           UNCHANGED <<now, phase>>, p.imUntil = profile[a].imUntil,
           p.imExtra = 0 <=> profile[a].imExtra = 0,
           TimesOf("refresh-im", a)' = TimesOf("refresh-im", a)
    PROVE  ImOK(a)'
<1>1. profile'[a] = p /\ Exists(a)'
  BY Setting
<1>2. p.imExtra \in Nat /\ profile[a].imExtra \in Nat
  BY DEF Profile, IInv, TypeOK, Exists
<1>3. ImOK(a)
  BY DEF IInv, AccountOK, BuyerOK
<1>. QED  BY <1>1, <1>2, <1>3 DEF ImOK

\* A renewal goes on to have a month.
LEMMA LateStays ==
    ASSUME IInv, NEW a \in Accounts, NEW p \in Profile, SetProfile(a, p),
           UNCHANGED <<now, phase>>,
           \/ p.activeUntil # NoTime
           \/ Exists(a) /\ p.activeUntil = profile[a].activeUntil
                /\ TimesOf("refresh", a)' = TimesOf("refresh", a)
    PROVE  LateOK(a)'
<1>1. profile'[a] = p /\ LateOK(a)
  BY Setting DEF IInv, AccountOK
<1>. QED  BY <1>1 DEF LateOK

\* The traffic that was bought stays.
LEMMA TrafficStays ==
    ASSUME IInv, NEW a \in Accounts, NEW p \in Profile, SetProfile(a, p), Exists(a),
           a \notin gifts \cup overs,
           UNCHANGED <<now, phase>>, txs' \in txs..MaxTxs,
           p.activeUntil = NoTime => profile[a].activeUntil = NoTime /\ p.vpnLimit = profile[a].vpnLimit,
           NEW n \in Nat, n <= spare[a], spare'[a] = n
    PROVE  TrafficOK(a)'
<1>1. profile'[a] = p /\ Exists(a)'
  BY Setting
<1>2. TrafficOK(a) /\ spare[a] \in Nat /\ txs \in Nat /\ txs' \in Nat /\ txs <= txs'
      /\ MaxTxs \in Nat
  BY ProfileAssumption DEF IInv, AccountOK, TypeOK, TrafficOK
<1>3. n * MaxTxs <= txs' * Capacity
  <2>1. spare[a] * MaxTxs <= txs' * Capacity
    <3>1. spare[a] * MaxTxs \in Int /\ spare[a] * MaxTxs <= txs * Capacity
      BY <1>2 DEF TrafficOK
    <3>. QED  BY <1>2, <3>1, MoreRoom
  <2>2. n * MaxTxs <= spare[a] * MaxTxs
    <3>1. (spare[a] - n) * MaxTxs >= 0
      BY <1>2
    <3>2. (spare[a] - n) * MaxTxs = spare[a] * MaxTxs - n * MaxTxs
      BY <1>2
    <3>3. n * MaxTxs \in Int /\ spare[a] * MaxTxs \in Int
      BY <1>2
    <3>. QED  BY <3>1, <3>2, <3>3
  <2>3. Capacity \in Nat
    BY Capacities
  <2>. HIDE DEF Capacity
  <2>4. n * MaxTxs \in Int /\ spare[a] * MaxTxs \in Int /\ txs' * Capacity \in Int
    BY <1>2, <2>3
  <2>. QED  BY <2>1, <2>2, <2>4
<1>4. n <= Capacity
  BY <1>2, Capacities DEF TrafficOK
<1>. QED  BY <1>1, <1>2, <1>3, <1>4 DEF TrafficOK

\* Pay takes a price that the account has.
LEMMA Paying ==
    ASSUME IInv, NEW a \in Accounts, NEW price \in Int, Pay(a, price)
    PROVE  balance' \in [Accounts -> Nat]
<1>1. balance \in [Accounts -> Nat] /\ balance[a] >= price
  BY DEF IInv, TypeOK, Pay
<1>2. balance[a] - price \in Nat
  BY <1>1
<1>. QED  BY <1>1, <1>2 DEF Pay

\* The types of the fields, and that months end at a time.
LEMMA Fields ==
    ASSUME IInv, NEW a \in Accounts, Exists(a)
    PROVE  LET p == profile[a]
           IN  /\ p \in Profile /\ p.activeUntil \in Times /\ p.autoPay \in BOOLEAN
               /\ p.nickname \in DOMAIN Trimmed
               /\ p.storageLimit \in Nat /\ p.storageCurrent \in Nat
               /\ p.vpnLimit \in Nat /\ p.vpnCurrent \in Nat
               /\ p.imExtra \in Nat /\ p.imUntil \in Times /\ p.imAuto \in BOOLEAN
               /\ p.activeUntil # NoTime => p.activeUntil \in Nat
               /\ p.imUntil # NoTime => p.imUntil \in Nat
               /\ IsActive(p) <=> p.activeUntil # NoTime /\ p.activeUntil > now
<1>1. profile[a] \in Profile /\ profile[a] # NoProfile
  BY DEF IInv, TypeOK, Exists
<1>. QED  BY <1>1 DEF Profile, Times, IsActive, IsActiveAt

LEMMA Scalars ==
    ASSUME IInv
    PROVE  /\ now \in Nat /\ txs \in Nat /\ Month \in Nat /\ Month >= 1
           /\ balance \in [Accounts -> Nat] /\ BaseStorage \in Nat /\ BaseStorage >= 1
           /\ BaseVpn \in Nat /\ GbPrice \in Nat /\ VpnGbPrice \in Nat /\ Price \in Nat
           /\ MaxTxs \in Nat /\ Word \in Nat /\ BaseVpn < Word
           /\ \A gb \in Gbs : gb \in Nat /\ gb >= 1
           /\ ahead \in [Accounts -> Int] /\ spare \in [Accounts -> Int]
BY ProfileAssumption, TrafficAssumption DEF IInv, TypeOK

LEMMA Divided ==
    ASSUME NEW x \in Int, NEW d \in Nat, d >= 1
    PROVE  x \div d \in Int
OBVIOUS

LEMMA MonthPartType ==
    ASSUME IInv, NEW price \in Int, NEW end \in Int
    PROVE  MonthPart(price, end) \in Int
<1>1. now \in Nat /\ Month \in Nat /\ Month >= 1
  BY Scalars
<1>2. price * (end - now) \in Int
  BY <1>1
<1>. HIDE DEF IInv
<1>. QED  BY <1>1, <1>2, Divided DEF MonthPart

LEMMA TariffPriceType ==
    ASSUME IInv, NEW a \in Accounts, Exists(a), NEW s \in Nat
    PROVE  TariffPrice(profile[a], s) \in Int
<1> DEFINE p == profile[a]
           extra == (s - BaseStorage) * Month
           rest == (s - p.storageLimit) * (p.activeUntil - now)
           fee == IF IsActive(p) /\ s # p.storageLimit THEN Max({0, extra + rest}) ELSE extra
<1>1. /\ now \in Nat /\ Month \in Nat /\ Month >= 1 /\ BaseStorage \in Nat
      /\ GbPrice \in Nat /\ Price \in Nat
  BY Scalars
<1>2. extra \in Int
  BY <1>1
<1>3. ASSUME IsActive(p) PROVE rest \in Int
  <2>1. p.storageLimit \in Nat /\ p.activeUntil \in Nat
    BY <1>3, Fields
  <2>2. s - p.storageLimit \in Int /\ p.activeUntil - now \in Int
    BY <1>1, <2>1
  <2>. QED  BY <2>2
<1>4. TariffPrice(p, s) = Price + (fee * GbPrice) \div Month
  BY DEF TariffPrice
<1>. HIDE DEF extra, rest
<1>5. fee \in Int
  <2>1. CASE IsActive(p) /\ s # p.storageLimit
    <3> DEFINE e == extra + rest
    <3>1. e \in Int /\ 0 \in Int
      BY <1>2, <1>3, <2>1
    <3>. HIDE DEF e
    <3>2. Max({0, e}) \in Int
      BY ONLY <3>1, MaxPair
    <3>. QED  BY <2>1, <3>2 DEF e
  <2>2. CASE ~(IsActive(p) /\ s # p.storageLimit)
    BY <1>2, <2>2
  <2>. QED  BY <2>1, <2>2
<1>. HIDE DEF fee
<1>6. fee * GbPrice \in Int
  BY <1>1, <1>5
<1>7. (fee * GbPrice) \div Month \in Int
  BY <1>1, <1>6, Divided
<1>. QED  BY <1>1, <1>4, <1>7

\* The storage that is paid for is enough for what is used.
LEMMA StorageType ==
    ASSUME IInv, NEW a \in Accounts, Exists(a), NEW gb \in Gbs \cup {0},
           gb # 0 => gb >= profile[a].storageCurrent
    PROVE  /\ Storage(profile[a], gb) \in Nat
           /\ a \notin gifts \cup overs => Storage(profile[a], gb) >= profile[a].storageCurrent
<1>1. a \notin gifts \cup overs => LimitsOK(a)
  BY DEF IInv, AccountOK
<1>2. gb \in Nat /\ BaseStorage \in Nat
  BY Scalars
<1>3. profile[a].storageLimit \in Nat /\ profile[a].storageCurrent \in Nat
  BY Fields
<1>. QED  BY <1>1, <1>2, <1>3 DEF Storage, LimitsOK

\* The profile with other limits, at the beginning of a month.
Limited(q, vpn, storage) ==
    [q EXCEPT !.vpnLimit = vpn, !.vpnCurrent = 0, !.storageLimit = storage]

LEMMA LimitsTyped ==
    ASSUME NEW q \in Profile, NEW vpn \in Nat, NEW storage \in Nat
    PROVE  Limited(q, vpn, storage) \in Profile
<1>1. [q EXCEPT !.vpnLimit = vpn] \in Profile
  BY DEF Profile
<1>2. ASSUME NEW r \in Profile PROVE [r EXCEPT !.vpnCurrent = 0] \in Profile
  BY DEF Profile
<1>3. ASSUME NEW r \in Profile PROVE [r EXCEPT !.storageLimit = storage] \in Profile
  BY DEF Profile
<1>. QED  BY <1>1, <1>2, <1>3 DEF Limited

\* resetLimits of any profile.
LEMMA ResetTyped ==
    ASSUME NEW q \in Profile
    PROVE  /\ resetLimits(q) \in Profile /\ Over(q) \in Nat
           /\ resetLimits(q).activeUntil = q.activeUntil
           /\ resetLimits(q).nickname = q.nickname
           /\ resetLimits(q).imExtra = q.imExtra /\ resetLimits(q).imUntil = q.imUntil
<1> DEFINE sum == (q.vpnLimit - Over(q)) % Word
           limit == Max({sum, BaseVpn})
           storage == IF q.storageLimit = 0 THEN BaseStorage ELSE q.storageLimit
<1>1. /\ BaseVpn \in Nat /\ Word \in Nat /\ Word >= 1 /\ BaseStorage \in Nat
  BY ProfileAssumption, TrafficAssumption
<1>2. q.vpnLimit \in Nat /\ q.vpnCurrent \in Nat /\ q.storageLimit \in Nat
  BY DEF Profile
<1>3. Over(q) \in Nat
  BY <1>1, <1>2 DEF Over
<1>4. sum \in Int /\ BaseVpn \in Int
  <2> DEFINE x == q.vpnLimit - Over(q)
  <2>1. x \in Int
    BY <1>2, <1>3
  <2>. HIDE DEF x
  <2>2. x % Word \in Int
    BY <1>1, <2>1
  <2>. QED  BY <1>1, <2>2 DEF x
<1>. HIDE DEF sum
<1>5. limit \in Int /\ limit >= BaseVpn
  BY <1>4, MaxPair
<1>6. resetLimits(q) = Limited(q, limit, storage)
  BY DEF resetLimits, Limited, sum
<1>7. limit \in Nat /\ storage \in Nat
  <2>. HIDE DEF limit
  <2>. QED  BY <1>1, <1>2, <1>5
<1>. HIDE DEF limit, storage
<1>8. resetLimits(q) \in Profile
  BY ONLY <1>6, <1>7, q \in Profile, LimitsTyped
<1>9. /\ resetLimits(q).activeUntil = q.activeUntil
      /\ resetLimits(q).nickname = q.nickname
      /\ resetLimits(q).imExtra = q.imExtra /\ resetLimits(q).imUntil = q.imUntil
  BY <1>6 DEF Profile, Limited
<1>. QED  BY <1>3, <1>8, <1>9

(***************************************************************************)
(* resetLimits: what is left of the traffic that was bought.               *)
(***************************************************************************)
LEMMA Reset ==
    ASSUME IInv, NEW a \in Accounts, Exists(a), NEW q \in Profile,
           a \notin gifts \cup overs,
           q.activeUntil # NoTime,
           q.storageCurrent <= q.storageLimit,
           q.vpnCurrent = profile[a].vpnCurrent, q.vpnLimit = profile[a].vpnLimit
    PROVE  /\ resetLimits(q) \in Profile /\ Over(q) = Over(profile[a])
           /\ spare[a] - Over(profile[a]) \in Nat
           /\ spare[a] - Over(profile[a]) <= spare[a]
           /\ resetLimits(q).activeUntil = q.activeUntil
           /\ resetLimits(q).nickname = q.nickname
           /\ resetLimits(q).imExtra = q.imExtra /\ resetLimits(q).imUntil = q.imUntil
           /\ resetLimits(q).storageCurrent <= resetLimits(q).storageLimit
           /\ resetLimits(q).vpnCurrent <= resetLimits(q).vpnLimit
           /\ resetLimits(q).vpnLimit = BaseVpn + (spare[a] - Over(profile[a]))
<1> DEFINE p == profile[a]  o == Over(p)  left == spare[a] - o
           sum == (p.vpnLimit - o) % Word
           limit == Max({sum, BaseVpn})
<1>1. /\ BaseVpn \in Nat /\ Word \in Nat /\ BaseVpn < Word /\ spare[a] \in Nat
      /\ BaseStorage \in Nat
  BY Scalars DEF IInv, AccountOK, TrafficOK
<1>2. /\ p.vpnLimit \in Nat /\ p.vpnCurrent \in Nat /\ p.vpnCurrent <= p.vpnLimit
      /\ p.activeUntil # NoTime => p.vpnLimit = BaseVpn + spare[a]
      /\ p.activeUntil = NoTime => p.vpnLimit = 0 /\ spare[a] = 0
      /\ spare[a] <= Capacity
  <2>1. LimitsOK(a) /\ TrafficOK(a)
    BY DEF IInv, AccountOK
  <2>. QED  BY <2>1, Fields DEF LimitsOK, TrafficOK
<1>3. o \in Nat /\ o <= spare[a] /\ Over(q) = o
      /\ (p.activeUntil = NoTime => o = 0)
  BY <1>1, <1>2 DEF Over
<1>4. left \in Nat /\ left <= spare[a] /\ BaseVpn + left < Word
  BY <1>1, <1>2, <1>3 DEF Capacity
<1>. HIDE DEF o
<1>5. limit = BaseVpn + left
  <2>1. CASE p.activeUntil # NoTime
    <3>1. p.vpnLimit - o = BaseVpn + left
      BY <1>1, <1>2, <1>3, <2>1
    <3>2. BaseVpn + left \in 0..(Word - 1)
      BY <1>1, <1>4
    <3>3. sum = BaseVpn + left
      <4> DEFINE y == BaseVpn + left
      <4>1. y \in 0..(Word - 1) /\ sum = y % Word
        BY <3>1, <3>2
      <4>. HIDE DEF y, sum
      <4>2. y % Word = y
        BY <1>1, <4>1
      <4>. QED  BY <4>1, <4>2 DEF y
    <3>. HIDE DEF sum
    <3>4. sum \in Int /\ sum >= BaseVpn /\ BaseVpn \in Int
      BY <1>1, <1>4, <3>3
    <3>5. limit >= sum /\ (limit = sum \/ limit = BaseVpn)
      BY <3>4, MaxPair
    <3>. QED  BY <3>3, <3>4, <3>5
  <2>2. CASE p.activeUntil = NoTime
    <3>1. p.vpnLimit - o = 0 /\ left = 0
      BY <1>2, <1>3, <2>2
    <3>2. 0 % Word = 0
      BY <1>1
    <3>3. sum = 0
      BY <3>1, <3>2
    <3>. HIDE DEF sum
    <3>4. sum \in Int /\ BaseVpn \in Int
      BY <1>1, <3>3
    <3>5. limit >= BaseVpn /\ (limit = sum \/ limit = BaseVpn)
      BY <3>4, MaxPair
    <3>. QED  BY <1>1, <3>1, <3>3, <3>5
  <2>. QED  BY <2>1, <2>2
<1>. HIDE DEF left, limit
<1>6. resetLimits(q) = [q EXCEPT !.vpnLimit = limit, !.vpnCurrent = 0,
                                 !.storageLimit = IF @ = 0 THEN BaseStorage ELSE @]
  BY <1>3 DEF resetLimits, limit, o
<1>7. limit \in Nat
  BY <1>1, <1>4, <1>5
<1>8. q.storageLimit \in Nat /\ q.storageCurrent \in Nat
  BY DEF Profile
<1>9. /\ resetLimits(q) \in Profile
      /\ resetLimits(q).activeUntil = q.activeUntil
      /\ resetLimits(q).nickname = q.nickname
      /\ resetLimits(q).imExtra = q.imExtra /\ resetLimits(q).imUntil = q.imUntil
      /\ resetLimits(q).storageCurrent = q.storageCurrent
      /\ resetLimits(q).storageLimit = IF q.storageLimit = 0 THEN BaseStorage ELSE q.storageLimit
      /\ resetLimits(q).vpnCurrent = 0 /\ resetLimits(q).vpnLimit = limit
  <2> DEFINE storage == IF q.storageLimit = 0 THEN BaseStorage ELSE q.storageLimit
  <2>1. storage \in Nat
    BY <1>1, <1>8
  <2>2. resetLimits(q) = Limited(q, limit, storage)
    BY <1>6 DEF Limited
  <2>. HIDE DEF storage, Over
  <2>3. resetLimits(q) \in Profile
    BY ONLY <1>7, <2>1, <2>2, q \in Profile, LimitsTyped
  <2>4. /\ resetLimits(q).activeUntil = q.activeUntil
        /\ resetLimits(q).nickname = q.nickname
        /\ resetLimits(q).imExtra = q.imExtra /\ resetLimits(q).imUntil = q.imUntil
        /\ resetLimits(q).storageCurrent = q.storageCurrent
        /\ resetLimits(q).storageLimit = storage
        /\ resetLimits(q).vpnCurrent = 0 /\ resetLimits(q).vpnLimit = limit
    BY <2>2 DEF Profile, Limited
  <2>. QED  BY <2>3, <2>4 DEF storage
<1>. QED  BY <1>3, <1>4, <1>5, <1>7, <1>8, <1>9, <1>1 DEF left, o

-----------------------------------------------------------------------------
(* Transactions without a task.                                            *)

(***************************************************************************)
(* An operation on an account that changes no end of a month and no task.  *)
(***************************************************************************)
LEMMA Quiet ==
    ASSUME IInv, NEW a \in Accounts, NEW p \in Profile, SetProfile(a, p), Exists(a), Tx,
           UNCHANGED <<now, phase, due, tasks, restarts, ahead, spare, gifts>>,
           overs \subseteq overs', overs' \subseteq overs \cup {a},
           p.activeUntil = profile[a].activeUntil,
           p.imUntil = profile[a].imUntil, p.imExtra = profile[a].imExtra,
           p.vpnLimit = profile[a].vpnLimit,
           a \notin gifts \cup overs' =>
             p.vpnCurrent <= p.vpnLimit /\ p.storageCurrent <= p.storageLimit,
           balance' \in [Accounts -> Nat],
           NicknamesIndexed', \A k \in DOMAIN index' : index'[k] \in Accounts
    PROVE  IInv'
<1>1. /\ profile'[a] = p /\ Exists(a)' /\ \A b \in Accounts : Exists(b) => Exists(b)'
  BY Setting
<1>2. /\ TasksInv' /\ tasks' \subseteq TaskType /\ due' \subseteq TaskType
      /\ \A g, b : TimesOf(g, b)' = TimesOf(g, b)
  BY <1>1, TasksStay
<1>3. LateOK(a)'
  BY <1>2, LateStays
<1>4. a \notin gifts => MonthsOK(a)' /\ ImOK(a)'
  BY <1>2, MonthsStay, ImStays
<1>5. txs' \in txs..MaxTxs
  BY Scalars DEF Tx
<1>6. ASSUME a \notin gifts \cup overs' PROVE TrafficOK(a)' /\ LimitsOK(a)'
  <2>1. a \notin gifts \cup overs /\ TrafficOK(a) /\ LimitsOK(a)
    BY <1>6 DEF IInv, AccountOK
  <2>2. spare[a] \in Nat /\ spare'[a] = spare[a] /\ spare[a] <= spare[a]
    BY <2>1 DEF TrafficOK
  <2>3. TrafficOK(a)'
    BY <1>5, <2>1, <2>2, TrafficStays
  <2>4. LimitsOK(a)'
    BY <1>1, <1>6, <2>1 DEF LimitsOK
  <2>. QED  BY <2>3, <2>4
<1>7. ahead' \in [Accounts -> Int] /\ spare' \in [Accounts -> Int]
  BY Scalars
<1>. QED  BY <1>2, <1>3, <1>4, <1>5, <1>6, <1>7, Composed

LEMMA CreateAccountSafe ==
    ASSUME IInv, NEW a \in Accounts, NEW creator \in Accounts, NEW p \in NewProfiles,
           CreateAccount(a, p, creator)
    PROVE  IInv'
<1>1. /\ Tx /\ ~Exists(a) /\ MayHold(a, p.nickname) /\ SetProfile(a, p)
      /\ index' = Renamed(a, NoName, p.nickname)
      /\ gifts' = IF Unsubscribed(p) THEN gifts ELSE gifts \cup {a}
      /\ UNCHANGED <<now, phase, due, tasks, restarts, ahead, spare, overs>>
      /\ Pay(creator, RenamePrice) \/ UNCHANGED balance
  BY DEF CreateAccount
<1>2. p \in Profile /\ a \notin gifts /\ a \notin overs
  BY <1>1, ProfileAssumption DEF IInv, Marked
<1>3. /\ profile'[a] = p /\ Exists(a)' /\ \A b \in Accounts : Exists(b) => Exists(b)'
      /\ \A b \in Accounts \ {a} : profile'[b] = profile[b]
  BY <1>1, <1>2, Setting
<1>4. gifts \subseteq gifts' /\ gifts' \subseteq gifts \cup {a}
  BY <1>1
<1>5. /\ TasksInv' /\ tasks' \subseteq TaskType /\ due' \subseteq TaskType
      /\ \A g, b : TimesOf(g, b)' = TimesOf(g, b)
  BY <1>1, <1>3, <1>4, TasksStay
<1>6. \A h : TimesOf(h, a)' = {}
  <2>1. \A t \in tasks \cup due : t.data # a
    BY <1>1, Waits
  <2>2. \A h : TimesOf(h, a) = {}
    BY <2>1 DEF TimesOf
  <2>. QED  BY <1>5, <2>2
<1>7. LateOK(a)'
  BY <1>6 DEF LateOK
<1>8. ahead[a] = 0 /\ ~active[a] /\ spare[a] = 0 /\ spare[a] <= Capacity
  BY <1>1, <1>2 DEF IInv, AccountOK, BuyerOK, MonthsOK, TrafficOK
<1>9. txs' \in txs..MaxTxs /\ txs' \in Nat
  BY <1>1, Scalars DEF Tx
<1>10. ASSUME Unsubscribed(p)
       PROVE  MonthsOK(a)' /\ ImOK(a)' /\ TrafficOK(a)' /\ LimitsOK(a)'
  <2>1. ~active'[a]
    <3>1. ~IsActive(p)
      BY <1>10 DEF Unsubscribed, IsActive, IsActiveAt
    <3>2. active \in [Accounts -> BOOLEAN]
      BY DEF IInv, TypeOK
    <3>. QED  BY <1>1, <1>8, <3>1, <3>2, ActiveSet
  <2>2. MonthsOK(a)'
    BY <1>1, <1>6, <1>8, <2>1 DEF MonthsOK
  <2>3. TrafficOK(a)'
    <3>1. spare'[a] = 0 /\ 0 * MaxTxs = 0
      BY <1>1, <1>8, Scalars
    <3>2. Capacity \in Nat
      BY Capacities
    <3>3. 0 <= txs' * Capacity
      <4>1. \A m, n \in Nat : 0 <= m * n
        OBVIOUS
      <4>. QED  BY ONLY <1>9, <3>2, <4>1
    <3>. QED  BY <1>3, <1>10, <3>1, <3>2, <3>3 DEF TrafficOK, Unsubscribed
  <2>4. ImOK(a)'
    BY <1>3, <1>6, <1>10 DEF ImOK, Unsubscribed
  <2>5. LimitsOK(a)'
    BY <1>2, <1>3, <1>10 DEF LimitsOK, Unsubscribed, Profile
  <2>. QED  BY <2>2, <2>3, <2>4, <2>5
<1>11. a \notin gifts' => Unsubscribed(p)
  BY <1>1
<1>12. balance' \in [Accounts -> Nat]
  <2>1. RenamePrice \in Int
    BY ProfileAssumption
  <2>. QED  BY <1>1, <2>1, Paying, Scalars
<1>13. NicknamesIndexed' /\ \A k \in DOMAIN index' : index'[k] \in Accounts
  <2>1. p.nickname \in DOMAIN Trimmed /\ NoName \in DOMAIN Trimmed
    BY <1>2, ProfileAssumption DEF Profile
  <2>2. profile'[a].nickname = p.nickname
    BY <1>3
  <2>. QED  BY <1>1, <1>3, <2>1, <2>2, Renaming
<1>14. ahead' \in [Accounts -> Int] /\ spare' \in [Accounts -> Int] /\ ahead' = ahead
       /\ spare' = spare /\ overs' = overs
  BY <1>1, Scalars
<1>. QED  BY <1>1, <1>2, <1>4, <1>5, <1>7, <1>9, <1>10, <1>11, <1>12, <1>13, <1>14, Composed

LEMMA RenameSafe ==
    ASSUME IInv, NEW a \in Accounts, NEW name \in Names, Rename(a, name)
    PROVE  IInv'
<1> DEFINE p == [profile[a] EXCEPT !.nickname = name]
           old == profile[a].nickname
<1>1. /\ Tx /\ Exists(a) /\ MayHold(a, name) /\ SetProfile(a, p)
      /\ index' = Renamed(a, old, name)
      /\ UNCHANGED <<now, phase, due, tasks, restarts, ahead, spare, gifts, overs>>
      /\ Pay(a, NicknameFee) \/ UNCHANGED balance
  BY DEF Rename, history, marks
<1>2. name \in DOMAIN Trimmed
  BY ProfileAssumption
<1>3. /\ profile[a] \in Profile /\ old \in DOMAIN Trimmed
      /\ a \notin gifts \cup overs => LimitsOK(a)
  BY <1>1, Fields DEF IInv, AccountOK
<1>4. /\ p \in Profile /\ p.nickname = name /\ p.activeUntil = profile[a].activeUntil
      /\ p.imUntil = profile[a].imUntil /\ p.imExtra = profile[a].imExtra
      /\ p.vpnLimit = profile[a].vpnLimit /\ p.vpnCurrent = profile[a].vpnCurrent
      /\ p.storageLimit = profile[a].storageLimit
      /\ p.storageCurrent = profile[a].storageCurrent
  BY <1>2, <1>3 DEF Profile
<1>5. a \notin gifts \cup overs =>
        p.vpnCurrent <= p.vpnLimit /\ p.storageCurrent <= p.storageLimit
  BY <1>1, <1>3, <1>4 DEF LimitsOK
<1>. HIDE DEF p, old
<1>6. /\ profile'[a] = p /\ Exists(a)'
      /\ \A b \in Accounts \ {a} : profile'[b] = profile[b]
  BY <1>1, <1>4, Setting
<1>7. NicknamesIndexed' /\ \A k \in DOMAIN index' : index'[k] \in Accounts
  <2>1. profile'[a].nickname = name /\ profile[a].nickname = old
    BY <1>4, <1>6 DEF old
  <2>. QED  BY <1>1, <1>2, <1>3, <1>6, <2>1, Renaming
<1>8. balance' \in [Accounts -> Nat]
  <2>1. NicknameFee \in Int
    BY ProfileAssumption
  <2>. QED  BY <1>1, <2>1, Paying, Scalars
<1>. QED  BY <1>1, <1>4, <1>5, <1>7, <1>8, Quiet

\* Nicknames stay when one account changes something else.
LEMMA OtherThanNickname ==
    ASSUME IInv, NEW a \in Accounts, NEW p \in Profile, SetProfile(a, p), Exists(a),
           UNCHANGED <<now, phase, index>>, p.nickname = profile[a].nickname
    PROVE  NicknamesIndexed' /\ \A k \in DOMAIN index' : index'[k] \in Accounts
<1>1. /\ profile'[a] = p /\ \A b \in Accounts : b # a => profile'[b] = profile[b]
  BY Setting
<1>2. \A b \in Accounts : Exists(b)' => Exists(b) /\ profile'[b].nickname = profile[b].nickname
  BY <1>1 DEF Exists
<1>3. \A k \in DOMAIN index : index[k] \in Accounts
  BY DEF IInv, TypeOK
<1>. QED  BY <1>2, <1>3, SameNicknames

LEMMA SetAutoPaySafe ==
    ASSUME IInv, NEW a \in Accounts, NEW tariff \in BOOLEAN, NEW im \in BOOLEAN,
           SetAutoPay(a, tariff, im)
    PROVE  IInv'
<1> DEFINE p == [profile[a] EXCEPT !.autoPay = tariff, !.imAuto = im]
<1>1. /\ Tx /\ Exists(a) /\ SetProfile(a, p)
      /\ UNCHANGED <<now, phase, due, tasks, index, balance, restarts, ahead, spare, gifts, overs>>
  BY DEF SetAutoPay, history, marks
<1>2. profile[a] \in Profile /\ (a \notin gifts \cup overs => LimitsOK(a))
  BY <1>1, Fields DEF IInv, AccountOK
<1>3. /\ p \in Profile /\ p.nickname = profile[a].nickname
      /\ p.activeUntil = profile[a].activeUntil
      /\ p.imUntil = profile[a].imUntil /\ p.imExtra = profile[a].imExtra
      /\ p.vpnLimit = profile[a].vpnLimit /\ p.vpnCurrent = profile[a].vpnCurrent
      /\ p.storageLimit = profile[a].storageLimit
      /\ p.storageCurrent = profile[a].storageCurrent
  BY <1>2 DEF Profile
<1>4. a \notin gifts \cup overs =>
        p.vpnCurrent <= p.vpnLimit /\ p.storageCurrent <= p.storageLimit
  BY <1>1, <1>2, <1>3 DEF LimitsOK
<1>. HIDE DEF p
<1>5. NicknamesIndexed' /\ \A k \in DOMAIN index' : index'[k] \in Accounts
  BY <1>1, <1>3, OtherThanNickname
<1>6. balance' \in [Accounts -> Nat]
  BY <1>1, Scalars
<1>. QED  BY <1>1, <1>3, <1>4, <1>5, <1>6, Quiet

\* Another storage, not less than what is used.
LEMMA AnotherStorage ==
    ASSUME IInv, NEW a \in Accounts, NEW limit \in Nat, Tx, Exists(a),
           a \notin gifts \cup overs => limit >= profile[a].storageCurrent,
           SetProfile(a, [profile[a] EXCEPT !.storageLimit = limit]),
           UNCHANGED <<now, phase, due, tasks, index, restarts, ahead, spare, gifts, overs>>,
           balance' \in [Accounts -> Nat]
    PROVE  IInv'
<1> DEFINE p == [profile[a] EXCEPT !.storageLimit = limit]
<1>1. profile[a] \in Profile /\ (a \notin gifts \cup overs => LimitsOK(a))
  BY Fields DEF IInv, AccountOK
<1>2. /\ p \in Profile /\ p.nickname = profile[a].nickname
      /\ p.activeUntil = profile[a].activeUntil
      /\ p.imUntil = profile[a].imUntil /\ p.imExtra = profile[a].imExtra
      /\ p.vpnLimit = profile[a].vpnLimit /\ p.vpnCurrent = profile[a].vpnCurrent
      /\ p.storageLimit = limit /\ p.storageCurrent = profile[a].storageCurrent
  BY <1>1 DEF Profile
<1>3. a \notin gifts \cup overs =>
        p.vpnCurrent <= p.vpnLimit /\ p.storageCurrent <= p.storageLimit
  BY <1>1, <1>2 DEF LimitsOK
<1>4. SetProfile(a, p)
  OBVIOUS
<1>. HIDE DEF p
<1>5. NicknamesIndexed' /\ \A k \in DOMAIN index' : index'[k] \in Accounts
  BY <1>2, <1>4, OtherThanNickname
<1>. QED  BY <1>2, <1>3, <1>4, <1>5, Quiet

LEMMA BuyStorageSafe ==
    ASSUME IInv, NEW a \in Accounts, NEW gb \in Gbs, BuyStorage(a, gb)
    PROVE  IInv'
<1> DEFINE p == profile[a]
           price == MonthPart(gb * GbPrice, p.activeUntil)
           most == Max({p.storageLimit, BaseStorage})
           limit == most + gb
<1>1. /\ Tx /\ IsActive(p) /\ Pay(a, price)
      /\ SetProfile(a, [p EXCEPT !.storageLimit = limit])
      /\ UNCHANGED <<now, phase, due, tasks, index, restarts, ahead, spare, gifts, overs>>
  BY DEF BuyStorage, history, marks
<1>2. Exists(a)
  BY <1>1 DEF IsActive, IsActiveAt, Exists
<1>3. /\ p.activeUntil \in Int /\ p.storageLimit \in Nat /\ p.storageCurrent \in Nat
      /\ a \notin gifts \cup overs => p.storageCurrent <= p.storageLimit
  BY <1>1, <1>2, Fields DEF IInv, AccountOK, LimitsOK
<1>4. gb \in Nat /\ GbPrice \in Nat /\ BaseStorage \in Nat
  BY Scalars
<1>5. price \in Int
  <2>1. gb * GbPrice \in Int
    BY <1>4
  <2>. QED  BY <1>3, <2>1, MonthPartType
<1>6. limit \in Nat /\ (a \notin gifts \cup overs => limit >= p.storageCurrent)
  <2>1. most \in Int /\ most >= p.storageLimit
    <3> DEFINE l == p.storageLimit
    <3>1. l \in Int /\ BaseStorage \in Int
      BY <1>3, <1>4
    <3>. HIDE DEF l
    <3>2. Max({l, BaseStorage}) \in Int /\ Max({l, BaseStorage}) >= l
      BY ONLY <3>1, MaxPair
    <3>. QED  BY <3>2 DEF l
  <2>. HIDE DEF most
  <2>. QED  BY <1>3, <1>4, <2>1
<1>7. balance' \in [Accounts -> Nat]
  BY <1>1, <1>5, Paying
<1>. HIDE DEF limit
<1>. QED  BY <1>1, <1>2, <1>6, <1>7, AnotherStorage

LEMMA GiveStorageUpSafe ==
    ASSUME IInv, NEW a \in Accounts, NEW gb \in Gbs \cup {0}, GiveStorageUp(a, gb)
    PROVE  IInv'
<1> DEFINE limit == Max({gb, BaseStorage})
<1>1. /\ Tx /\ Exists(a) /\ limit >= profile[a].storageCurrent
      /\ SetProfile(a, [profile[a] EXCEPT !.storageLimit = limit])
      /\ UNCHANGED <<now, phase, due, tasks, index, balance, restarts, ahead, spare, gifts, overs>>
  BY DEF GiveStorageUp, history, marks
<1>2. gb \in Nat /\ BaseStorage \in Nat
  BY Scalars
<1>3. limit \in Nat
  <2>1. limit \in Int /\ limit >= gb
    BY <1>2, MaxPair
  <2>. HIDE DEF limit
  <2>. QED  BY <1>2, <2>1
<1>4. balance' \in [Accounts -> Nat]
  BY <1>1, Scalars
<1>. HIDE DEF limit
<1>. QED  BY <1>1, <1>3, <1>4, AnotherStorage

LEMMA SetCurrentSafe ==
    ASSUME IInv, NEW a \in Accounts, NEW storage \in Nat, NEW vpn \in Nat,
           SetCurrent(a, storage, vpn)
    PROVE  IInv'
<1> DEFINE p == [profile[a] EXCEPT !.storageCurrent = storage, !.vpnCurrent = vpn]
<1>1. /\ Tx /\ Exists(a) /\ SetProfile(a, p)
      /\ overs' = IF storage > profile[a].storageLimit \/ vpn > profile[a].vpnLimit
                  THEN overs \cup {a} ELSE overs
      /\ UNCHANGED <<now, phase, due, tasks, index, balance, restarts, ahead, spare, gifts>>
  BY DEF SetCurrent
<1>2. profile[a] \in Profile /\ profile[a].storageLimit \in Nat /\ profile[a].vpnLimit \in Nat
  BY <1>1, Fields
<1>3. /\ p \in Profile /\ p.nickname = profile[a].nickname
      /\ p.activeUntil = profile[a].activeUntil
      /\ p.imUntil = profile[a].imUntil /\ p.imExtra = profile[a].imExtra
      /\ p.vpnLimit = profile[a].vpnLimit /\ p.vpnCurrent = vpn
      /\ p.storageLimit = profile[a].storageLimit /\ p.storageCurrent = storage
  <2>1. p \in Profile
    BY <1>2 DEF Profile
  <2>. QED  BY ONLY <1>2, <2>1 DEF Profile
<1>4. a \notin gifts \cup overs' =>
        p.vpnCurrent <= p.vpnLimit /\ p.storageCurrent <= p.storageLimit
  BY <1>1, <1>2, <1>3
<1>. HIDE DEF p
<1>5. NicknamesIndexed' /\ \A k \in DOMAIN index' : index'[k] \in Accounts
  BY <1>1, <1>3, OtherThanNickname
<1>6. balance' \in [Accounts -> Nat]
  BY <1>1, Scalars
<1>7. overs \subseteq overs' /\ overs' \subseteq overs \cup {a}
  BY <1>1
<1>. QED  BY <1>1, <1>3, <1>4, <1>5, <1>6, <1>7, Quiet

\* Traffic that is bought comes on top of what is left.
LEMMA BuyVpnSafe ==
    ASSUME IInv, NEW a \in Accounts, NEW gb \in Gbs, BuyVpn(a, gb)
    PROVE  IInv'
<1> DEFINE limit == (profile[a].vpnLimit + gb) % Word
           p == [profile[a] EXCEPT !.vpnLimit = limit]
           n == spare[a] + gb
<1>1. /\ Tx /\ IsActive(profile[a]) /\ Pay(a, gb * VpnGbPrice) /\ SetProfile(a, p)
      /\ spare' = [spare EXCEPT ![a] = n]
      /\ UNCHANGED <<now, phase, due, tasks, index, restarts, ahead, gifts, overs>>
  BY DEF BuyVpn, marks
<1>2. Exists(a)
  BY <1>1 DEF IsActive, IsActiveAt, Exists
<1>3. a \notin gifts \cup overs => LimitsOK(a) /\ TrafficOK(a)
  BY DEF IInv, AccountOK
<1>4. /\ profile[a] \in Profile /\ profile[a].activeUntil # NoTime
      /\ profile[a].vpnCurrent \in Nat /\ profile[a].vpnLimit \in Nat
      /\ a \notin gifts \cup overs =>
           /\ profile[a].vpnCurrent <= profile[a].vpnLimit
           /\ profile[a].vpnLimit = BaseVpn + spare[a] /\ spare[a] \in Nat
           /\ profile[a].storageCurrent <= profile[a].storageLimit
  BY <1>1, <1>2, <1>3, Fields DEF LimitsOK, TrafficOK
<1>5. /\ gb \in Nat /\ VpnGbPrice \in Nat /\ spare[a] \in Int /\ BaseVpn \in Nat
      /\ Word \in Nat /\ Word >= 1 /\ MaxTxs \in Nat /\ txs \in Nat
      /\ spare \in [Accounts -> Int] /\ ahead \in [Accounts -> Int]
  BY Scalars
<1>6. txs < MaxTxs /\ txs' = txs + 1 /\ txs' \in txs..MaxTxs /\ txs' \in Nat
  BY <1>1, <1>5 DEF Tx
<1>7. Capacity \in Nat /\ gb * MaxTxs <= Capacity
  BY Capacities
<1>8. n \in Int
  BY <1>5
<1>9. ASSUME a \notin gifts \cup overs
      PROVE  /\ n \in Nat /\ n <= Capacity /\ n * MaxTxs <= txs' * Capacity
             /\ limit = BaseVpn + n /\ limit >= profile[a].vpnCurrent
  <2>1. spare[a] * MaxTxs <= txs * Capacity /\ spare[a] \in Nat
    BY <1>3, <1>9 DEF TrafficOK
  <2>2. n \in Nat /\ n * MaxTxs <= txs' * Capacity
    <3>1. n \in Nat /\ n * MaxTxs = spare[a] * MaxTxs + gb * MaxTxs
      BY <1>5, <2>1
    <3>. HIDE DEF Capacity
    <3>2. txs' * Capacity = txs * Capacity + Capacity
      BY <1>5, <1>6, <1>7
    <3>3. /\ spare[a] * MaxTxs \in Int /\ gb * MaxTxs \in Int /\ txs * Capacity \in Int
      BY <1>5, <1>7
    <3>. QED  BY <1>7, <2>1, <3>1, <3>2, <3>3
  <2>. HIDE DEF n
  <2>3. n <= Capacity
    <3>. HIDE DEF Capacity
    <3>1. n * MaxTxs <= MaxTxs * Capacity
      <4>1. n * MaxTxs \in Int
        BY <1>5, <2>2
      <4>2. txs' <= MaxTxs
        BY <1>6
      <4>. QED  BY ONLY <1>5, <1>6, <2>2, <4>1, <4>2, MoreRoom
    <3>2. ASSUME n > Capacity PROVE FALSE
      <4>1. n - Capacity >= 1 /\ MaxTxs >= 1
        BY <1>5, <1>6, <1>7, <2>2, <3>2
      <4>2. (n - Capacity) * MaxTxs >= 1
        BY <1>5, <1>7, <2>2, <4>1
      <4>3. (n - Capacity) * MaxTxs = n * MaxTxs - MaxTxs * Capacity
        BY <1>5, <1>7, <2>2
      <4>4. n * MaxTxs \in Int /\ MaxTxs * Capacity \in Int
        BY <1>5, <1>7, <2>2
      <4>. QED  BY <3>1, <4>2, <4>3, <4>4
    <3>. QED  BY <1>7, <2>2, <3>2
  <2>4. limit = BaseVpn + n
    <3> DEFINE y == BaseVpn + n
    <3>1. y \in 0..(Word - 1) /\ profile[a].vpnLimit + gb = y
      BY <1>4, <1>5, <1>9, <2>2, <2>3 DEF Capacity, n
    <3>2. y % Word = y
      <4>. HIDE DEF y
      <4>. QED  BY <1>5, <3>1
    <3>. QED  BY <3>1, <3>2
  <2>5. limit >= profile[a].vpnCurrent
    <3>. HIDE DEF limit
    <3>. QED  BY <1>4, <1>5, <1>9, <2>1, <2>4 DEF n
  <2>. QED  BY <2>2, <2>3, <2>4, <2>5
<1>10. limit \in Nat
  <2> DEFINE x == profile[a].vpnLimit + gb
  <2>1. x \in Nat
    BY <1>4, <1>5
  <2>. HIDE DEF x
  <2>2. x % Word \in Nat
    BY <1>5, <2>1
  <2>. QED  BY <2>2 DEF x
<1>. HIDE DEF limit, n
<1>11. /\ p \in Profile /\ p.nickname = profile[a].nickname
       /\ p.activeUntil = profile[a].activeUntil
       /\ p.imUntil = profile[a].imUntil /\ p.imExtra = profile[a].imExtra
       /\ p.vpnLimit = limit /\ p.vpnCurrent = profile[a].vpnCurrent
       /\ p.storageLimit = profile[a].storageLimit
       /\ p.storageCurrent = profile[a].storageCurrent
  BY <1>4, <1>10 DEF Profile
<1>. HIDE DEF p
<1>12. /\ profile'[a] = p /\ Exists(a)' /\ \A b \in Accounts : Exists(b) => Exists(b)'
  BY <1>1, <1>11, Setting
<1>13. /\ TasksInv' /\ tasks' \subseteq TaskType /\ due' \subseteq TaskType
       /\ \A g, b : TimesOf(g, b)' = TimesOf(g, b)
  BY <1>1, <1>12, TasksStay
<1>14. /\ spare'[a] = n /\ spare' \in [Accounts -> Int]
       /\ \A b \in Accounts \ {a} : spare'[b] = spare[b]
  BY <1>1, <1>5, <1>8
<1>15. a \notin gifts => MonthsOK(a)' /\ ImOK(a)'
  BY <1>1, <1>2, <1>11, <1>13, MonthsStay, ImStays
<1>16. LateOK(a)'
  BY <1>1, <1>2, <1>11, <1>13, LateStays
<1>17. ASSUME a \notin gifts \cup overs PROVE TrafficOK(a)' /\ LimitsOK(a)'
  <2>1. TrafficOK(a)'
    BY <1>4, <1>9, <1>11, <1>12, <1>14, <1>17 DEF TrafficOK
  <2>2. LimitsOK(a)'
    BY <1>4, <1>9, <1>11, <1>12, <1>14, <1>17 DEF LimitsOK
  <2>. QED  BY <2>1, <2>2
<1>18. NicknamesIndexed' /\ \A k \in DOMAIN index' : index'[k] \in Accounts
  BY <1>1, <1>2, <1>11, OtherThanNickname
<1>19. balance' \in [Accounts -> Nat]
  <2>1. gb * VpnGbPrice \in Int
    BY <1>5
  <2>. QED  BY <1>1, <2>1, Paying
<1>20. /\ ahead' \in [Accounts -> Int] /\ ahead' = ahead
       /\ gifts' = gifts /\ overs' = overs
  BY <1>1, <1>5
<1>. QED  BY <1>1, <1>6, <1>11, <1>13, <1>14, <1>15, <1>16, <1>17, <1>18, <1>19, <1>20,
             Composed

-----------------------------------------------------------------------------
(* Months of the tariff.                                                   *)

\* The profile with another end of the last month and another storage.
Paid(p, until, storage) == [p EXCEPT !.activeUntil = until, !.storageLimit = storage]

LEMMA PaidTyped ==
    ASSUME NEW p \in Profile, NEW until \in Nat, NEW storage \in Nat
    PROVE  LET q == Paid(p, until, storage)
           IN  /\ q \in Profile /\ q.activeUntil = until /\ q.storageLimit = storage
               /\ q.storageCurrent = p.storageCurrent
               /\ q.vpnLimit = p.vpnLimit /\ q.vpnCurrent = p.vpnCurrent
               /\ q.nickname = p.nickname
               /\ q.imUntil = p.imUntil /\ q.imExtra = p.imExtra
<1>1. until \in Times
  BY DEF Times
<1>2. Paid(p, until, storage) \in Profile
  BY <1>1 DEF Profile, Paid
<1>. QED  BY <1>2 DEF Profile, Paid

\* What PayTariff does whenever and however it is paid.
LEMMA TariffPaid ==
    ASSUME IInv, NEW a \in Accounts, NEW gb \in Gbs \cup {0}, NEW auto \in BOOLEAN,
           Exists(a), PayTariff(a, gb, auto), UNCHANGED <<now, phase, index, gifts, overs>>,
           txs' \in txs..MaxTxs, NEW until \in Nat, Prolonged(profile[a], auto) = until
    PROVE  \E q \in Profile :
             /\ SetProfile(a, q) /\ q.activeUntil = until
             /\ q.imUntil = profile[a].imUntil /\ q.imExtra = profile[a].imExtra
             /\ tasks' = Put(tasks, Timer(until, "refresh", a))
             /\ a \notin gifts \cup overs => LimitsOK(a)' /\ TrafficOK(a)'
             /\ NicknamesIndexed' /\ \A k \in DOMAIN index' : index'[k] \in Accounts
             /\ balance' \in [Accounts -> Nat]
             /\ spare' \in [Accounts -> Int] /\ ahead' \in [Accounts -> Int]
             /\ \A b \in Accounts \ {a} : ahead'[b] = ahead[b] /\ spare'[b] = spare[b]
             /\ ahead'[a] = IF IsActive(profile[a]) /\ ~auto THEN ahead[a] + 1 ELSE ahead[a]
<1> DEFINE p == profile[a]
           early == IsActive(p) /\ ~auto
           kept == IF IsActive(p) THEN Storage(p, gb) ELSE p.storageLimit
           paid == Paid(p, until, kept)
           q == IF early THEN paid ELSE resetLimits(paid)
           n == IF early THEN spare[a] ELSE spare[a] - Over(p)
           m == IF early THEN ahead[a] + 1 ELSE ahead[a]
<1>1. a \notin gifts \cup overs => LimitsOK(a) /\ TrafficOK(a)
  BY DEF IInv, AccountOK
<1>2. /\ p \in Profile /\ p.storageLimit \in Nat /\ p.storageCurrent \in Nat
      /\ p.vpnLimit \in Nat /\ p.vpnCurrent \in Nat
      /\ IsActive(p) => p.activeUntil # NoTime
  BY Fields
<1>3. gb # 0 => gb >= p.storageCurrent
  BY DEF PayTariff
<1>4. /\ Storage(p, gb) \in Nat
      /\ a \notin gifts \cup overs => Storage(p, gb) >= p.storageCurrent
  BY <1>3, StorageType
<1>5. kept \in Nat /\ (a \notin gifts \cup overs => p.storageCurrent <= kept)
  BY <1>1, <1>2, <1>4 DEF LimitsOK
<1>6. [p EXCEPT !.activeUntil = Prolonged(p, auto),
                !.storageLimit = IF IsActive(p) THEN Storage(p, gb) ELSE @] = paid
  BY <1>2 DEF Profile, Paid
<1>7. /\ Pay(a, TariffPrice(p, Storage(p, gb))) /\ SetProfile(a, q)
      /\ tasks' = Put(tasks, Timer(paid.activeUntil, "refresh", a))
      /\ ahead' = [ahead EXCEPT ![a] = m] /\ spare' = [spare EXCEPT ![a] = n]
  BY <1>6 DEF PayTariff, scheduleRenew
<1>. HIDE DEF kept
<1>8. /\ paid \in Profile /\ paid.activeUntil = until /\ paid.storageLimit = kept
      /\ paid.storageCurrent = p.storageCurrent
      /\ paid.vpnLimit = p.vpnLimit /\ paid.vpnCurrent = p.vpnCurrent
      /\ paid.nickname = p.nickname
      /\ paid.imUntil = p.imUntil /\ paid.imExtra = p.imExtra
  <2>1. p \in Profile /\ kept \in Nat /\ until \in Nat
    BY <1>2, <1>5
  <2>. HIDE DEF p
  <2>. QED  BY ONLY <2>1, PaidTyped
<1>. HIDE DEF paid
<1>9. until # NoTime
  BY ProfileAssumption
<1>10. /\ resetLimits(paid) \in Profile /\ Over(paid) = Over(p) /\ Over(p) \in Nat
       /\ resetLimits(paid).activeUntil = until
       /\ resetLimits(paid).nickname = p.nickname
       /\ resetLimits(paid).imExtra = p.imExtra /\ resetLimits(paid).imUntil = p.imUntil
  <2>1. Over(paid) = Over(p)
    BY <1>8 DEF Over
  <2>. HIDE DEF p
  <2>. QED  BY <1>8, <2>1, ResetTyped
<1>11. /\ spare[a] \in Int /\ spare \in [Accounts -> Int] /\ ahead \in [Accounts -> Int]
       /\ ahead[a] \in Int
  BY Scalars
<1>12. /\ q \in Profile /\ q.activeUntil = until /\ q.nickname = p.nickname
       /\ q.imUntil = p.imUntil /\ q.imExtra = p.imExtra /\ n \in Int
  BY <1>8, <1>10, <1>11
<1>13. ASSUME a \notin gifts \cup overs
       PROVE  /\ q.storageCurrent <= q.storageLimit /\ q.vpnCurrent <= q.vpnLimit
              /\ q.vpnLimit = BaseVpn + n /\ n \in Nat /\ n <= spare[a]
  <2>1. /\ spare[a] - Over(p) \in Nat /\ spare[a] - Over(p) <= spare[a]
        /\ resetLimits(paid).storageCurrent <= resetLimits(paid).storageLimit
        /\ resetLimits(paid).vpnCurrent <= resetLimits(paid).vpnLimit
        /\ resetLimits(paid).vpnLimit = BaseVpn + (spare[a] - Over(p))
    <3>1. /\ paid \in Profile /\ paid.activeUntil # NoTime
          /\ paid.storageCurrent <= paid.storageLimit
          /\ paid.vpnCurrent = profile[a].vpnCurrent /\ paid.vpnLimit = profile[a].vpnLimit
      BY <1>5, <1>8, <1>9, <1>13
    <3>. QED  BY <1>13, <3>1, Reset
  <2>2. spare[a] \in Nat
    BY <1>1, <1>13 DEF TrafficOK
  <2>. QED  BY <1>1, <1>2, <1>5, <1>8, <1>13, <2>1, <2>2 DEF LimitsOK
<1>. HIDE DEF q, n, m
<1>14. profile'[a] = q /\ Exists(a)'
  BY <1>7, <1>12, Setting
<1>15. /\ spare'[a] = n /\ spare' \in [Accounts -> Int]
       /\ \A b \in Accounts \ {a} : spare'[b] = spare[b]
  BY <1>7, <1>11, <1>12
<1>16. /\ ahead'[a] = m /\ ahead' \in [Accounts -> Int]
       /\ \A b \in Accounts \ {a} : ahead'[b] = ahead[b]
  <2>1. m \in Int
    BY <1>11 DEF m
  <2>. QED  BY <1>7, <1>11, <2>1
<1>17. ASSUME a \notin gifts \cup overs PROVE LimitsOK(a)' /\ TrafficOK(a)'
  <2>1. LimitsOK(a)'
    BY <1>12, <1>14, <1>15, <1>17, <1>13 DEF LimitsOK
  <2>2. TrafficOK(a)'
    BY <1>7, <1>9, <1>12, <1>15, <1>17, <1>13, TrafficStays
  <2>. QED  BY <2>1, <2>2
<1>18. NicknamesIndexed' /\ \A k \in DOMAIN index' : index'[k] \in Accounts
  BY <1>7, <1>12, OtherThanNickname
<1>19. balance' \in [Accounts -> Nat]
  <2> DEFINE price == TariffPrice(p, Storage(p, gb))
  <2>1. price \in Int
    BY <1>4, TariffPriceType
  <2>. HIDE DEF price
  <2>2. Pay(a, price)
    BY <1>7 DEF price
  <2>. QED  BY <2>1, <2>2, Paying
<1>20. tasks' = Put(tasks, Timer(until, "refresh", a))
  BY <1>7, <1>8
<1>. QED  BY <1>7, <1>12, <1>15, <1>16, <1>17, <1>18, <1>19, <1>20 DEF m

\* A transaction takes back the tasks of some times, and schedules others.
Rescheduled(h, a, gone, come) ==
    {u \in tasks : ~(u.handler = h /\ u.data = a /\ u.time \in gone)}
      \cup {Timer(n, h, a) : n \in come}

LEMMA Scheduled ==
    ASSUME IInv, phase = "txs", NEW a \in Accounts, NEW h \in Handlers,
           NEW gone, NEW come \in SUBSET Nat, a \notin gifts => \A n \in come : n > now,
           UNCHANGED <<now, phase, due, gifts>>,
           tasks' = Rescheduled(h, a, gone, come),
           profile' \in [Accounts -> Profile \cup {NoProfile}],
           Exists(a)', \A b \in Accounts : Exists(b) => Exists(b)'
    PROVE  /\ TimesOf(h, a)' = (TimesOf(h, a) \ gone) \cup come
           /\ \A g \in Handlers, b \in Accounts :
                g # h \/ b # a => TimesOf(g, b)' = TimesOf(g, b)
           /\ TasksInv' /\ tasks' \subseteq TaskType /\ due' \subseteq TaskType
<1> DEFINE new == {Timer(n, h, a) : n \in come}
           Gone(u) == u.handler = h /\ u.data = a /\ u.time \in gone
<1>1. due = {} /\ due' = {}
  BY DEF IInv, TasksInv
<1>2. tasks' = {u \in tasks : ~Gone(u)} \cup new
  BY DEF Rescheduled
<1>3. (tasks \cup due)' = Changed(h, a, gone, come)
  BY <1>1, <1>2 DEF Changed
<1>4. tasks' \subseteq tasks \cup new /\ due' \subseteq due
  BY <1>1, <1>2
<1>5. /\ TimesOf(h, a)' = (TimesOf(h, a) \ gone) \cup come
      /\ \A g \in Handlers, b \in Accounts :
           g # h \/ b # a => TimesOf(g, b)' = TimesOf(g, b)
  BY <1>3, TimesChange
<1>6. TasksInv' /\ tasks' \subseteq TaskType /\ due' \subseteq TaskType
  BY <1>4, TasksChange
<1>. QED  BY <1>5, <1>6

\* The schedule runs a task, which schedules others.
LEMMA Ran ==
    ASSUME IInv, phase = "pass", NEW t \in due, NEW come \in SUBSET Nat,
           t.data \notin gifts => \A n \in come : n > now,
           UNCHANGED <<now, phase, gifts>>, due' = due \ {t},
           tasks' = tasks \cup {Timer(n, t.handler, t.data) : n \in come},
           profile' \in [Accounts -> Profile \cup {NoProfile}],
           \A b \in Accounts : Exists(b) => Exists(b)'
    PROVE  /\ t.data \notin gifts =>
                TimesOf(t.handler, t.data)' = (TimesOf(t.handler, t.data) \ {t.time}) \cup come
           /\ \A g \in Handlers, b \in Accounts :
                g # t.handler \/ b # t.data => TimesOf(g, b)' = TimesOf(g, b)
           /\ TasksInv' /\ tasks' \subseteq TaskType /\ due' \subseteq TaskType
<1> DEFINE h == t.handler  a == t.data
           new == {Timer(n, h, a) : n \in come}
           Gone(u) == u.handler = h /\ u.data = a /\ u.time \in {t.time}
<1>1. h \in Handlers /\ a \in Accounts /\ Exists(a)
  BY Waits
<1>2. ASSUME a \notin gifts PROVE t \notin tasks
  <2>1. t.time <= now /\ (t \in tasks => t.time > now)
    BY <1>2 DEF IInv, TasksInv
  <2>2. t.time \in Nat /\ now \in Nat
    BY Waits, Scalars
  <2>. QED  BY <2>1, <2>2
<1>3. ASSUME NEW u \in tasks \cup due PROVE Gone(u) <=> u = t
  BY OneOfATime
<1>4. ASSUME a \notin gifts PROVE (tasks \cup due)' = Changed(h, a, {t.time}, come)
  <2>1. Changed(h, a, {t.time}, come) = {u \in tasks \cup due : ~Gone(u)} \cup new
    BY DEF Changed
  <2>. HIDE DEF Gone, new
  <2>2. (tasks \cup due)' = ((tasks \cup due) \ {t}) \cup new
    BY <1>2, <1>4 DEF new, h, a
  <2>3. {u \in tasks \cup due : ~Gone(u)} = (tasks \cup due) \ {t}
    BY <1>3
  <2>. QED  BY <2>1, <2>2, <2>3
<1>5. tasks' \subseteq tasks \cup new /\ due' \subseteq due
  OBVIOUS
<1>6. \A u : ~(u.handler = h /\ u.data = a) => (u \in (tasks \cup due)' <=> u \in tasks \cup due)
  <2>1. \A u \in new : u.handler = h /\ u.data = a
    BY DEF Timer
  <2>2. (tasks \cup due)' = tasks \cup new \cup (due \ {t})
    OBVIOUS
  <2>. HIDE DEF new
  <2>. QED  BY <2>1, <2>2
<1>. HIDE DEF h, a
<1>7. \A g \in Handlers, b \in Accounts : g # h \/ b # a => TimesOf(g, b)' = TimesOf(g, b)
  BY <1>6, OtherTimes
<1>8. ASSUME a \notin gifts PROVE TimesOf(h, a)' = (TimesOf(h, a) \ {t.time}) \cup come
  BY <1>1, <1>4, <1>8, TimesChange
<1>9. TasksInv' /\ tasks' \subseteq TaskType /\ due' \subseteq TaskType
  <2>1. Exists(a)' /\ (a \notin gifts => \A n \in come : n > now) /\ phase # "genesis"
        /\ gifts \subseteq gifts'
    BY <1>1 DEF a
  <2>. QED  BY <1>1, <1>5, <2>1, TasksChange
<1>. QED  BY <1>7, <1>8, <1>9 DEF h, a

\* When the tasks of an account can be due.
LEMMA TimesKnown ==
    ASSUME IInv, NEW h, NEW a, NEW x \in TimesOf(h, a)
    PROVE  /\ x \in Nat /\ Exists(a)
           /\ a \notin gifts => x + Month > now /\ (phase = "txs" => x > now)
<1>1. PICK t \in tasks \cup due : t.handler = h /\ t.data = a /\ t.time = x
  BY DEF TimesOf
<1>2. phase = "txs" => t \in tasks
  BY <1>1 DEF IInv, TasksInv
<1>. QED  BY <1>1, <1>2, Waits DEF IInv, TasksInv

LEMMA MonthsKnown ==
    ASSUME IInv, NEW a \in Accounts \ gifts, TimesOf("refresh", a) # {}
    PROVE  /\ Exists(a) /\ profile[a].activeUntil \in Nat /\ ahead[a] \in Nat
           /\ TimesOf("refresh", a) = MonthsTo(profile[a].activeUntil, ahead[a])
           /\ profile[a].activeUntil - (ahead[a] + 1) * Month <= now
           /\ profile[a].activeUntil \in TimesOf("refresh", a)
           /\ profile[a].activeUntil - ahead[a] * Month \in TimesOf("refresh", a)
<1>1. Exists(a)
  BY TimesKnown
<1>2. MonthsOK(a)
  BY DEF IInv, AccountOK, BuyerOK
<1>3. profile[a].activeUntil \in Nat /\ ahead[a] \in Nat
  BY <1>1, <1>2, Fields, Scalars DEF MonthsOK
<1>. QED  BY <1>1, <1>2, <1>3, MonthsEnds DEF MonthsOK

\* An account that has run out has no month ahead, and at most one task.
LEMMA RunOut ==
    ASSUME IInv, NEW a \in Accounts \ gifts, ~IsActive(profile[a])
    PROVE  /\ ahead[a] = 0
           /\ TimesOf("refresh", a) # {} =>
                /\ TimesOf("refresh", a) = {profile[a].activeUntil}
                /\ phase # "txs"
<1>1. CASE TimesOf("refresh", a) = {}
  BY <1>1 DEF IInv, AccountOK, BuyerOK, MonthsOK
<1>2. CASE TimesOf("refresh", a) # {}
  <2> DEFINE u == profile[a].activeUntil  n == ahead[a]
  <2>1. /\ Exists(a) /\ u \in Nat /\ n \in Nat
        /\ TimesOf("refresh", a) = MonthsTo(u, n)
        /\ u \in TimesOf("refresh", a) /\ u - n * Month \in TimesOf("refresh", a)
    BY <1>2, MonthsKnown
  <2>2. u <= now /\ now \in Nat /\ Month \in Nat /\ Month >= 1
    <3>1. u # NoTime
      BY <2>1, ProfileAssumption
    <3>. QED  BY <2>1, <3>1, Fields, Scalars
  <2>3. phase # "txs"
    BY <2>1, <2>2, TimesKnown
  <2>4. n = 0
    <3>1. ASSUME n # 0 PROVE FALSE
      <4>1. n * Month >= Month
        BY <2>1, <2>2, <3>1
      <4>2. u - n * Month + Month > now
        BY <2>1, TimesKnown
      <4>3. n * Month \in Int
        BY <2>1, <2>2
      <4>. QED  BY <2>1, <2>2, <4>1, <4>2, <4>3
    <3>. QED  BY <3>1
  <2>. QED  BY <2>1, <2>3, <2>4, MonthsEnds
<1>. QED  BY <1>1, <1>2

\* The months of an account are as they should be after a payment.
LEMMA MonthsSet ==
    ASSUME NEW a \in Accounts, NEW q, profile'[a] = q, Exists(a)', q.activeUntil # NoTime,
           NEW n \in Nat, ahead'[a] = n,
           TimesOf("refresh", a)' = MonthsTo(q.activeUntil, n),
           q.activeUntil - (n + 1) * Month <= now'
    PROVE  MonthsOK(a)'
<1>1. q.activeUntil - n * Month \in MonthsTo(q.activeUntil, n)
  BY DEF MonthsTo
<1>2. TimesOf("refresh", a)' # {}
  BY <1>1
<1>. QED  BY <1>2 DEF MonthsOK

LEMMA PayTariffTxSafe ==
    ASSUME IInv, NEW a \in Accounts, NEW gb \in Gbs \cup {0}, PayTariffTx(a, gb)
    PROVE  IInv'
<1> DEFINE p == profile[a]
           until == Prolonged(p, FALSE)
<1>1. /\ Tx /\ Exists(a) /\ PayTariff(a, gb, FALSE) /\ phase = "txs"
      /\ UNCHANGED <<now, phase, due, index, restarts, gifts, overs>>
  BY DEF PayTariffTx, Tx, marks
<1>2. now \in Nat /\ Month \in Nat /\ Month >= 1 /\ txs' \in txs..MaxTxs
  BY <1>1, Scalars DEF Tx
<1>3. IsActive(p) => p.activeUntil \in Nat /\ p.activeUntil > now
  BY <1>1, Fields
<1>4. until \in Nat /\ until > now
      /\ until = IF IsActive(p) THEN p.activeUntil + Month ELSE now + Month
  BY <1>2, <1>3 DEF Prolonged
<1>. HIDE DEF until
<1>5. FALSE \in BOOLEAN /\ Prolonged(profile[a], FALSE) = until
  BY DEF until
<1>6. PICK q \in Profile :
        /\ SetProfile(a, q) /\ q.activeUntil = until
        /\ q.imUntil = p.imUntil /\ q.imExtra = p.imExtra
        /\ tasks' = Put(tasks, Timer(until, "refresh", a))
        /\ a \notin gifts \cup overs => LimitsOK(a)' /\ TrafficOK(a)'
        /\ NicknamesIndexed' /\ \A k \in DOMAIN index' : index'[k] \in Accounts
        /\ balance' \in [Accounts -> Nat]
        /\ spare' \in [Accounts -> Int] /\ ahead' \in [Accounts -> Int]
        /\ \A b \in Accounts \ {a} : ahead'[b] = ahead[b] /\ spare'[b] = spare[b]
        /\ ahead'[a] = IF IsActive(p) /\ ~FALSE THEN ahead[a] + 1 ELSE ahead[a]
  BY <1>1, <1>2, <1>4, <1>5, TariffPaid
<1>7. /\ profile' \in [Accounts -> Profile \cup {NoProfile}]
      /\ profile'[a] = q /\ Exists(a)' /\ \A b \in Accounts : Exists(b) => Exists(b)'
  BY <1>1, <1>6, Setting
<1>8. /\ TimesOf("refresh", a)' = TimesOf("refresh", a) \cup {until}
      /\ \A g \in Handlers, b \in Accounts :
           g # "refresh" \/ b # a => TimesOf(g, b)' = TimesOf(g, b)
      /\ TasksInv' /\ tasks' \subseteq TaskType /\ due' \subseteq TaskType
  <2> DEFINE come == {until}
  <2>1. tasks' = Rescheduled("refresh", a, {}, come)
    BY <1>6 DEF Put, Rescheduled
  <2>2. come \in SUBSET Nat /\ (\A n \in come : n > now) /\ "refresh" \in Handlers
    BY <1>4 DEF Handlers
  <2>3. UNCHANGED <<now, phase, due, gifts>> /\ phase = "txs"
    BY <1>1
  <2>4. /\ TimesOf("refresh", a)' = (TimesOf("refresh", a) \ {}) \cup come
        /\ \A g \in Handlers, b \in Accounts :
             g # "refresh" \/ b # a => TimesOf(g, b)' = TimesOf(g, b)
        /\ TasksInv' /\ tasks' \subseteq TaskType /\ due' \subseteq TaskType
    <3>. HIDE DEF come
    <3>. QED  BY <2>1, <2>2, <2>3, <1>7, Scheduled
  <2>5. TimesOf("refresh", a)' = TimesOf("refresh", a) \cup {until}
    BY ONLY <2>4
  <2>. QED  BY <2>4, <2>5
<1>9. ASSUME a \notin gifts PROVE MonthsOK(a)'
  <2>1. CASE IsActive(p)
    <3>1. active[a]
      BY <1>9, <2>1 DEF IInv, AccountOK, BuyerOK, ActiveOK
    <3>2. TimesOf("refresh", a) # {}
      BY <1>9, <3>1 DEF IInv, AccountOK, BuyerOK, MonthsOK
    <3> DEFINE u == p.activeUntil  n == ahead[a]
    <3>3. /\ u \in Nat /\ n \in Nat /\ TimesOf("refresh", a) = MonthsTo(u, n)
          /\ u - (n + 1) * Month <= now
      BY <1>9, <3>2, MonthsKnown
    <3>4. until = u + Month /\ ahead'[a] = n + 1
      BY <1>4, <1>6, <2>1
    <3>. HIDE DEF u, n
    <3>5. TimesOf("refresh", a)' = MonthsTo(until, n + 1)
      <4>1. MonthsTo(u + Month, n + 1) = MonthsTo(u, n) \cup {u + Month}
        BY <3>3, MonthsMore
      <4>. QED  BY <1>8, <3>3, <3>4, <4>1
    <3>6. until - (n + 1 + 1) * Month <= now
      <4>1. (n + 1 + 1) * Month = (n + 1) * Month + Month /\ (n + 1) * Month \in Int
        BY <1>2, <3>3
      <4>. QED  BY <1>2, <3>3, <3>4, <4>1
    <3> DEFINE m == n + 1
    <3>7. /\ until # NoTime /\ m \in Nat /\ ahead'[a] = m /\ q.activeUntil = until
          /\ TimesOf("refresh", a)' = MonthsTo(until, m) /\ until - (m + 1) * Month <= now'
      BY <1>1, <1>4, <1>6, <3>3, <3>4, <3>5, <3>6, ProfileAssumption
    <3>. HIDE DEF m
    <3>. QED  BY ONLY <1>7, <3>7, MonthsSet
  <2>2. CASE ~IsActive(p)
    <3>1. ahead[a] = 0 /\ TimesOf("refresh", a) = {}
      BY <1>1, <1>9, <2>2, RunOut
    <3>2. until = now + Month /\ ahead'[a] = 0
      BY <1>4, <1>6, <2>2, <3>1
    <3>3. TimesOf("refresh", a)' = MonthsTo(until, 0)
      <4>1. MonthsTo(until, 0) = {until}
        BY <1>4, MonthsEnds
      <4>. QED  BY <1>8, <3>1, <4>1
    <3>4. until - (0 + 1) * Month <= now
      BY <1>2, <3>2
    <3>5. until # NoTime /\ 0 \in Nat /\ q.activeUntil = until /\ now' = now
      BY <1>1, <1>4, <1>6, ProfileAssumption
    <3>. QED  BY <1>7, <3>2, <3>3, <3>4, <3>5, MonthsSet
  <2>. QED  BY <2>1, <2>2
<1>10. a \notin gifts => ImOK(a)'
  BY <1>1, <1>6, <1>8, ImStays DEF Handlers
<1>11. LateOK(a)'
  <2>1. until # NoTime
    BY <1>4, ProfileAssumption
  <2>. QED  BY <1>1, <1>6, <2>1, LateStays
<1>. QED  BY <1>1, <1>2, <1>6, <1>8, <1>9, <1>10, <1>11, Composed

\* A hook runs a task that is due.
LEMMA Hooked ==
    ASSUME IInv, NEW t \in due, Hook(t)
    PROVE  /\ phase = "pass" /\ due' = due \ {t} /\ t.data \in Accounts /\ Exists(t.data)
           /\ t.handler \in Handlers /\ t.time \in Nat /\ t.time <= now
           /\ t.data \notin gifts => t.time + Month > now
           /\ t.time \in TimesOf(t.handler, t.data)
BY Waits DEF Hook, IInv, TasksInv

LEMMA BeginMonthSafe ==
    ASSUME IInv, NEW t \in due, BeginMonth(t)
    PROVE  IInv'
<1> DEFINE a == t.data
           p == profile[a]
           q == resetLimits(p)
           u == p.activeUntil
           n == ahead[a]
           m == n - 1
           left == spare[a] - Over(p)
<1>1. /\ Hook(t) /\ t.handler = "refresh" /\ IsActive(p) /\ SetProfile(a, q)
      /\ ahead' = [ahead EXCEPT ![a] = m] /\ spare' = [spare EXCEPT ![a] = left]
      /\ UNCHANGED <<now, phase, tasks, index, balance, txs, restarts, gifts, overs>>
  BY DEF BeginMonth, marks
<1>2. /\ phase = "pass" /\ due' = due \ {t} /\ a \in Accounts /\ Exists(a)
      /\ t.time \in Nat /\ t.time <= now
      /\ a \notin gifts => t.time + Month > now
      /\ t.time \in TimesOf("refresh", a)
  BY <1>1, Hooked
<1>3. /\ u > now /\ u # NoTime /\ now \in Nat /\ Month \in Nat /\ Month >= 1
      /\ ahead \in [Accounts -> Int] /\ spare \in [Accounts -> Int]
      /\ p \in Profile
  BY <1>1, <1>2, Fields, Scalars
<1>4. /\ q \in Profile /\ left \in Int /\ q.activeUntil = u
      /\ q.nickname = p.nickname /\ q.imExtra = p.imExtra /\ q.imUntil = p.imUntil
  <2>1. Over(p) \in Nat /\ spare[a] \in Int
    BY <1>2, <1>3, ResetTyped
  <2>. QED  BY <1>3, <2>1, ResetTyped
<1>5. ASSUME a \notin gifts \cup overs
      PROVE  /\ left \in Nat /\ left <= spare[a]
             /\ q.storageCurrent <= q.storageLimit /\ q.vpnCurrent <= q.vpnLimit
             /\ q.vpnLimit = BaseVpn + left
  <2>1. p \in Profile /\ p.storageCurrent <= p.storageLimit
    BY <1>2, <1>5, Fields DEF IInv, AccountOK, LimitsOK
  <2>. QED  BY <1>2, <1>3, <1>5, <2>1, Reset
<1>. HIDE DEF q, left
<1>6. /\ profile' \in [Accounts -> Profile \cup {NoProfile}]
      /\ profile'[a] = q /\ Exists(a)' /\ \A b \in Accounts : Exists(b) => Exists(b)'
  BY <1>1, <1>2, <1>4, Setting
<1>7. /\ ahead'[a] = m /\ ahead' \in [Accounts -> Int]
      /\ spare'[a] = left /\ spare' \in [Accounts -> Int]
      /\ \A b \in Accounts \ {a} : ahead'[b] = ahead[b] /\ spare'[b] = spare[b]
  BY <1>1, <1>2, <1>3, <1>4
<1>8. /\ a \notin gifts => TimesOf("refresh", a)' = TimesOf("refresh", a) \ {t.time}
      /\ \A g \in Handlers, b \in Accounts :
           g # "refresh" \/ b # a => TimesOf(g, b)' = TimesOf(g, b)
      /\ TasksInv' /\ tasks' \subseteq TaskType /\ due' \subseteq TaskType
  <2>1. tasks' = tasks \cup {Timer(k, t.handler, t.data) : k \in {}}
    BY <1>1
  <2>2. {} \in SUBSET Nat /\ \A k \in {} : k > now
    OBVIOUS
  <2>3. /\ t.data \notin gifts =>
             TimesOf(t.handler, t.data)' = (TimesOf(t.handler, t.data) \ {t.time}) \cup {}
        /\ \A g \in Handlers, b \in Accounts :
             g # t.handler \/ b # t.data => TimesOf(g, b)' = TimesOf(g, b)
        /\ TasksInv' /\ tasks' \subseteq TaskType /\ due' \subseteq TaskType
    BY <1>1, <1>2, <1>6, <2>1, <2>2, Ran
  <2>. QED  BY <1>1, <2>3
<1>9. ASSUME a \notin gifts PROVE MonthsOK(a)'
  <2>1. /\ u \in Nat /\ n \in Nat /\ TimesOf("refresh", a) = MonthsTo(u, n)
        /\ u - (n + 1) * Month <= now
        /\ u - n * Month \in TimesOf("refresh", a)
    BY <1>2, <1>9, MonthsKnown
  <2>2. t.time = u - n * Month
    <3>1. /\ t.time = u - n * Month \/ u - n * Month + Month <= t.time
      BY <1>2, <2>1, MonthsBetween
    <3>2. u - n * Month + Month > now /\ u - n * Month \in Nat
      BY <1>9, <2>1, TimesKnown
    <3>. HIDE DEF u, n
    <3>. QED  BY <1>2, <1>3, <3>1, <3>2
  <2>3. n # 0
    <3>. HIDE DEF n, u
    <3>1. n = 0 => n * Month = 0
      BY <1>3
    <3>2. n = 0 => t.time = u
      BY <2>1, <2>2, <3>1
    <3>3. t.time <= now /\ u > now /\ u \in Nat /\ now \in Nat
      BY <1>2, <1>3, <2>1
    <3>. QED  BY <3>2, <3>3
  <2>4. m \in Nat /\ m + 1 = n
    BY <2>1, <2>3
  <2>5. TimesOf("refresh", a)' = MonthsTo(u, m)
    <3>1. TimesOf("refresh", a)' = TimesOf("refresh", a) \ {t.time}
      BY <1>8, <1>9
    <3>2. u \in Int /\ n \in Nat /\ n # 0
      BY <2>1, <2>3
    <3>. HIDE DEF u, n
    <3>3. MonthsTo(u, n) \ {u - n * Month} = MonthsTo(u, m)
      BY <3>2, MonthsLess
    <3>. QED  BY <2>1, <2>2, <3>1, <3>3
  <2>6. u - (m + 1) * Month <= now' /\ q.activeUntil # NoTime
    BY <1>1, <1>2, <1>3, <1>4, <2>2, <2>4
  <2>. HIDE DEF m
  <2>. QED  BY <1>2, <1>4, <1>6, <1>7, <2>4, <2>5, <2>6, MonthsSet
<1>10. txs' \in txs..MaxTxs /\ UNCHANGED <<now, phase, restarts>>
  BY <1>1 DEF IInv, TypeOK
<1>11. ASSUME a \notin gifts \cup overs PROVE TrafficOK(a)' /\ LimitsOK(a)'
  <2>1. q.activeUntil # NoTime
    BY <1>3, <1>4
  <2>2. TrafficOK(a)'
    BY <1>1, <1>2, <1>4, <1>5, <1>7, <1>10, <1>11, <2>1, TrafficStays
  <2>3. LimitsOK(a)'
    BY <1>5, <1>6, <1>7, <1>11 DEF LimitsOK
  <2>. QED  BY <2>2, <2>3
<1>12. ASSUME a \notin gifts PROVE ImOK(a)'
  <2>1. TimesOf("refresh-im", a)' = TimesOf("refresh-im", a)
    BY <1>2, <1>8 DEF Handlers
  <2>. QED  BY <1>1, <1>2, <1>4, <1>12, <2>1, ImStays
<1>13. LateOK(a)'
  BY <1>1, <1>2, <1>3, <1>4, LateStays
<1>14. NicknamesIndexed' /\ \A k \in DOMAIN index' : index'[k] \in Accounts
  BY <1>1, <1>2, <1>4, OtherThanNickname
<1>15. balance' \in [Accounts -> Nat] /\ gifts' = gifts /\ overs' = overs
  BY <1>1, Scalars
<1>16. \A b \in Accounts \ {a} :
         /\ ahead'[b] = ahead[b] /\ spare'[b] = spare[b]
         /\ \A h \in Handlers : TimesOf(h, b)' = TimesOf(h, b)
  BY <1>7, <1>8
<1>. HIDE DEF a
<1>. QED  BY <1>1, <1>2, <1>4, <1>7, <1>8, <1>9, <1>10, <1>11, <1>12, <1>13, <1>14, <1>15,
             <1>16, Composed

LEMMA AutoPaySafe ==
    ASSUME IInv, NEW t \in due, AutoPay(t)
    PROVE  IInv'
<1> DEFINE a == t.data
           p == profile[a]
           u == p.activeUntil
           until == u + Month
<1>1. /\ Hook(t) /\ t.handler = "refresh" /\ ~IsActive(p) /\ PayTariff(a, 0, TRUE)
      /\ UNCHANGED <<now, phase, index, txs, restarts, gifts, overs>>
  BY DEF AutoPay, marks
<1>2. /\ phase = "pass" /\ due' = due \ {t} /\ a \in Accounts /\ Exists(a)
      /\ t.time \in Nat /\ t.time <= now
      /\ a \notin gifts => t.time + Month > now
      /\ t.time \in TimesOf("refresh", a)
  BY <1>1, Hooked
<1>3. a \notin gifts => ahead[a] = 0 /\ TimesOf("refresh", a) = {u} /\ t.time = u
  BY <1>1, <1>2, RunOut
<1>4. now \in Nat /\ Month \in Nat /\ Month >= 1 /\ txs \in Nat /\ MaxTxs \in Nat
  BY Scalars
<1>5. /\ until \in Nat /\ until # NoTime /\ Prolonged(profile[a], TRUE) = until
      /\ a \notin gifts => until > now
  <2>1. u # NoTime
    BY <1>2 DEF IInv, AccountOK, LateOK
  <2>2. u \in Nat
    BY <1>2, <2>1, Fields
  <2>3. until \in Nat
    BY <1>4, <2>2
  <2>. QED  BY <1>2, <1>3, <1>4, <2>2, <2>3, ProfileAssumption DEF Prolonged
<1>. HIDE DEF until
<1>6. txs' \in txs..MaxTxs /\ 0 \in Gbs \cup {0} /\ TRUE \in BOOLEAN
  <2>1. TRUE \in BOOLEAN
    OBVIOUS
  <2>2. txs' = txs /\ txs \in 0..MaxTxs
    BY <1>1 DEF IInv, TypeOK
  <2>. QED  BY <1>4, <2>1, <2>2
<1>7. PICK q \in Profile :
        /\ SetProfile(a, q) /\ q.activeUntil = until
        /\ q.imUntil = p.imUntil /\ q.imExtra = p.imExtra
        /\ tasks' = Put(tasks, Timer(until, "refresh", a))
        /\ a \notin gifts \cup overs => LimitsOK(a)' /\ TrafficOK(a)'
        /\ NicknamesIndexed' /\ \A k \in DOMAIN index' : index'[k] \in Accounts
        /\ balance' \in [Accounts -> Nat]
        /\ spare' \in [Accounts -> Int] /\ ahead' \in [Accounts -> Int]
        /\ \A b \in Accounts \ {a} : ahead'[b] = ahead[b] /\ spare'[b] = spare[b]
        /\ ahead'[a] = IF IsActive(p) /\ ~TRUE THEN ahead[a] + 1 ELSE ahead[a]
  <2>. HIDE DEF a
  <2>. QED  BY <1>1, <1>2, <1>5, <1>6, TariffPaid
<1>8. /\ profile' \in [Accounts -> Profile \cup {NoProfile}]
      /\ profile'[a] = q /\ Exists(a)' /\ \A b \in Accounts : Exists(b) => Exists(b)'
  BY <1>1, <1>2, <1>7, Setting
<1>9. /\ a \notin gifts => TimesOf("refresh", a)' = {until}
      /\ \A g \in Handlers, b \in Accounts :
           g # "refresh" \/ b # a => TimesOf(g, b)' = TimesOf(g, b)
      /\ TasksInv' /\ tasks' \subseteq TaskType /\ due' \subseteq TaskType
  <2> DEFINE come == {until}
  <2>1. tasks' = tasks \cup {Timer(n, t.handler, t.data) : n \in come}
    BY <1>1, <1>7 DEF Put
  <2>2. come \in SUBSET Nat /\ (a \notin gifts => \A n \in come : n > now)
    BY <1>5
  <2>3. UNCHANGED <<now, phase, gifts>>
    BY <1>1
  <2>4. /\ t.data \notin gifts =>
             TimesOf(t.handler, t.data)' = (TimesOf(t.handler, t.data) \ {t.time}) \cup come
        /\ \A g \in Handlers, b \in Accounts :
             g # t.handler \/ b # t.data => TimesOf(g, b)' = TimesOf(g, b)
        /\ TasksInv' /\ tasks' \subseteq TaskType /\ due' \subseteq TaskType
    <3>. HIDE DEF come
    <3>. QED  BY <1>2, <1>8, <2>1, <2>2, <2>3, Ran
  <2>5. a \notin gifts => (TimesOf("refresh", a) \ {t.time}) \cup come = {until}
    BY <1>3
  <2>. QED  BY <1>1, <2>4, <2>5
<1>10. ASSUME a \notin gifts PROVE MonthsOK(a)'
  <2>1. MonthsTo(until, 0) = {until}
    BY <1>5, MonthsEnds
  <2>2. ahead'[a] = 0
    BY <1>1, <1>3, <1>7, <1>10
  <2>3. until - (0 + 1) * Month <= now' /\ until # NoTime
    BY <1>1, <1>2, <1>3, <1>4, <1>5, <1>10 DEF until
  <2> DEFINE n == 0
  <2>4. /\ n \in Nat /\ ahead'[a] = n /\ q.activeUntil = until
        /\ TimesOf("refresh", a)' = MonthsTo(until, n)
        /\ until - (n + 1) * Month <= now'
    BY <1>7, <1>9, <1>10, <2>1, <2>2, <2>3
  <2>. HIDE DEF n, a
  <2>. QED  BY <1>2, <1>8, <2>3, <2>4, MonthsSet
<1>11. ASSUME a \notin gifts PROVE ImOK(a)'
  <2>1. TimesOf("refresh-im", a)' = TimesOf("refresh-im", a)
    BY <1>2, <1>9 DEF Handlers
  <2>. QED  BY <1>1, <1>2, <1>7, <1>11, <2>1, ImStays
<1>12. \A b \in Accounts \ {a} :
         /\ ahead'[b] = ahead[b] /\ spare'[b] = spare[b]
         /\ \A h \in Handlers : TimesOf(h, b)' = TimesOf(h, b)
  BY <1>7, <1>9
<1>13. UNCHANGED <<now, phase, restarts, gifts, overs>>
  BY <1>1
<1>14. LateOK(a)'
  BY <1>1, <1>2, <1>5, <1>7, LateStays
<1>. HIDE DEF a
<1>. QED  BY <1>2, <1>6, <1>7, <1>9, <1>10, <1>11, <1>12, <1>13, <1>14, Composed

\* The hook of an account that does not pay: only x/referral hears of it.
LEMMA ExpireSafe ==
    ASSUME IInv, NEW t \in due, Expire(t)
    PROVE  IInv'
<1> DEFINE a == t.data
           p == profile[a]
<1>1. /\ Hook(t) /\ t.handler = "refresh" /\ ~IsActive(p)
      /\ active' = [active EXCEPT ![a] = FALSE]
      /\ UNCHANGED <<now, phase, tasks, profile, index, balance, txs, restarts, ahead, spare,
                     gifts, overs>>
  BY DEF Expire, Deactivated, history, marks
<1>2. /\ phase = "pass" /\ due' = due \ {t} /\ a \in Accounts /\ Exists(a)
      /\ t.time \in TimesOf("refresh", a)
  BY <1>1, Hooked
<1>3. a \notin gifts => ahead[a] = 0 /\ TimesOf("refresh", a) = {t.time}
  BY <1>1, <1>2, RunOut
<1>4. /\ a \notin gifts => TimesOf("refresh", a)' = {}
      /\ \A g \in Handlers, b \in Accounts :
           g # "refresh" \/ b # a => TimesOf(g, b)' = TimesOf(g, b)
      /\ TasksInv' /\ tasks' \subseteq TaskType /\ due' \subseteq TaskType
  <2>1. tasks' = tasks \cup {Timer(k, t.handler, t.data) : k \in {}}
    BY <1>1
  <2>2. {} \in SUBSET Nat /\ \A k \in {} : k > now
    OBVIOUS
  <2>3. /\ UNCHANGED <<now, phase, gifts>>
        /\ profile' \in [Accounts -> Profile \cup {NoProfile}]
        /\ \A b \in Accounts : Exists(b) => Exists(b)'
    BY <1>1 DEF IInv, TypeOK, Exists
  <2>4. /\ t.data \notin gifts =>
             TimesOf(t.handler, t.data)' = (TimesOf(t.handler, t.data) \ {t.time}) \cup {}
        /\ \A g \in Handlers, b \in Accounts :
             g # t.handler \/ b # t.data => TimesOf(g, b)' = TimesOf(g, b)
        /\ TasksInv' /\ tasks' \subseteq TaskType /\ due' \subseteq TaskType
    BY <1>1, <1>2, <2>1, <2>2, <2>3, Ran
  <2>. QED  BY <1>1, <1>3, <2>4
<1>5. active' \in [Accounts -> BOOLEAN] /\ ~active'[a]
      /\ \A b \in Accounts \ {a} : active'[b] = active[b]
  <2>1. active \in [Accounts -> BOOLEAN]
    BY DEF IInv, TypeOK
  <2>2. FALSE \in BOOLEAN
    OBVIOUS
  <2>. QED  BY <1>1, <1>2, <2>1, <2>2, Zenon
<1>6. Apart(a)
  <2>1. txs \in 0..MaxTxs /\ txs' = txs
    BY <1>1 DEF IInv, TypeOK
  <2>2. txs' \in txs..MaxTxs
    BY <2>1
  <2>. QED  BY <1>1, <1>4, <1>5, <2>2 DEF Apart
<1>7. AccountOK(a)
  BY <1>2 DEF IInv
<1>8. LateOK(a)'
  BY <1>1, <1>2, <1>7 DEF AccountOK, LateOK, Exists
<1>9. ASSUME a \notin gifts PROVE BuyerOK(a)'
  <2>1. ActiveOK(a)'
    BY <1>1, <1>2, <1>5 DEF ActiveOK, IsActive, IsActiveAt
  <2>2. MonthsOK(a)'
    BY <1>1, <1>3, <1>4, <1>5, <1>9 DEF MonthsOK
  <2>3. ImOK(a)'
    <3>1. TimesOf("refresh-im", a)' = TimesOf("refresh-im", a)
      BY <1>2, <1>4 DEF Handlers
    <3>. QED  BY <1>1, <1>7, <1>9, <3>1 DEF AccountOK, BuyerOK, ImOK, Exists
  <2>. QED  BY <2>1, <2>2, <2>3 DEF BuyerOK
<1>10. ASSUME a \notin gifts \cup overs PROVE TrafficOK(a)' /\ LimitsOK(a)'
  BY <1>1, <1>7, <1>10 DEF AccountOK, TrafficOK, LimitsOK, Exists
<1>11. Marked'
  BY <1>1 DEF IInv, Marked, Exists
<1>12. \A b \in Accounts : AccountOK(b)'
  <2>1. AccountOK(a)'
    BY <1>1, <1>8, <1>9, <1>10 DEF AccountOK
  <2>. QED  BY <1>2, <1>6, <2>1, Others
<1>13. NicknamesIndexed'
  BY <1>1, SameNicknames DEF Exists
<1>14. TypeOK'
  BY <1>1, <1>4, <1>5 DEF IInv, TypeOK, TaskType, Handlers
<1>. QED  BY <1>4, <1>11, <1>12, <1>13, <1>14 DEF IInv

-----------------------------------------------------------------------------
(* The extra storage of the messenger.                                     *)

\* The extra storage, its end and the automatic payment for it.
WithIm(p, extra, until, auto) ==
    [p EXCEPT !.imExtra = extra, !.imUntil = until, !.imAuto = auto]

LEMMA WithImTyped ==
    ASSUME NEW p \in Profile, NEW extra \in Nat, NEW until \in Times, NEW auto \in BOOLEAN
    PROVE  LET q == WithIm(p, extra, until, auto)
           IN  /\ q \in Profile /\ q.imExtra = extra /\ q.imUntil = until
               /\ q.activeUntil = p.activeUntil /\ q.nickname = p.nickname
               /\ q.storageLimit = p.storageLimit /\ q.storageCurrent = p.storageCurrent
               /\ q.vpnLimit = p.vpnLimit /\ q.vpnCurrent = p.vpnCurrent
<1>1. WithIm(p, extra, until, auto) \in Profile
  BY DEF Profile, WithIm
<1>. QED  BY <1>1 DEF Profile, WithIm

\* What is left to show when the extra storage of an account changes.
LEMMA ImChanges ==
    ASSUME IInv, NEW a \in Accounts, Exists(a),
           NEW extra \in Nat, NEW until \in Times, NEW auto \in BOOLEAN,
           SetProfile(a, WithIm(profile[a], extra, until, auto)),
           UNCHANGED <<now, phase, index, restarts, ahead, spare, gifts, overs>>, txs' \in txs..MaxTxs,
           balance' \in [Accounts -> Nat],
           \A g \in Handlers, b \in Accounts :
             g # "refresh-im" \/ b # a => TimesOf(g, b)' = TimesOf(g, b),
           TasksInv', tasks' \subseteq TaskType, due' \subseteq TaskType,
           a \notin gifts =>
             /\ TimesOf("refresh-im", a)' = {until} \ {NoTime}
             /\ extra > 0 <=> until # NoTime
             /\ phase = "txs" /\ until # NoTime => until > now
    PROVE  IInv'
<1> DEFINE p == profile[a]  q == WithIm(p, extra, until, auto)
<1>1. p \in Profile /\ (a \notin gifts \cup overs => LimitsOK(a) /\ TrafficOK(a))
  BY Fields DEF IInv, AccountOK
<1>2. /\ q \in Profile /\ q.imExtra = extra /\ q.imUntil = until
      /\ q.activeUntil = p.activeUntil /\ q.nickname = p.nickname
      /\ q.storageLimit = p.storageLimit /\ q.storageCurrent = p.storageCurrent
      /\ q.vpnLimit = p.vpnLimit /\ q.vpnCurrent = p.vpnCurrent
  <2>. HIDE DEF p
  <2>. QED  BY <1>1, WithImTyped
<1>3. SetProfile(a, q)
  OBVIOUS
<1>. HIDE DEF q
<1>4. profile'[a] = q /\ Exists(a)'
  BY <1>2, <1>3, Setting
<1>5. TimesOf("refresh", a)' = TimesOf("refresh", a)
  BY DEF Handlers
<1>6. ASSUME a \notin gifts PROVE MonthsOK(a)' /\ ImOK(a)'
  <2>1. MonthsOK(a)'
    BY <1>2, <1>3, <1>5, <1>6, MonthsStay
  <2>2. ImOK(a)'
    BY <1>2, <1>4, <1>6 DEF ImOK
  <2>. QED  BY <2>1, <2>2
<1>7. LateOK(a)'
  BY <1>2, <1>3, <1>5, LateStays
<1>8. ASSUME a \notin gifts \cup overs PROVE TrafficOK(a)' /\ LimitsOK(a)'
  <2>1. TrafficOK(a)'
    <3>1. spare[a] \in Nat /\ spare'[a] = spare[a] /\ spare[a] <= spare[a]
      BY <1>1, <1>8 DEF TrafficOK
    <3>. QED  BY <1>2, <1>3, <1>8, <3>1, TrafficStays
  <2>2. LimitsOK(a)'
    BY <1>1, <1>2, <1>4, <1>8 DEF LimitsOK
  <2>. QED  BY <2>1, <2>2
<1>9. NicknamesIndexed' /\ \A k \in DOMAIN index' : index'[k] \in Accounts
  BY <1>2, <1>3, OtherThanNickname
<1>10. ahead' \in [Accounts -> Int] /\ spare' \in [Accounts -> Int]
  BY Scalars
<1>11. \A b \in Accounts \ {a} :
         /\ ahead'[b] = ahead[b] /\ spare'[b] = spare[b]
         /\ \A h \in Handlers : TimesOf(h, b)' = TimesOf(h, b)
  OBVIOUS
<1>12. UNCHANGED <<now, phase, restarts, gifts, overs>>
  OBVIOUS
<1>. QED  BY <1>2, <1>3, <1>6, <1>7, <1>8, <1>9, <1>10, <1>11, <1>12, Composed

\* The extra storage of an account, its end and its task.
LEMMA ImKnown ==
    ASSUME IInv, NEW a \in Accounts \ gifts, Exists(a)
    PROVE  /\ TimesOf("refresh-im", a) = {profile[a].imUntil} \ {NoTime}
           /\ profile[a].imExtra > 0 <=> profile[a].imUntil # NoTime
           /\ profile[a].imUntil # NoTime =>
                /\ profile[a].imUntil + Month > now
                /\ phase = "txs" => profile[a].imUntil > now
                /\ phase = "txs" => IsExtraImStorageActive(profile[a])
<1> DEFINE p == profile[a]
<1>1. ImOK(a)
  BY DEF IInv, AccountOK, BuyerOK
<1>2. p.imExtra \in Nat /\ (p.imUntil # NoTime => p.imUntil \in Nat)
  BY Fields
<1>3. /\ TimesOf("refresh-im", a) = {p.imUntil} \ {NoTime}
      /\ p.imExtra > 0 <=> p.imUntil # NoTime
  BY <1>1 DEF ImOK
<1>4. ASSUME p.imUntil # NoTime
      PROVE  /\ p.imUntil + Month > now
             /\ phase = "txs" => p.imUntil > now
             /\ phase = "txs" => IsExtraImStorageActive(p)
  <2>1. p.imUntil \in TimesOf("refresh-im", a)
    BY <1>3, <1>4
  <2>2. p.imUntil + Month > now /\ (phase = "txs" => p.imUntil > now)
    BY <2>1, TimesKnown
  <2>. QED  BY <1>2, <1>3, <1>4, <2>2 DEF IsExtraImStorageActive
<1>. QED  BY <1>3, <1>4

LEMMA BuyImStorageSafe ==
    ASSUME IInv, NEW a \in Accounts, NEW gb \in Gbs, BuyImStorage(a, gb)
    PROVE  IInv'
<1> DEFINE p == profile[a]
           timerSet == IsExtraImStorageActive(p)
           price == IF timerSet THEN MonthPart(gb * GbPrice, p.imUntil) ELSE gb * GbPrice
           until == IF timerSet THEN p.imUntil ELSE now + Month
           extra == IF timerSet THEN p.imExtra + gb ELSE gb
           come == IF timerSet THEN {} ELSE {until}
<1>1. /\ Tx /\ Exists(a) /\ phase = "txs" /\ Pay(a, price)
      /\ SetProfile(a, [p EXCEPT !.imExtra = IF timerSet THEN @ + gb ELSE gb, !.imUntil = until])
      /\ tasks' = IF timerSet THEN tasks ELSE scheduleRenewIm(tasks, a, until)
      /\ UNCHANGED <<now, phase, due, index, restarts, ahead, spare, gifts, overs>>
  BY DEF BuyImStorage, Tx, history, marks
<1>2. /\ p \in Profile /\ p.imExtra \in Nat /\ p.imUntil \in Times /\ p.imAuto \in BOOLEAN
      /\ p.imUntil # NoTime => p.imUntil \in Nat
      /\ a \notin gifts =>
           /\ TimesOf("refresh-im", a) = {p.imUntil} \ {NoTime}
           /\ p.imUntil # NoTime => timerSet
  BY <1>1, Fields, ImKnown
<1>3. timerSet => p.imUntil # NoTime /\ p.imUntil > now
  BY DEF IsExtraImStorageActive
<1>4. now \in Nat /\ Month \in Nat /\ Month >= 1 /\ gb \in Nat /\ gb >= 1 /\ GbPrice \in Nat
  BY Scalars
<1>5. until \in Nat /\ until > now /\ extra \in Nat /\ extra > 0 /\ until # NoTime
      /\ until \in Times
  BY <1>2, <1>3, <1>4, ProfileAssumption DEF Times
<1>6. [p EXCEPT !.imExtra = IF timerSet THEN @ + gb ELSE gb, !.imUntil = until]
        = WithIm(p, extra, until, p.imAuto)
  BY <1>2 DEF Profile, WithIm
<1>7. price \in Int
  <2>1. gb * GbPrice \in Int
    BY <1>4
  <2>2. ASSUME timerSet PROVE MonthPart(gb * GbPrice, p.imUntil) \in Int
    <3> DEFINE x == gb * GbPrice  end == p.imUntil
    <3>1. x \in Int /\ end \in Int
      BY <1>2, <1>3, <2>1, <2>2
    <3>. HIDE DEF x, end
    <3>2. MonthPart(x, end) \in Int
      BY <3>1, MonthPartType
    <3>. QED  BY <3>2 DEF x, end
  <2>. QED  BY <2>1, <2>2
<1>8. balance' \in [Accounts -> Nat]
  <2>. HIDE DEF price
  <2>. QED  BY <1>1, <1>7, Paying
<1>9. SetProfile(a, WithIm(p, extra, until, p.imAuto))
  BY <1>1, <1>6
<1>. HIDE DEF timerSet, until, extra
<1>10. /\ profile' \in [Accounts -> Profile \cup {NoProfile}]
       /\ Exists(a)' /\ \A b \in Accounts : Exists(b) => Exists(b)'
  <2>1. WithIm(p, extra, until, p.imAuto) \in Profile
    BY <1>2, <1>5, WithImTyped
  <2>. HIDE DEF p
  <2>. QED  BY <1>1, <1>9, <2>1, Setting
<1>11. /\ TimesOf("refresh-im", a)' = (TimesOf("refresh-im", a) \ {}) \cup come
       /\ \A g \in Handlers, b \in Accounts :
            g # "refresh-im" \/ b # a => TimesOf(g, b)' = TimesOf(g, b)
       /\ TasksInv' /\ tasks' \subseteq TaskType /\ due' \subseteq TaskType
  <2>1. tasks' = Rescheduled("refresh-im", a, {}, come)
    BY <1>1 DEF Put, Rescheduled, scheduleRenewIm
  <2>2. come \in SUBSET Nat /\ (\A n \in come : n > now) /\ "refresh-im" \in Handlers
    BY <1>5 DEF Handlers
  <2>3. UNCHANGED <<now, phase, due, gifts>>
    BY <1>1
  <2>. HIDE DEF come
  <2>. QED  BY <1>1, <1>10, <2>1, <2>2, <2>3, Scheduled
<1>12. a \notin gifts => TimesOf("refresh-im", a)' = {until} \ {NoTime}
  BY <1>2, <1>3, <1>5, <1>11 DEF until
<1>13. txs' \in txs..MaxTxs
  BY <1>1, Scalars DEF Tx
<1>14. p.imAuto \in BOOLEAN /\ UNCHANGED <<now, phase, index, restarts, ahead, spare, gifts, overs>>
  BY <1>1, <1>2
<1>. QED  BY <1>1, <1>5, <1>8, <1>9, <1>11, <1>12, <1>13, <1>14, ImChanges

LEMMA GiveImStorageUpSafe ==
    ASSUME IInv, NEW a \in Accounts, NEW gb \in Gbs \cup {0}, GiveImStorageUp(a, gb)
    PROVE  IInv'
<1> DEFINE p == profile[a]
           until == IF gb = 0 THEN NoTime ELSE p.imUntil
           gone == IF gb = 0 THEN {p.imUntil} ELSE {}
<1>1. /\ Tx /\ Exists(a) /\ phase = "txs"
      /\ gb < (IF IsExtraImStorageActive(p) THEN p.imExtra ELSE 0)
      /\ SetProfile(a, [p EXCEPT !.imExtra = gb, !.imUntil = IF gb = 0 THEN NoTime ELSE @])
      /\ tasks' = IF gb = 0 THEN WithoutIm(tasks, a) ELSE tasks
      /\ UNCHANGED <<now, phase, due, index, balance, restarts, ahead, spare, gifts, overs>>
  BY DEF GiveImStorageUp, Tx, history, marks
<1>2. /\ p \in Profile /\ p.imExtra \in Nat /\ p.imUntil \in Times /\ p.imAuto \in BOOLEAN
      /\ p.imUntil # NoTime => p.imUntil \in Nat
      /\ a \notin gifts => TimesOf("refresh-im", a) = {p.imUntil} \ {NoTime}
  BY <1>1, Fields, ImKnown
<1>3. gb \in Nat /\ p.imUntil # NoTime /\ p.imUntil > now
  <2>1. gb \in Nat
    BY Scalars
  <2>2. IsExtraImStorageActive(p)
    BY <1>1, <2>1
  <2>. QED  BY <2>1, <2>2 DEF IsExtraImStorageActive
<1>4. until \in Times /\ (gb > 0 <=> until # NoTime) /\ (until # NoTime => until > now)
  BY <1>2, <1>3 DEF Times
<1>5. SetProfile(a, WithIm(p, gb, until, p.imAuto))
  <2>1. [p EXCEPT !.imExtra = gb, !.imUntil = IF gb = 0 THEN NoTime ELSE @]
          = WithIm(p, gb, until, p.imAuto)
    BY <1>2 DEF Profile, WithIm
  <2>. QED  BY <1>1, <2>1
<1>. HIDE DEF until
<1>6. /\ profile' \in [Accounts -> Profile \cup {NoProfile}]
      /\ Exists(a)' /\ \A b \in Accounts : Exists(b) => Exists(b)'
  <2>1. WithIm(p, gb, until, p.imAuto) \in Profile
    BY <1>2, <1>3, <1>4, WithImTyped
  <2>. HIDE DEF p
  <2>. QED  BY <1>1, <1>5, <2>1, Setting
<1>7. /\ TimesOf("refresh-im", a)' = (TimesOf("refresh-im", a) \ gone) \cup {}
      /\ \A g \in Handlers, b \in Accounts :
           g # "refresh-im" \/ b # a => TimesOf(g, b)' = TimesOf(g, b)
      /\ TasksInv' /\ tasks' \subseteq TaskType /\ due' \subseteq TaskType
  <2>1. tasks' = Rescheduled("refresh-im", a, gone, {})
    BY <1>1 DEF WithoutIm, Remove, Matching, Rescheduled
  <2>2. {} \in SUBSET Nat /\ (\A n \in {} : n > now) /\ "refresh-im" \in Handlers
    BY DEF Handlers
  <2>3. UNCHANGED <<now, phase, due, gifts>>
    BY <1>1
  <2>. HIDE DEF gone
  <2>. QED  BY <1>1, <1>6, <2>1, <2>2, <2>3, Scheduled
<1>8. a \notin gifts => TimesOf("refresh-im", a)' = {until} \ {NoTime}
  BY <1>2, <1>7 DEF until
<1>9. txs' \in txs..MaxTxs
  BY <1>1, Scalars DEF Tx
<1>10. /\ balance' \in [Accounts -> Nat]
       /\ UNCHANGED <<now, phase, index, restarts, ahead, spare, gifts, overs>>
  BY <1>1, Scalars
<1>. QED  BY <1>1, <1>2, <1>3, <1>4, <1>5, <1>7, <1>8, <1>9, <1>10, ImChanges

\* The record that prolongImExtra sets.
LEMMA Prolonging ==
    ASSUME IInv, NEW a \in Accounts, Exists(a), UNCHANGED <<now, phase>>, prolongImExtra(a)
    PROVE  LET until == profile[a].imUntil + Month
           IN  /\ profile[a].imExtra > 0 /\ profile[a].imUntil # NoTime
               /\ profile[a].imExtra \in Nat /\ profile[a].imAuto \in BOOLEAN
               /\ until \in Nat /\ until \in Times /\ until # NoTime
               /\ a \notin gifts => until > now
               /\ SetProfile(a, WithIm(profile[a], profile[a].imExtra, until, profile[a].imAuto))
               /\ tasks' = Put(Remove(tasks, profile[a].imUntil, "refresh-im", a),
                               Timer(until, "refresh-im", a))
               /\ balance' \in [Accounts -> Nat]
               /\ profile' \in [Accounts -> Profile \cup {NoProfile}]
               /\ Exists(a)' /\ \A b \in Accounts : Exists(b) => Exists(b)'
<1> DEFINE p == profile[a]  until == p.imUntil + Month
<1>1. /\ p.imExtra # 0 /\ p.imUntil # NoTime /\ Pay(a, ImPrice(p))
      /\ SetProfile(a, [p EXCEPT !.imUntil = @ + Month])
      /\ tasks' = Put(Remove(tasks, p.imUntil, "refresh-im", a), Timer(until, "refresh-im", a))
  BY DEF prolongImExtra, scheduleRenewIm, WithoutIm
<1>2. /\ p \in Profile /\ p.imExtra \in Nat /\ p.imAuto \in BOOLEAN
      /\ p.imUntil \in Nat /\ (a \notin gifts => until > now)
  BY <1>1, Fields, ImKnown
<1>3. now \in Nat /\ Month \in Nat /\ Month >= 1 /\ GbPrice \in Nat
  BY Scalars
<1>4. until \in Nat /\ until \in Times /\ until # NoTime /\ p.imExtra > 0
  BY <1>1, <1>2, <1>3, ProfileAssumption DEF Times
<1>5. SetProfile(a, WithIm(p, p.imExtra, until, p.imAuto))
  <2>1. [p EXCEPT !.imUntil = @ + Month] = WithIm(p, p.imExtra, until, p.imAuto)
    BY <1>2 DEF Profile, WithIm
  <2>. QED  BY <1>1, <2>1
<1>6. balance' \in [Accounts -> Nat]
  <2> DEFINE price == ImPrice(p)
  <2>1. price \in Int
    BY <1>2, <1>3 DEF ImPrice
  <2>2. Pay(a, price)
    BY <1>1
  <2>. HIDE DEF price
  <2>. QED  BY <2>1, <2>2, Paying
<1>. HIDE DEF until
<1>7. /\ profile' \in [Accounts -> Profile \cup {NoProfile}]
      /\ Exists(a)' /\ \A b \in Accounts : Exists(b) => Exists(b)'
  <2>1. WithIm(p, p.imExtra, until, p.imAuto) \in Profile
    BY <1>2, <1>4, WithImTyped
  <2>. HIDE DEF p
  <2>. QED  BY <1>5, <2>1, Setting
<1>. QED  BY <1>1, <1>2, <1>4, <1>5, <1>6, <1>7 DEF until

LEMMA ProlongImExtraSafe ==
    ASSUME IInv, NEW a \in Accounts, ProlongImExtra(a)
    PROVE  IInv'
<1> DEFINE p == profile[a]
           until == p.imUntil + Month
<1>1. /\ Tx /\ Exists(a) /\ phase = "txs" /\ prolongImExtra(a)
      /\ UNCHANGED <<now, phase, due, index, restarts, ahead, spare, gifts, overs>>
  BY DEF ProlongImExtra, Tx, history, marks
<1>2. /\ p.imExtra > 0 /\ p.imUntil # NoTime /\ p.imExtra \in Nat /\ p.imAuto \in BOOLEAN
      /\ until \in Nat /\ until \in Times /\ until # NoTime
      /\ a \notin gifts => until > now
      /\ SetProfile(a, WithIm(p, p.imExtra, until, p.imAuto))
      /\ tasks' = Put(Remove(tasks, p.imUntil, "refresh-im", a), Timer(until, "refresh-im", a))
      /\ balance' \in [Accounts -> Nat]
      /\ profile' \in [Accounts -> Profile \cup {NoProfile}]
      /\ Exists(a)' /\ \A b \in Accounts : Exists(b) => Exists(b)'
  BY <1>1, Prolonging
<1>3. a \notin gifts => TimesOf("refresh-im", a) = {p.imUntil} \ {NoTime}
  BY <1>1, ImKnown
<1>. HIDE DEF until
<1>4. /\ TimesOf("refresh-im", a)' = (TimesOf("refresh-im", a) \ {p.imUntil}) \cup {until}
      /\ \A g \in Handlers, b \in Accounts :
           g # "refresh-im" \/ b # a => TimesOf(g, b)' = TimesOf(g, b)
      /\ TasksInv' /\ tasks' \subseteq TaskType /\ due' \subseteq TaskType
  <2> DEFINE come == {until}  gone == {p.imUntil}
  <2>1. tasks' = Rescheduled("refresh-im", a, gone, come)
    BY <1>2 DEF Put, Remove, Matching, Rescheduled
  <2>2. come \in SUBSET Nat /\ (a \notin gifts => \A n \in come : n > now) /\ "refresh-im" \in Handlers
    BY <1>2 DEF Handlers
  <2>3. UNCHANGED <<now, phase, due, gifts>>
    BY <1>1
  <2>. HIDE DEF come, gone
  <2>4. /\ TimesOf("refresh-im", a)' = (TimesOf("refresh-im", a) \ gone) \cup come
        /\ \A g \in Handlers, b \in Accounts :
             g # "refresh-im" \/ b # a => TimesOf(g, b)' = TimesOf(g, b)
        /\ TasksInv' /\ tasks' \subseteq TaskType /\ due' \subseteq TaskType
    BY <1>1, <1>2, <2>1, <2>2, <2>3, Scheduled
  <2>. QED  BY <2>4 DEF come, gone
<1>5. a \notin gifts => TimesOf("refresh-im", a)' = {until} \ {NoTime}
  BY <1>2, <1>3, <1>4
<1>6. txs' \in txs..MaxTxs
  BY <1>1, Scalars DEF Tx
<1>7. UNCHANGED <<now, phase, index, restarts, ahead, spare, gifts, overs>>
  BY <1>1
<1>. QED  BY <1>1, <1>2, <1>4, <1>5, <1>6, <1>7, ImChanges

LEMMA AutoProlongSafe ==
    ASSUME IInv, NEW t \in due, AutoProlong(t)
    PROVE  IInv'
<1> DEFINE a == t.data
           p == profile[a]
           until == p.imUntil + Month
<1>1. /\ Hook(t) /\ t.handler = "refresh-im" /\ prolongImExtra(a)
      /\ UNCHANGED <<now, phase, index, txs, restarts, ahead, spare, gifts, overs>>
  BY DEF AutoProlong, history, marks
<1>2. /\ phase = "pass" /\ due' = due \ {t} /\ a \in Accounts /\ Exists(a)
      /\ t.time \in Nat /\ t.time <= now /\ t.time \in TimesOf("refresh-im", a)
  BY <1>1, Hooked
<1>3. /\ p.imExtra > 0 /\ p.imUntil # NoTime /\ p.imExtra \in Nat /\ p.imAuto \in BOOLEAN
      /\ until \in Nat /\ until \in Times /\ until # NoTime
      /\ a \notin gifts => until > now
      /\ SetProfile(a, WithIm(p, p.imExtra, until, p.imAuto))
      /\ tasks' = Put(Remove(tasks, p.imUntil, "refresh-im", a), Timer(until, "refresh-im", a))
      /\ balance' \in [Accounts -> Nat]
      /\ profile' \in [Accounts -> Profile \cup {NoProfile}]
      /\ Exists(a)' /\ \A b \in Accounts : Exists(b) => Exists(b)'
  <2>. HIDE DEF a
  <2>. QED  BY <1>1, <1>2, Prolonging
<1>4. a \notin gifts => TimesOf("refresh-im", a) = {p.imUntil} \ {NoTime} /\ t.time = p.imUntil
  BY <1>2, ImKnown
<1>. HIDE DEF until
<1>5. ASSUME a \notin gifts
      PROVE  /\ TimesOf("refresh-im", a)' = {until}
             /\ TasksInv' /\ tasks' \subseteq TaskType /\ due' \subseteq TaskType
  <2>1. Remove(tasks, p.imUntil, "refresh-im", a) = tasks
    <3>1. \A u \in tasks : ~(u.time = p.imUntil /\ u.data = a)
      <4>1. now \in Nat
        BY Scalars
      <4>. QED  BY <1>2, <1>4, <1>5, <4>1 DEF IInv, TasksInv
    <3>. QED  BY <3>1 DEF Remove, Matching
  <2> DEFINE come == {until}
  <2>2. tasks' = tasks \cup {Timer(n, t.handler, t.data) : n \in come}
    BY <1>1, <1>3, <2>1 DEF Put
  <2>3. come \in SUBSET Nat /\ \A n \in come : n > now
    BY <1>3, <1>5
  <2>4. UNCHANGED <<now, phase, gifts>>
    BY <1>1
  <2>5. /\ t.data \notin gifts =>
             TimesOf(t.handler, t.data)' = (TimesOf(t.handler, t.data) \ {t.time}) \cup come
        /\ TasksInv' /\ tasks' \subseteq TaskType /\ due' \subseteq TaskType
    <3>. HIDE DEF come
    <3>. QED  BY <1>2, <1>3, <2>2, <2>3, <2>4, Ran
  <2>6. (TimesOf("refresh-im", a) \ {t.time}) \cup come = {until}
    BY <1>4, <1>5
  <2>. QED  BY <1>1, <1>5, <2>5, <2>6
<1>6. \A g \in Handlers, b \in Accounts :
        g # "refresh-im" \/ b # a => TimesOf(g, b)' = TimesOf(g, b)
  <2>1. \A u : ~(u.handler = "refresh-im" /\ u.data = a) =>
               (u \in (tasks \cup due)' <=> u \in tasks \cup due)
    <3>1. t.handler = "refresh-im" /\ t.data = a
      BY <1>1
    <3>2. /\ due' = due \ {t}
          /\ tasks' = {u \in tasks : ~(u.handler = "refresh-im" /\ u.time = p.imUntil /\ u.data = a)}
                        \cup {Timer(until, "refresh-im", a)}
      BY <1>2, <1>3 DEF Put, Remove, Matching
    <3>3. /\ Timer(until, "refresh-im", a).handler = "refresh-im"
          /\ Timer(until, "refresh-im", a).data = a
      BY DEF Timer
    <3>. HIDE DEF a, p
    <3>. QED  BY <3>1, <3>2, <3>3
  <2>. HIDE DEF a
  <2>. QED  BY <2>1, OtherTimes
<1>7. TasksInv' /\ tasks' \subseteq TaskType /\ due' \subseteq TaskType
  <2>1. CASE a \notin gifts
    BY <1>5, <2>1
  <2>2. CASE a \in gifts
    <3> DEFINE come == {until}
    <3>1. /\ tasks' \subseteq tasks \cup {Timer(n, "refresh-im", a) : n \in come}
          /\ due' \subseteq due
      BY <1>2, <1>3 DEF Put, Remove, Matching
    <3>2. /\ come \in SUBSET Nat /\ "refresh-im" \in Handlers /\ phase # "genesis"
          /\ UNCHANGED <<now, phase>> /\ gifts \subseteq gifts'
      BY <1>1, <1>2, <1>3 DEF Handlers
    <3>. HIDE DEF a, come
    <3>. QED  BY <1>2, <1>3, <2>2, <3>1, <3>2, TasksChange
  <2>. QED  BY <2>1, <2>2
<1>8. a \notin gifts => TimesOf("refresh-im", a)' = {until} \ {NoTime}
  BY <1>3, <1>5
<1>9. txs' \in txs..MaxTxs
  BY <1>1 DEF IInv, TypeOK
<1>10. UNCHANGED <<now, phase, index, restarts, ahead, spare, gifts, overs>>
  BY <1>1
<1>. HIDE DEF a
<1>. QED  BY <1>2, <1>3, <1>6, <1>7, <1>8, <1>9, <1>10, ImChanges

LEMMA ExpireImSafe ==
    ASSUME IInv, NEW t \in due, ExpireIm(t)
    PROVE  IInv'
<1> DEFINE a == t.data
           p == profile[a]
           fee == Min({TxFee, ImPrice(p)})
           tried == p.imAuto /\ p.imExtra # 0 /\ p.imUntil # NoTime
<1>1. /\ Hook(t) /\ t.handler = "refresh-im"
      /\ balance' = [balance EXCEPT ![a] = IF tried /\ @ >= fee THEN @ - fee ELSE @]
      /\ SetProfile(a, [p EXCEPT !.imExtra = 0, !.imUntil = NoTime, !.imAuto = FALSE])
      /\ UNCHANGED <<now, phase, tasks, index, txs, restarts, ahead, spare, gifts, overs>>
  BY DEF ExpireIm, history, marks
<1>2. /\ phase = "pass" /\ due' = due \ {t} /\ a \in Accounts /\ Exists(a)
      /\ t.time \in TimesOf("refresh-im", a)
  BY <1>1, Hooked
<1>3. /\ p \in Profile /\ p.imExtra \in Nat
      /\ a \notin gifts =>
           TimesOf("refresh-im", a) = {p.imUntil} \ {NoTime} /\ t.time = p.imUntil
  BY <1>2, Fields, ImKnown
<1>4. fee \in Int
  <2> DEFINE price == ImPrice(p)
  <2>1. TxFee \in Int /\ price \in Int
    BY <1>3, Scalars, ProfileAssumption DEF ImPrice
  <2>. HIDE DEF price
  <2>. QED  BY ONLY <2>1, MinPair DEF price
<1>5. balance' \in [Accounts -> Nat]
  <2>1. balance \in [Accounts -> Nat] /\ balance[a] \in Nat
    BY <1>2, Scalars
  <2>. HIDE DEF fee, tried
  <2>2. (IF tried /\ balance[a] >= fee THEN balance[a] - fee ELSE balance[a]) \in Nat
    BY <1>4, <2>1
  <2>. QED  BY <1>1, <2>1, <2>2
<1>6. SetProfile(a, WithIm(p, 0, NoTime, FALSE))
  BY <1>1 DEF WithIm
<1>7. FALSE \in BOOLEAN /\ 0 \in Nat /\ NoTime \in Times
  BY DEF Times
<1>8. /\ profile' \in [Accounts -> Profile \cup {NoProfile}]
      /\ Exists(a)' /\ \A b \in Accounts : Exists(b) => Exists(b)'
  <2>1. WithIm(p, 0, NoTime, FALSE) \in Profile
    BY <1>3, <1>7, WithImTyped
  <2>. HIDE DEF p
  <2>. QED  BY <1>1, <1>2, <1>6, <2>1, Setting
<1>9. /\ a \notin gifts => TimesOf("refresh-im", a)' = {}
      /\ \A g \in Handlers, b \in Accounts :
           g # "refresh-im" \/ b # a => TimesOf(g, b)' = TimesOf(g, b)
      /\ TasksInv' /\ tasks' \subseteq TaskType /\ due' \subseteq TaskType
  <2>1. tasks' = tasks \cup {Timer(k, t.handler, t.data) : k \in {}}
    BY <1>1
  <2>2. {} \in SUBSET Nat /\ \A k \in {} : k > now
    OBVIOUS
  <2>3. UNCHANGED <<now, phase, gifts>>
    BY <1>1
  <2>4. /\ t.data \notin gifts =>
             TimesOf(t.handler, t.data)' = (TimesOf(t.handler, t.data) \ {t.time}) \cup {}
        /\ \A g \in Handlers, b \in Accounts :
             g # t.handler \/ b # t.data => TimesOf(g, b)' = TimesOf(g, b)
        /\ TasksInv' /\ tasks' \subseteq TaskType /\ due' \subseteq TaskType
    BY <1>2, <1>8, <2>1, <2>2, <2>3, Ran
  <2>. QED  BY <1>1, <1>3, <2>4
<1>10. a \notin gifts => TimesOf("refresh-im", a)' = {NoTime} \ {NoTime}
  BY <1>9
<1>11. txs' \in txs..MaxTxs
  BY <1>1 DEF IInv, TypeOK
<1>12. UNCHANGED <<now, phase, index, restarts, ahead, spare, gifts, overs>>
  BY <1>1
<1> DEFINE extra == 0
<1>13. extra \in Nat /\ ~(extra > 0)
  OBVIOUS
<1>14. SetProfile(a, WithIm(p, extra, NoTime, FALSE))
  BY <1>6, Zenon
<1>. HIDE DEF a, extra
<1>. QED  BY <1>2, <1>5, <1>7, <1>9, <1>10, <1>11, <1>12, <1>13, <1>14, ImChanges

-----------------------------------------------------------------------------
(* Blocks and restarts.                                                    *)

LEMMA BeginBlockSafe ==
    ASSUME IInv, BeginBlock
    PROVE  IInv'
<1>1. /\ phase # "pass" /\ phase' = "pass"
      /\ due' = DueAt(tasks, now') /\ tasks' = tasks \ due'
      /\ UNCHANGED <<profile, index, active, balance, txs, restarts, ahead, spare, gifts, overs>>
  BY DEF BeginBlock, history, marks
<1>2. now \in Nat /\ Month \in Nat /\ Month >= 1 /\ MaxGap \in Nat /\ MaxGap < Month
      /\ MaxNow \in Nat /\ now \in 0..MaxNow
  BY Scalars, ProfileAssumption DEF IInv, TypeOK
<1>3. /\ now' \in Nat /\ now' \in 0..MaxNow /\ now <= now'
      /\ \/ phase = "txs" /\ now' <= now + MaxGap
         \/ phase = "genesis" /\ now' = now
  <2> DEFINE gap == now + MaxGap
  <2>1. gap \in Int /\ MaxNow \in Int
    BY <1>2
  <2>2. Min({gap, MaxNow}) \in Int /\ Min({gap, MaxNow}) <= gap /\ Min({gap, MaxNow}) <= MaxNow
    <3>. HIDE DEF gap
    <3>. QED  BY <2>1, MinPair
  <2>3. \/ phase = "txs" /\ now' \in (now + 1)..Min({gap, MaxNow})
        \/ phase = "genesis" /\ now' = now
    BY DEF BeginBlock
  <2>. HIDE DEF gap
  <2>4. CASE phase = "txs" /\ now' \in (now + 1)..Min({gap, MaxNow})
    <3> DEFINE m == Min({gap, MaxNow})
    <3>1. m \in Int /\ m <= gap /\ m <= MaxNow /\ now' \in (now + 1)..m
      BY <2>2, <2>4
    <3>. HIDE DEF m
    <3>2. now' \in Int /\ now' <= gap /\ now' <= MaxNow /\ now <= now'
      BY <1>2, <2>1, <3>1
    <3>3. phase = "txs"
      BY <2>4
    <3>4. now' <= now + MaxGap
      BY <3>2 DEF gap
    <3>5. now' \in Nat /\ now' \in 0..MaxNow /\ now <= now'
      BY <1>2, <3>2
    <3>. QED  BY <3>3, <3>4, <3>5
  <2>5. CASE phase = "genesis" /\ now' = now
    BY <1>2, <2>5
  <2>. QED  BY <2>3, <2>4, <2>5
<1>4. due = {}
  BY <1>1 DEF IInv, TasksInv
<1>5. (tasks \cup due)' = tasks \cup due /\ due' \subseteq tasks /\ tasks' \subseteq tasks
  BY <1>1, <1>4 DEF DueAt
<1>6. \A g, b : TimesOf(g, b)' = TimesOf(g, b)
  BY <1>5, TimesStay
<1>7. TasksInv'
  <2>1. ASSUME NEW t \in tasks PROVE t.time \in Nat /\ t.id = 0 /\ Exists(t.data)'
                                     /\ (t.data \notin gifts => t.time + Month > now')
    <3>1. /\ t.time \in Nat /\ t.id = 0 /\ Exists(t.data)
          /\ t.data \notin gifts => t.time + Month > now
      BY Waits
    <3>2. phase = "txs" /\ t.data \notin gifts => t.time > now
      BY DEF IInv, TasksInv
    <3>. QED  BY <1>1, <1>2, <1>3, <3>1, <3>2 DEF Exists
  <2>2. \A t \in tasks' : t.time > now'
    BY <1>1, <1>3, <2>1 DEF DueAt
  <2>3. \A t \in due' : t.time <= now'
    BY <1>1 DEF DueAt
  <2>. QED  BY <1>1, <1>5, <2>1, <2>2, <2>3 DEF TasksInv
<1>8. ASSUME NEW a \in Accounts PROVE AccountOK(a)'
  <2>1. AccountOK(a)
    BY DEF IInv
  <2>2. LateOK(a)'
    BY <1>1, <1>6, <2>1 DEF AccountOK, LateOK, Exists
  <2>3. ASSUME a \notin gifts PROVE BuyerOK(a)'
    <3>1. BuyerOK(a)
      BY <2>1, <2>3 DEF AccountOK
    <3>2. ActiveOK(a)'
      <4>1. IsActive(profile[a])' => IsActive(profile[a])
        <5>1. Exists(a) /\ profile[a].activeUntil # NoTime => profile[a].activeUntil \in Nat
          BY Fields
        <5>. QED  BY <1>1, <1>2, <1>3, <5>1 DEF IsActive, IsActiveAt, Exists
      <4>. QED  BY <1>1, <3>1, <4>1 DEF BuyerOK, ActiveOK
    <3>3. MonthsOK(a)'
      <4> DEFINE first == profile[a].activeUntil - (ahead[a] + 1) * Month
      <4>1. CASE TimesOf("refresh", a) = {}
        BY <1>1, <1>6, <3>1, <4>1 DEF BuyerOK, MonthsOK
      <4>2. CASE TimesOf("refresh", a) # {}
        <5>1. /\ Exists(a) /\ profile[a].activeUntil \in Nat /\ ahead[a] \in Nat
              /\ TimesOf("refresh", a) = MonthsTo(profile[a].activeUntil, ahead[a])
              /\ first <= now
          BY <2>3, <4>2, MonthsKnown
        <5>2. first \in Int
          BY <1>2, <5>1
        <5>3. first' = first
          BY <1>1
        <5>. HIDE DEF first
        <5>4. first' <= now'
          BY <1>2, <1>3, <5>1, <5>2, <5>3
        <5>5. profile[a].activeUntil # NoTime
          BY <5>1, ProfileAssumption
        <5>. QED  BY <1>1, <1>6, <4>2, <5>1, <5>4, <5>5 DEF MonthsOK, Exists, first
      <4>. QED  BY <4>1, <4>2
    <3>4. ImOK(a)'
      BY <1>1, <1>6, <3>1 DEF BuyerOK, ImOK, Exists
    <3>. QED  BY <3>2, <3>3, <3>4 DEF BuyerOK
  <2>4. ASSUME a \notin gifts \cup overs PROVE TrafficOK(a)' /\ LimitsOK(a)'
    BY <1>1, <2>1, <2>4 DEF AccountOK, TrafficOK, LimitsOK, Exists
  <2>. QED  BY <1>1, <2>2, <2>3, <2>4 DEF AccountOK
<1>9. NicknamesIndexed'
  BY <1>1, SameNicknames DEF Exists
<1>10. TypeOK' /\ Marked'
  BY <1>1, <1>3, <1>5 DEF IInv, TypeOK, Marked, Exists
<1>. QED  BY <1>7, <1>8, <1>9, <1>10 DEF IInv

\* After the pass all that waits lies ahead.
LEMMA EndPassSafe ==
    ASSUME IInv, EndPass
    PROVE  IInv'
<1>1. /\ phase = "pass" /\ due = {} /\ phase' = "txs"
      /\ UNCHANGED <<now, due, tasks, profile, index, active, balance, txs, restarts, ahead, spare,
                     gifts, overs>>
  BY DEF EndPass, history, marks
<1>2. \A g, b : TimesOf(g, b)' = TimesOf(g, b)
  BY <1>1, TimesStay
<1>3. ASSUME NEW h, NEW a, a \notin gifts, NEW x \in TimesOf(h, a) PROVE x > now
  <2>1. PICK t \in tasks : t.time = x /\ t.data = a
    BY <1>1 DEF TimesOf
  <2>. QED  BY <1>1, <1>3, <2>1 DEF IInv, TasksInv
<1>4. TasksInv'
  BY <1>1 DEF IInv, TasksInv, Exists
<1>5. ASSUME NEW a \in Accounts PROVE AccountOK(a)'
  <2>1. AccountOK(a)
    BY DEF IInv
  <2>2. LateOK(a)'
    BY <1>1, <1>2, <2>1 DEF AccountOK, LateOK, Exists
  <2>3. ASSUME a \notin gifts PROVE BuyerOK(a)'
    <3>1. BuyerOK(a)
      BY <2>1, <2>3 DEF AccountOK
    <3>2. ActiveOK(a)'
      <4>1. ASSUME active[a] PROVE IsActive(profile[a])
        <5>1. TimesOf("refresh", a) # {}
          BY <3>1, <4>1 DEF BuyerOK, MonthsOK
        <5>2. Exists(a) /\ profile[a].activeUntil \in Nat /\ profile[a].activeUntil > now
          BY <1>3, <2>3, <5>1, MonthsKnown
        <5>3. profile[a].activeUntil # NoTime
          BY <5>2, ProfileAssumption
        <5>. QED  BY <5>2, <5>3, Fields
      <4>2. IsActive(profile[a])' <=> IsActive(profile[a])
        BY <1>1 DEF IsActive, IsActiveAt
      <4>. QED  BY <1>1, <3>1, <4>1, <4>2 DEF BuyerOK, ActiveOK
    <3>3. MonthsOK(a)'
      BY <1>1, <1>2, <3>1 DEF BuyerOK, MonthsOK, Exists
    <3>4. ImOK(a)'
      <4>1. ASSUME Exists(a), profile[a].imUntil # NoTime PROVE profile[a].imUntil > now
        BY <1>3, <2>3, <3>1, <4>1 DEF BuyerOK, ImOK
      <4>. QED  BY <1>1, <1>2, <3>1, <4>1 DEF BuyerOK, ImOK, Exists
    <3>. QED  BY <3>2, <3>3, <3>4 DEF BuyerOK
  <2>4. ASSUME a \notin gifts \cup overs PROVE TrafficOK(a)' /\ LimitsOK(a)'
    BY <1>1, <2>1, <2>4 DEF AccountOK, TrafficOK, LimitsOK, Exists
  <2>. QED  BY <1>1, <2>2, <2>3, <2>4 DEF AccountOK
<1>6. NicknamesIndexed'
  BY <1>1, SameNicknames DEF Exists
<1>7. TypeOK' /\ Marked'
  BY <1>1 DEF IInv, TypeOK, Marked, Exists
<1>. QED  BY <1>4, <1>5, <1>6, <1>7 DEF IInv

\* The import makes the index and the activity anew.
LEMMA RestartSafe ==
    ASSUME IInv, Restart
    PROVE  IInv'
<1> DEFINE named == {a \in Accounts : Exists(a) /\ Trimmed[profile[a].nickname] # NoName}
           KeyOf(a) == Trimmed[profile[a].nickname]
           keys == {KeyOf(a) : a \in named}
<1>1. /\ phase = "txs" /\ phase' = "genesis" /\ restarts < MaxRestarts
      /\ restarts' = restarts + 1
      /\ index' = [k \in keys |-> CHOOSE a \in named : KeyOf(a) = k]
      /\ active' = [a \in Accounts |-> IsActiveAt(profile[a], now')]
      /\ UNCHANGED <<due, tasks, profile, balance, txs, ahead, spare, gifts, overs>>
  BY DEF Restart, history, marks
<1>2. now \in Nat /\ Month \in Nat /\ Month >= 1 /\ MaxGap \in Nat /\ MaxGap < Month
      /\ MaxNow \in Nat /\ now \in 0..MaxNow
  BY Scalars, ProfileAssumption DEF IInv, TypeOK
<1>3. now' \in 0..MaxNow /\ now' \in Nat /\ now <= now' /\ now' <= now + MaxGap
  <2> DEFINE gap == now + MaxGap  m == Min({gap, MaxNow})
  <2>1. gap \in Int /\ MaxNow \in Int
    BY <1>2
  <2>2. m \in Int /\ m <= gap /\ m <= MaxNow
    <3>. HIDE DEF gap
    <3>. QED  BY <2>1, MinPair
  <2>3. now' \in now..m
    BY DEF Restart
  <2>. HIDE DEF m
  <2>. QED  BY <1>2, <2>2, <2>3
<1>4. due = {} /\ \A t \in tasks : t.data \notin gifts => t.time > now
  BY <1>1 DEF IInv, TasksInv
<1>5. \A g, b : TimesOf(g, b)' = TimesOf(g, b)
  BY <1>1, TimesStay
<1>6. TasksInv'
  <2>1. ASSUME NEW t \in tasks PROVE t.id = 0 /\ Exists(t.data)'
                                     /\ (t.data \notin gifts => t.time + Month > now')
    <3>1. t.time \in Nat /\ t.id = 0 /\ Exists(t.data) /\ (t.data \notin gifts => t.time > now)
      BY <1>4, Waits
    <3>. QED  BY <1>1, <1>2, <1>3, <3>1 DEF Exists
  <2>. QED  BY <1>1, <1>4, <2>1 DEF TasksInv
<1>7. ASSUME NEW a \in Accounts PROVE active'[a] = IsActive(profile[a])'
  BY <1>1 DEF IsActive
<1>8. ASSUME NEW a \in Accounts PROVE AccountOK(a)'
  <2>1. AccountOK(a)
    BY DEF IInv
  <2>2. LateOK(a)'
    BY <1>1, <1>5, <2>1 DEF AccountOK, LateOK, Exists
  <2>3. ASSUME a \notin gifts PROVE BuyerOK(a)'
    <3>1. BuyerOK(a)
      BY <2>1, <2>3 DEF AccountOK
    <3>2. ActiveOK(a)'
      BY <1>7 DEF ActiveOK
    <3>3. MonthsOK(a)'
      <4> DEFINE first == profile[a].activeUntil - (ahead[a] + 1) * Month
      <4>1. CASE TimesOf("refresh", a) = {}
        <5>1. ahead[a] = 0 /\ ~active[a]
          BY <3>1, <4>1 DEF BuyerOK, MonthsOK
        <5>2. ~IsActive(profile[a])
          BY <3>1, <5>1 DEF BuyerOK, ActiveOK
        <5>3. ~IsActive(profile[a])'
          <6>1. Exists(a) /\ profile[a].activeUntil # NoTime => profile[a].activeUntil \in Nat
            BY Fields
          <6>. QED  BY <1>1, <1>2, <1>3, <5>2, <6>1 DEF IsActive, IsActiveAt, Exists
        <5>. QED  BY <1>1, <1>5, <1>7, <4>1, <5>1, <5>3 DEF MonthsOK
      <4>2. CASE TimesOf("refresh", a) # {}
        <5>1. /\ Exists(a) /\ profile[a].activeUntil \in Nat /\ ahead[a] \in Nat
              /\ TimesOf("refresh", a) = MonthsTo(profile[a].activeUntil, ahead[a])
              /\ first <= now
          BY <2>3, <4>2, MonthsKnown
        <5>2. first \in Int
          BY <1>2, <5>1
        <5>3. first' = first
          BY <1>1
        <5>. HIDE DEF first
        <5>4. first' <= now'
          BY <1>2, <1>3, <5>1, <5>2, <5>3
        <5>5. profile[a].activeUntil # NoTime
          BY <5>1, ProfileAssumption
        <5>. QED  BY <1>1, <1>5, <4>2, <5>1, <5>4, <5>5 DEF MonthsOK, Exists, first
      <4>. QED  BY <4>1, <4>2
    <3>4. ImOK(a)'
      BY <1>1, <1>5, <3>1 DEF BuyerOK, ImOK, Exists
    <3>. QED  BY <3>2, <3>3, <3>4 DEF BuyerOK
  <2>4. ASSUME a \notin gifts \cup overs PROVE TrafficOK(a)' /\ LimitsOK(a)'
    BY <1>1, <2>1, <2>4 DEF AccountOK, TrafficOK, LimitsOK, Exists
  <2>. QED  BY <1>1, <2>2, <2>3, <2>4 DEF AccountOK
<1>9. \A a, b \in named : KeyOf(a) = KeyOf(b) => a = b
  BY DEF IInv, NicknamesIndexed
<1>. HIDE DEF KeyOf
<1>10. ASSUME NEW k \in keys PROVE index'[k] \in named /\ KeyOf(index'[k]) = k
  <2>1. PICK a \in named : KeyOf(a) = k
    BY <1>10
  <2>2. index'[k] = CHOOSE b \in named : KeyOf(b) = k
    BY <1>1, <1>10
  <2>. HIDE DEF named
  <2>. QED  BY <2>1, <2>2
<1>11. DOMAIN index' = keys
  BY <1>1
<1>12. ASSUME NEW a \in named PROVE KeyOf(a) \in DOMAIN index' /\ index'[KeyOf(a)] = a
  <2>1. KeyOf(a) \in keys
    OBVIOUS
  <2>2. index'[KeyOf(a)] \in named /\ KeyOf(index'[KeyOf(a)]) = KeyOf(a)
    BY <1>10, <2>1
  <2>. HIDE DEF named, keys
  <2>. QED  BY <1>9, <1>11, <2>1, <2>2
<1>13. NicknamesIndexed'
  <2>1. \A a \in Accounts : Exists(a)' /\ Trimmed[profile'[a].nickname] # NoName => a \in named
    BY <1>1 DEF Exists
  <2>2. \A a \in Accounts : Trimmed[profile'[a].nickname] = KeyOf(a)
    BY <1>1 DEF KeyOf
  <2>. HIDE DEF named
  <2>. QED  BY <1>12, <2>1, <2>2 DEF NicknamesIndexed
<1>14. TypeOK'
  <2>1. \A k \in DOMAIN index' : index'[k] \in Accounts
    BY <1>10, <1>11
  <2>2. active' \in [Accounts -> BOOLEAN]
    <3>1. \A a \in Accounts : IsActiveAt(profile[a], now') \in BOOLEAN
      BY Zenon DEF IsActiveAt
    <3>. QED  BY <1>1, <3>1, Zenon
  <2>3. restarts' \in 0..MaxRestarts
    <3>1. restarts \in 0..MaxRestarts /\ MaxRestarts \in Nat
      BY ProfileAssumption DEF IInv, TypeOK
    <3>. QED  BY <1>1, <3>1
  <2>. QED  BY <1>1, <1>3, <2>1, <2>2, <2>3 DEF IInv, TypeOK
<1>15. Marked'
  BY <1>1 DEF IInv, Marked, Exists
<1>. QED  BY <1>6, <1>8, <1>13, <1>14, <1>15 DEF IInv

-----------------------------------------------------------------------------
(* The invariant, and what follows from it.                                *)

\* A chain starts with accounts that have bought nothing.
LEMMA InitIInv == Init => IInv
<1> SUFFICES ASSUME Init PROVE IInv
  OBVIOUS
<1>1. /\ now = 0 /\ phase = "genesis" /\ due = {} /\ tasks = {} /\ index = <<>>
      /\ profile = [a \in Accounts |-> IF a \in Founders THEN Blank ELSE NoProfile]
      /\ active = [a \in Accounts |-> FALSE] /\ balance \in Wallets
      /\ txs = 0 /\ restarts = 0
      /\ ahead = [a \in Accounts |-> 0] /\ spare = [a \in Accounts |-> 0]
      /\ gifts = {} /\ overs = {}
  BY DEF Init
<1>2. Blank \in Profile
  BY ProfileAssumption DEF Blank, Profile, Times
<1>3. \A a \in Accounts : Exists(a) => profile[a] = Blank
  BY <1>1 DEF Exists
<1>4. \A h, a : TimesOf(h, a) = {}
  BY <1>1 DEF TimesOf
<1>5. TypeOK
  <2>1. profile \in [Accounts -> Profile \cup {NoProfile}]
    BY <1>1, <1>2
  <2>2. /\ now \in 0..MaxNow /\ txs \in 0..MaxTxs /\ restarts \in 0..MaxRestarts
        /\ balance \in [Accounts -> Nat]
    BY <1>1, ProfileAssumption
  <2>3. ahead \in [Accounts -> Int] /\ spare \in [Accounts -> Int]
    BY <1>1
  <2>4. active \in [Accounts -> BOOLEAN]
    <3>1. FALSE \in BOOLEAN
      OBVIOUS
    <3>. QED  BY <1>1, <3>1, Zenon
  <2>5. \A k \in DOMAIN index : index[k] \in Accounts
    BY <1>1
  <2>. QED  BY <1>1, <2>1, <2>2, <2>3, <2>4, <2>5 DEF TypeOK
<1>6. TasksInv
  BY <1>1 DEF TasksInv
<1>7. NicknamesIndexed
  BY <1>3, ProfileAssumption DEF NicknamesIndexed, Blank
<1>8. ASSUME NEW a \in Accounts PROVE AccountOK(a)
  <2>1. ~active[a] /\ ahead[a] = 0 /\ spare[a] = 0 /\ txs = 0
    BY <1>1
  <2>2. ~IsActive(profile[a])
    BY <1>3 DEF IsActive, IsActiveAt, Exists, Blank
  <2>3. ActiveOK(a) /\ MonthsOK(a)
    BY <1>4, <2>1, <2>2 DEF ActiveOK, MonthsOK
  <2>4. TrafficOK(a)
    <3>1. 0 * MaxTxs = 0 /\ Capacity \in Nat
      BY Capacities, ProfileAssumption
    <3>2. \A n \in Nat : 0 * n = 0
      OBVIOUS
    <3>3. 0 * Capacity = 0
      BY ONLY <3>1, <3>2
    <3>4. Exists(a) => profile[a].vpnLimit = 0
      BY <1>3 DEF Blank
    <3>5. spare[a] <= Capacity
      <4>. HIDE DEF Capacity
      <4>. QED  BY <2>1, <3>1
    <3>6. spare[a] * MaxTxs <= txs * Capacity
      <4>. HIDE DEF Capacity
      <4>. QED  BY <2>1, <3>1, <3>3
    <3>. QED  BY <2>1, <3>4, <3>5, <3>6 DEF TrafficOK
  <2>5. ImOK(a)
    BY <1>3, <1>4 DEF ImOK, Blank
  <2>6. LimitsOK(a)
    BY <1>3 DEF LimitsOK, Blank
  <2>7. LateOK(a)
    BY <1>4 DEF LateOK
  <2>. QED  BY <2>3, <2>4, <2>5, <2>6, <2>7 DEF AccountOK, BuyerOK
<1>9. Marked
  BY <1>1 DEF Marked
<1>. QED  BY <1>5, <1>6, <1>7, <1>8, <1>9 DEF IInv

LEMMA PurchaseSafe ==
    ASSUME IInv, NEW a \in Accounts, Purchase(a)
    PROVE  IInv'
<1>1. ASSUME NEW on \in BOOLEAN, NEW im \in BOOLEAN, SetAutoPay(a, on, im) PROVE IInv'
  BY <1>1, SetAutoPaySafe
<1>2. ASSUME NEW gb \in Gbs \cup {0}, PayTariffTx(a, gb) PROVE IInv'
  BY <1>2, PayTariffTxSafe
<1>3. ASSUME NEW gb \in Gbs, BuyStorage(a, gb) PROVE IInv'
  BY <1>3, BuyStorageSafe
<1>4. ASSUME NEW gb \in Gbs, BuyVpn(a, gb) PROVE IInv'
  BY <1>4, BuyVpnSafe
<1>5. ASSUME NEW gb \in Gbs, BuyImStorage(a, gb) PROVE IInv'
  BY <1>5, BuyImStorageSafe
<1>6. ASSUME NEW gb \in Gbs \cup {0}, GiveStorageUp(a, gb) PROVE IInv'
  BY <1>6, GiveStorageUpSafe
<1>7. ASSUME NEW gb \in Gbs \cup {0}, GiveImStorageUp(a, gb) PROVE IInv'
  BY <1>7, GiveImStorageUpSafe
<1>8. ASSUME NEW value \in Readings, SetStorageCurrent(a, value) PROVE IInv'
  <2>1. Exists(a)
    BY <1>8 DEF SetStorageCurrent, SetCurrent
  <2>2. value \in Nat /\ profile[a].storageCurrent \in Nat /\ profile[a].vpnCurrent \in Nat
    BY <2>1, Fields, ProfileAssumption
  <2>. QED  BY <1>8, <2>2, SetCurrentSafe DEF SetStorageCurrent
<1>9. ASSUME NEW value \in Readings, SetVpnCurrent(a, value) PROVE IInv'
  <2>1. Exists(a)
    BY <1>9 DEF SetVpnCurrent, SetCurrent
  <2>2. value \in Nat /\ profile[a].storageCurrent \in Nat /\ profile[a].vpnCurrent \in Nat
    BY <2>1, Fields, ProfileAssumption
  <2>. QED  BY <1>9, <2>2, SetCurrentSafe DEF SetVpnCurrent
<1>10. ASSUME ProlongImExtra(a) PROVE IInv'
  BY <1>10, ProlongImExtraSafe
<1>. QED  BY <1>1, <1>2, <1>3, <1>4, <1>5, <1>6, <1>7, <1>8, <1>9, <1>10 DEF Purchase

LEMMA StepIInv == IInv /\ [Next]_vars => IInv'
<1> SUFFICES ASSUME IInv, [Next]_vars PROVE IInv'
  OBVIOUS
<1>1. ASSUME NEW a \in Accounts, NEW creator \in Accounts, NEW p \in NewProfiles,
             CreateAccount(a, p, creator)
      PROVE  IInv'
  BY <1>1, CreateAccountSafe
<1>2. ASSUME NEW a \in Accounts, NEW name \in Names, Rename(a, name) PROVE IInv'
  BY <1>2, RenameSafe
<1>3. ASSUME NEW a \in Subscribers, Purchase(a) PROVE IInv'
  <2>1. a \in Accounts
    BY ProfileAssumption
  <2>. QED  BY <1>3, <2>1, PurchaseSafe
<1>4. ASSUME NEW t \in due, Perform(t) PROVE IInv'
  BY <1>4, BeginMonthSafe, AutoPaySafe, ExpireSafe, AutoProlongSafe, ExpireImSafe DEF Perform
<1>5. CASE BeginBlock
  BY <1>5, BeginBlockSafe
<1>6. CASE EndPass
  BY <1>6, EndPassSafe
<1>7. CASE Restart
  BY <1>7, RestartSafe
<1>8. CASE UNCHANGED vars
  <2>1. /\ UNCHANGED <<now, phase, due, tasks, profile, index, active, balance, txs, restarts>>
        /\ UNCHANGED <<ahead, spare, gifts, overs>>
    BY <1>8 DEF vars, history, marks
  <2>2. TasksInv' /\ Marked' /\ NicknamesIndexed' /\ TypeOK'
    BY <2>1 DEF IInv, TasksInv, Marked, NicknamesIndexed, TypeOK, Exists
  <2>3. \A h, b : TimesOf(h, b)' = TimesOf(h, b)
    BY <2>1, TimesStay
  <2>4. ASSUME NEW a \in Accounts PROVE AccountOK(a)'
    <3>1. AccountOK(a)
      BY DEF IInv
    <3>. QED  BY <2>1, <2>3, <3>1 DEF AccountOK, LateOK, BuyerOK, ActiveOK, MonthsOK, TrafficOK,
                                      ImOK, LimitsOK, IsActive, IsActiveAt, Exists
  <2>. QED  BY <2>2, <2>4 DEF IInv
<1>. QED  BY <1>1, <1>2, <1>3, <1>4, <1>5, <1>6, <1>7, <1>8 DEF Next

LEMMA Invariance == Spec => []IInv
BY InitIInv, StepIInv, PTL DEF Spec

\* Every state of x/profile and of the schedule has the types of the model: no
\* balance is overdrawn, no limit is negative, whatever is bought and given up, and
\* whatever new accounts and readings bring.
THEOREM ProfileTypeCorrect == Spec => []TypeOK
<1>1. IInv => TypeOK
  BY DEF IInv
<1>. QED  BY <1>1, Invariance, PTL

\* An account that is active for what it has paid has a task for the end of its last
\* month, and none for a later time, whatever was paid and when (scheduleRenew); of
\* an account that was created with something to be paid for, nothing is said.
THEOREM RenewalsArmed == Spec => []RenewalArmed
<1>1. IInv => RenewalArmed
  <2> SUFFICES ASSUME IInv, NEW a \in Accounts \ gifts, Exists(a)
               PROVE  /\ active[a] => profile[a].activeUntil \in TimesOf("refresh", a)
                      /\ \A time \in TimesOf("refresh", a) : time <= profile[a].activeUntil
    BY DEF RenewalArmed, Buyers
  <2>1. active[a] => TimesOf("refresh", a) # {}
    BY DEF IInv, AccountOK, BuyerOK, MonthsOK
  <2>2. active[a] => profile[a].activeUntil \in TimesOf("refresh", a)
    BY <2>1, MonthsKnown
  <2>3. ASSUME NEW time \in TimesOf("refresh", a) PROVE time <= profile[a].activeUntil
    <3>1. /\ profile[a].activeUntil \in Int /\ ahead[a] \in Nat
          /\ time \in MonthsTo(profile[a].activeUntil, ahead[a])
      BY MonthsKnown
    <3>. QED  BY <3>1, MonthsBetween
  <2>. QED  BY <2>2, <2>3
<1>. QED  BY <1>1, Invariance, PTL

\* The activity that x/referral keeps of an account that has only what it bought is
\* that of the profile whenever transactions run (SetProfile, the hook and the import
\* set it separately).
THEOREM ActivitiesAgree == Spec => []ActivityAgrees
<1>1. IInv => ActivityAgrees
  <2> SUFFICES ASSUME IInv, phase = "txs", NEW a \in Accounts \ gifts
               PROVE  active[a] = IsActive(profile[a])
    BY DEF ActivityAgrees, Buyers
  <2>1. active[a] <=> IsActive(profile[a])
    BY DEF IInv, AccountOK, BuyerOK, ActiveOK
  <2>2. IsActive(profile[a]) \in BOOLEAN
    BY Zenon DEF IsActive, IsActiveAt
  <2>3. active[a] \in BOOLEAN
    <3>1. active \in [Accounts -> BOOLEAN]
      BY DEF IInv, TypeOK
    <3>. QED  BY <3>1, Zenon
  <2>. QED  BY <2>1, <2>2, <2>3
<1>. QED  BY <1>1, Invariance, PTL

\* Every month that is paid for is given, once: what is left of the paid time of an
\* account that came without any is the present month and the months ahead
\* (monthlyRoutine, PayTariff).
THEOREM MonthsGivenOnce == Spec => []FreshMonths
<1>1. IInv => FreshMonths
  <2> SUFFICES ASSUME IInv, phase = "txs", NEW a \in Accounts \ gifts, active[a]
               PROVE  /\ ahead[a] * Month < profile[a].activeUntil - now
                      /\ profile[a].activeUntil - now <= (ahead[a] + 1) * Month
    BY DEF FreshMonths, Buyers
  <2> DEFINE u == profile[a].activeUntil  n == ahead[a]
  <2>1. TimesOf("refresh", a) # {}
    BY DEF IInv, AccountOK, BuyerOK, MonthsOK
  <2>2. /\ u \in Nat /\ n \in Nat /\ u - (n + 1) * Month <= now
        /\ u - n * Month \in TimesOf("refresh", a)
    BY <2>1, MonthsKnown
  <2>3. u - n * Month > now
    BY <2>2, TimesKnown
  <2>4. Month \in Nat /\ now \in Nat
    BY Scalars
  <2>. HIDE DEF u, n
  <2>5. n * Month \in Int /\ (n + 1) * Month \in Int
    BY <2>2, <2>4
  <2>6. n * Month < u - now /\ u - now <= (n + 1) * Month
    BY <2>2, <2>3, <2>4, <2>5
  <2>. QED  BY <2>6 DEF u, n
<1>. QED  BY <1>1, Invariance, PTL

\* The extra storage of the messenger that an account has bought, its end and its only
\* task come and go together, through purchases, give-ups and renewals that fail.
THEOREM ExtraStorageArmed == Spec => []ImArmed
<1>1. IInv => ImArmed
  <2> SUFFICES ASSUME IInv, NEW a \in Accounts \ gifts, Exists(a)
               PROVE  LET p == profile[a]
                      IN  /\ TimesOf("refresh-im", a) = {p.imUntil} \ {NoTime}
                          /\ (p.imExtra > 0) = (p.imUntil # NoTime)
                          /\ phase = "txs" /\ p.imUntil # NoTime => p.imUntil > now
    BY DEF ImArmed, Buyers
  <2>. QED  BY ImKnown
<1>. QED  BY <1>1, Invariance, PTL

\* Whoever holds a nickname that is not blank is found by it, whatever renames and
\* restarts there were (ValidateProfileNickname, SetProfile, ImportProfileRecords).
THEOREM NicknamesFound == Spec => []NicknamesIndexed
<1>1. IInv => NicknamesIndexed
  BY DEF IInv
<1>. QED  BY <1>1, Invariance, PTL

\* As long as no reading has exceeded a limit of an account that came without any, no
\* limit falls below what is consumed, and bought traffic lasts until it is used up:
\* the unsigned difference of resetLimits does not wrap around.
THEOREM LimitsAlwaysHold == Spec => []LimitsHold
<1>1. IInv => LimitsHold
  BY DEF IInv, AccountOK, LimitsOK, LimitsHold, Buyers
<1>. QED  BY <1>1, Invariance, PTL
=============================================================================
