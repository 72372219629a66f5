------------------------------ MODULE Referral ------------------------------
(***************************************************************************)
(* x/referral on top of x/schedule: the tree of referrers.  A record keeps *)
(* sums over the lines below its account (line 0 is the account itself):   *)
(* coins, delegated coins and active members.  Accounts fall inactive, are *)
(* compressed (their children move up a line), banished, and come back;    *)
(* with the consent of their referrer they move to another one.  Every     *)
(* change of a record checks the status of its account.                    *)
(*                                                                         *)
(* A handler is an operator from a world to a world: what it writes to the *)
(* store of records, to the index of statuses and to the task store.  The  *)
(* records go through a bunchUpdater, which is committed at the end; tasks *)
(* and index are written at once.  A status check panics on a negative sum *)
(* (math.Int.Uint64): the world is then broken, a transaction is undone    *)
(* and a hook keeps only its tasks and its index.                          *)
(*                                                                         *)
(* Lists of referrals are sets.  The status HERO, which no code gives any  *)
(* more, is left out, so statuses follow each other.  Hooks of other       *)
(* modules on statuses and stakes are those of module Noding.  Tasks of    *)
(* one time run in any order, and equal ones are one: the second does      *)
(* nothing.                                                                *)
(***************************************************************************)
EXTENDS TaskStore, Integers, Sequences, FiniteSetsExt, Functions

CONSTANTS
    Accounts,    \* addresses
    None,        \* the empty address
    Depth,       \* number of lines a record keeps: 10
    CountLimit,  \* counters of active members are kept modulo this: 2^64
    MaxStatus,   \* the highest status; 1 is LUCKY and 0 is UNSPECIFIED
    MinIndexed,  \* the least status kept in the index
    Requirement, \* what a status above LUCKY requires
    Holdings,    \* what an account may own: coins in all, and delegated ones
    Dust,        \* parameter dust_delegation of x/bank
    Price,       \* parameter transition_price
    Tariff,      \* what a month costs, parameter subscription_price of x/profile
    Day, Month,  \* OneDay and OneMonth of x/schedule
    NoTime,      \* the absent time
    Genesis,     \* trees and activity in the genesis file
    MaxGap,      \* most time between two blocks
    MaxNow,      \* bound: time of the last block
    MaxTxs       \* bound: number of transactions and calls of other modules

Lines == 0..Depth
Sums == {"coins", "delegated", "counts"}

\* Delegated coins are part of the coins.
Holding == {h \in [coins : Nat, delegated : Nat] : h.delegated <= h.coins}

\* No account is above itself.
Acyclic(referrer) ==
    \A S \in SUBSET DOMAIN referrer : S # {} => \E a \in S : referrer[a] \notin S

ASSUME ReferralAssumption ==
    /\ None \notin Accounts /\ IsFiniteSet(Accounts)
    /\ Depth \in Nat \ {0} /\ CountLimit \in Nat \ {0}
    /\ MaxStatus \in Nat \ {0} /\ MinIndexed \in 2..MaxStatus
    /\ \A s \in 2..MaxStatus :
         Requirement[s] \in [coins : Nat, lines : Lines, count : Nat, size : Nat,
                             teams : Nat, leg : Nat]
    /\ Holdings \subseteq Holding
    /\ Dust \in Nat /\ Price \in Nat /\ Tariff \in Nat
    /\ Day \in Nat \ {0} /\ Month \in Nat \ {0} /\ NoTime \notin Nat
    /\ MaxGap \in 1..(2 * Day)
    /\ MaxNow \in Nat /\ MaxTxs \in Nat

\* A genesis file lists referrers before their referrals.
ASSUME GenesisAssumption ==
    \A g \in Genesis :
      LET here == DOMAIN g.referrer
      IN  /\ here \subseteq Accounts /\ g.active \subseteq here
          /\ \A a \in here : g.referrer[a] \in here \cup {None} /\ g.own[a] \in Holding
          /\ Acyclic(g.referrer)

VARIABLES
    now, phase, \* of the current block: "begin", "pass" of the schedule, "txs";
                \* "genesis" before the first one
    due,        \* tasks of the pass that have not run yet
    tasks,      \* the task store of x/schedule
    info,       \* the records
    index,      \* the index of statuses
    profiles,   \* accounts that have a profile in x/profile
    strangers,  \* accounts that asked for a transition without being in the tree
    txs         \* number of transactions and calls of other modules

vars == <<now, phase, due, tasks, info, index, profiles, strangers, txs>>

-----------------------------------------------------------------------------
(* Records.                                                                *)

CompressionPeriod == 2 * Month
StatusDowngradeAfter == 2 * Day

\* A record that is absent, as Get returns it.
Empty ==
    [status |-> 0, referrer |-> None, referrals |-> {}, activeReferrals |-> {},
     lines |-> [f \in Sums |-> [i \in Lines |-> 0]], active |-> FALSE,
     banished |-> FALSE, transition |-> None, compressionAt |-> NoTime,
     banishmentAt |-> NoTime, downgradeAt |-> NoTime]

Exists(infos, a) == infos[a] # Empty
IsEmpty(r) == r.status = 0 /\ ~r.banished

\* What a stranger's record may say: the transition he asks for.
Outside(r) == r = [Empty EXCEPT !.transition = r.transition]

\* What an account adds to its own line.
Own(h) == [coins |-> h.coins, delegated |-> h.delegated, counts |-> 0]

NewInfo(p, h) ==
    [Empty EXCEPT !.status = 1, !.referrer = p,
                  !.lines = [f \in Sums |-> [i \in Lines |-> IF i = 0 THEN Own(h)[f] ELSE 0]]]

\* Counters are unsigned.
Stored(f, x) == IF f = "counts" THEN x % CountLimit ELSE x

\* The sums of every line change by d.
Adjust(r, d) ==
    [r EXCEPT !.lines = [f \in Sums |-> [i \in Lines |->
                           Stored(f, r.lines[f][i] + d[f][i])]]]

\* The sums x arrive in line k.
InLine(k, x) == [f \in Sums |-> [i \in Lines |-> IF i = k THEN x[f] ELSE 0]]
Contribute(r, k, x) == Adjust(r, InLine(k, x))

\* What x brings to the ancestors, level by level.
Brings(x) == [k \in 1..Depth |-> InLine(k, x)]

\* How the lists of the nearest ancestor change.
NoLink == [join |-> {}, leave |-> {}, rise |-> {}, fall |-> {}]

Linked(r, link) ==
    [r EXCEPT !.referrals = (@ \ link.leave) \cup link.join,
              !.activeReferrals = (@ \ link.fall) \cup link.rise]

\* Who is i lines above each account, in a tree of referrers.
Above(referrer, i) ==
    LET up[k \in 0..i] ==
          IF k = 0 THEN [b \in DOMAIN referrer |-> b]
          ELSE LET below == up[k - 1]
               IN  [b \in DOMAIN referrer |->
                      IF below[b] \in DOMAIN referrer THEN referrer[below[b]] ELSE None]
    IN  up[i]

\* The accounts i lines below a.
Line(referrer, a, i) ==
    LET above == Above(referrer, i) IN {b \in DOMAIN referrer : above[b] = a}

Balance(r) == [f \in Sums |-> IF f = "counts" THEN 0 ELSE r.lines[f][0]]
Negated(x) == [f \in Sums |-> -x[f]]
NoCoins(x) == x.coins = 0 /\ x.delegated = 0

\* Mutant of RegistrationClosed: top-level accounts close, too.
RegistrationClosedMutant(r) ==
    r.banished \/ (~r.active /\ (r.compressionAt = NoTime \/ now > r.compressionAt - Month))

RegistrationClosed(r) ==
    r.referrer # None /\ (r.banished \/ (~r.active /\
        (r.compressionAt = NoTime \/ now > r.compressionAt - Month)))

\* The accounts above a, from p upwards, at most n of them.
Ancestors(infos, p, n) ==
    LET up[k \in 0..n] ==
          IF k = 0 THEN <<>>
          ELSE LET below == up[k - 1]
                   next == IF k = 1 THEN p
                           ELSE IF Len(below) < k - 1 THEN None
                           ELSE infos[below[k - 1]].referrer
               IN  IF next = None THEN below ELSE Append(below, next)
    IN  up[n]

\* The nearest account from p upwards that takes referrals.
FirstOpen(infos, p) ==
    LET chain == Ancestors(infos, p, Cardinality(Accounts))
        open == {k \in DOMAIN chain : ~RegistrationClosed(infos[chain[k]])}
    IN  IF open = {} THEN None ELSE chain[Min(open)]

-----------------------------------------------------------------------------
(* Worlds, and the bunchUpdater.                                           *)

World == [infos |-> info, tasks |-> tasks, index |-> index, broken |-> FALSE]

Timer(time, handler, a) == [id |-> 0, time |-> time, handler |-> handler, data |-> a]
Scheduled(w, time, handler, a) == [w EXCEPT !.tasks = Put(@, Timer(time, handler, a))]
Withdrawn(w, time, handler, a) == [w EXCEPT !.tasks = Remove(@, time, handler, a)]

Update(w, a, r) == [w EXCEPT !.infos[a] = r]

\* Mutant of SetIndex: the former status is not deleted.
SetIndexMutant(w, a, old, new) ==
    [w EXCEPT !.index = IF new >= MinIndexed THEN @ \cup {<<new, a>>} ELSE @]

\* setStatus, its part in the index store.
SetIndex(w, a, old, new) ==
    [w EXCEPT !.index = (@ \ {<<old, a>>}) \cup
                        (IF new >= MinIndexed THEN {<<new, a>>} ELSE {})]

SumUpTo(line, n) ==
    LET sum[i \in 0..n] == line[i] + (IF i = 0 THEN 0 ELSE sum[i - 1]) IN sum[n]

\* A referral whose team, counted line by line, reaches a size.
TeamOf(r, leg) ==
    \E n \in Lines : Stored("counts", SumUpTo(r.lines["counts"], n)) >= leg

\* checkStatusRequirements: coins in the structure, referrals with referrals
\* of their own, and teams.
Fulfilled(infos, r, s) ==
    \/ s = 0
    \/ /\ ~r.banished
       /\ s >= 2 =>
            LET q == Requirement[s]
            IN  /\ SumUpTo(r.lines["delegated"], q.lines) >= q.coins
                /\ Cardinality({c \in r.activeReferrals :
                                  infos[c].lines["counts"][1] >= q.size}) >= q.count
                /\ Cardinality({c \in r.activeReferrals :
                                  TeamOf(infos[c], q.leg)}) >= q.teams

Panics(r, s) ==
    ~r.banished /\ s >= 2 /\ SumUpTo(r.lines["delegated"], Requirement[s].lines) < 0

\* The status up to which all requirements above the present one are met.
Reached(infos, r) ==
    Max({s \in r.status..MaxStatus : \A t \in (r.status + 1)..s : Fulfilled(infos, r, t)})

\* bunchUpdater.update with checkForStatusUpdate, after its callback.
Check(w, a, r) ==
    IF Fulfilled(w.infos, r, r.status)
    THEN LET s == Reached(w.infos, r)
         IN  Update(SetIndex(w, a, r.status, s), a,
                    [r EXCEPT !.status = s, !.downgradeAt = NoTime])
    ELSE IF r.downgradeAt = NoTime
    THEN LET time == now + StatusDowngradeAfter
         IN  Scheduled(Update(w, a, [r EXCEPT !.downgradeAt = time]), time, "downgrade", a)
    ELSE Update(w, a, r)

Checked(w, a, r) ==
    LET asked == {r.status} \cup
                 (IF Fulfilled(w.infos, r, r.status)
                  THEN r.status..(Reached(w.infos, r) + 1) ELSE {})
    IN  IF w.broken THEN w
        ELSE IF \E s \in asked \cap (0..MaxStatus) : Panics(r, s)
        THEN [w EXCEPT !.broken = TRUE]
        ELSE Check(w, a, r)

\* What a loop along ancestors writes about c, one of them: r, checked or not.
Written(check, w, c, r) == IF check THEN Checked(w, c, r) ELSE Update(w, c, r)

\* Update the ancestors from p upwards, n of them at most, in that order, with
\* or without a check of their statuses: the lists of the first one, and of
\* each what it gains at its level.
ClimbIf(check, w, p, n, link, gain) ==
    LET chain == Ancestors(w.infos, p, n)
        after[k \in 0..Len(chain)] ==
          IF k = 0 THEN w
          ELSE LET v == after[k - 1]
                   r == v.infos[chain[k]]
               IN  Written(check, v, chain[k],
                           Adjust(IF k = 1 THEN Linked(r, link) ELSE r, gain[k]))
    IN  after[Len(chain)]

Climb(w, p, n, link, gain) == ClimbIf(TRUE, w, p, n, link, gain)

-----------------------------------------------------------------------------
(* Handlers.                                                               *)

\* a becomes a referral of p, and brings x to the lines above.
Joined(w, a, p, x, n) ==
    Climb(w, p, n, [NoLink EXCEPT !.join = {a}], Brings(x))

\* Without coins only the parent is updated.
Reach(x) == IF NoCoins(x) THEN 1 ELSE Depth

AppendChild(w, p, a, h) ==
    LET new == [NewInfo(p, h) EXCEPT !.compressionAt = now + CompressionPeriod]
    IN  Joined(Update(w, a, new), a, p, Own(h), Depth)

ComeBack(w, a) ==
    LET r == w.infos[a]
        p == FirstOpen(w.infos, r.referrer)
        back == [r EXCEPT !.referrer = p, !.banished = FALSE, !.status = 1,
                          !.banishmentAt = NoTime, !.compressionAt = NoTime]
    IN  Joined(Update(w, a, back), a, p, Balance(r), Reach(Balance(r)))

\* Mutant of ScheduleBanishment: the task is forgotten.
ScheduleBanishmentMutant(w, a) == [w EXCEPT !.infos[a].banishmentAt = now + Month]

ScheduleBanishment(w, a) ==
    Scheduled([w EXCEPT !.infos[a].banishmentAt = now + Month], now + Month, "banish", a)

\* OnBalanceChanged of an inactive account with dust: compressed already?
MustScheduleBanishment(r, h) ==
    /\ h.delegated <= Dust /\ r.referrer # None /\ ~r.banished
    /\ r.banishmentAt = NoTime
    /\ r.compressionAt = NoTime \/ now > r.compressionAt

\* Mutant of Spare: the task remains.
SpareMutant(w, a) == [w EXCEPT !.infos[a].banishmentAt = NoTime]

\* The banishment is called off.
Spare(w, a) ==
    IF w.infos[a].banishmentAt = NoTime THEN w
    ELSE [Withdrawn(w, w.infos[a].banishmentAt, "banish", a)
            EXCEPT !.infos[a].banishmentAt = NoTime]

\* Who delegates is back in the tree; the balance is still the former one.
Redeemed(w, a) ==
    LET r == w.infos[a]
        p == FirstOpen(w.infos, r.referrer)
        back == [r EXCEPT !.referrer = p, !.banished = FALSE, !.status = 1]
    IN  IF r.banished
        THEN Joined(Update(w, a, back), a, p, Balance(r), Reach(Balance(r)))
        ELSE w

\* OnBalanceChanged, the hook of x/bank on every change of a balance to h.
OnBalanceChanged(w, a, h) ==
    LET r == w.infos[a]
        x == [f \in Sums |-> Own(h)[f] - Balance(r)[f]]
        moved == IF x.delegated = 0 \/ r.active THEN w
                 ELSE IF h.delegated > Dust THEN Redeemed(Spare(w, a), a)
                 ELSE IF MustScheduleBanishment(r, h) THEN ScheduleBanishment(w, a)
                 ELSE w
        q == moved.infos[a]
        set == Checked(moved, a, Contribute(q, 0, x))
    IN  IF IsEmpty(r) THEN w
        ELSE IF q.banished THEN set
        ELSE Climb(set, q.referrer, Depth, NoLink, Brings(x))

\* What a change of activity adds to the counters, and to the parent's list.
Delta(active) == [coins |-> 0, delegated |-> 0, counts |-> IF active THEN 1 ELSE -1]
Activity(a, active) ==
    IF active THEN [NoLink EXCEPT !.rise = {a}] ELSE [NoLink EXCEPT !.fall = {a}]

SetActive(w, a, active, check) ==
    LET r == w.infos[a]
        set == [Contribute(r, 0, Delta(active)) EXCEPT !.active = active,
                  !.compressionAt = IF active THEN NoTime ELSE now + CompressionPeriod]
        own == Update(w, a, set)
        climbed == ClimbIf(check, IF active THEN Spare(own, a) ELSE own, r.referrer, Depth,
                           Activity(a, active), Brings(Delta(active)))
    IN  IF r.active = active THEN w
        ELSE IF active \/ r.referrer = None \/ climbed.broken THEN climbed
        ELSE Scheduled(climbed, now + CompressionPeriod, "compression", a)

\* Mutant of Popped: the lines below stay where they were.
PoppedMutant(u, k, i) == IF i = k THEN u[1] ELSE 0

\* What line i of the ancestor at level k gains when the lines u of an account
\* move up by one: the loop leaves the last line as it was.
Popped(u, k, i) ==
    IF i = k THEN u[1]
    ELSE IF i > k /\ i < Depth THEN u[i - k + 1] - u[i - k]
    ELSE 0

\* The account that is compressed loses its network and its status.
Bare(r) ==
    [r EXCEPT !.referrals = {}, !.activeReferrals = {}, !.compressionAt = NoTime,
              !.status = 1,
              !.lines = [f \in Sums |-> [i \in Lines |->
                           IF i = 0 /\ f # "counts" THEN r.lines[f][0] ELSE 0]]]

Compress(w, a) ==
    LET r == w.infos[a]
        bare == Update(SetIndex(w, a, r.status, 1), a, Bare(r))
        left == IF r.lines["delegated"][0] <= Dust THEN ScheduleBanishment(bare, a) ELSE bare
        moved == [left EXCEPT !.infos =
                    [c \in Accounts |->
                       IF c \in r.referrals
                       THEN [left.infos[c] EXCEPT !.referrer = r.referrer]
                       ELSE left.infos[c]]]
    IN  Climb(moved, r.referrer, Depth,
              [NoLink EXCEPT !.join = r.referrals, !.rise = r.activeReferrals],
              [k \in 1..Depth |-> [f \in Sums |-> [i \in Lines |-> Popped(r.lines[f], k, i)]]])

PerformCompression(w, a) ==
    LET r == w.infos[a]
    IN  IF r.compressionAt = NoTime \/ r.compressionAt > now \/ r.referrer = None THEN w
        ELSE Compress(w, a)

\* Banish looks again whether it is still due.
MayBanish(r) ==
    r.referrer # None /\ ~r.active /\ r.lines["delegated"][0] <= Dust /\ ~r.banished

\* x/delegating, told of the banishment, revokes what is still delegated.
OnBanished(w, a) ==
    LET x == Balance(w.infos[a])
    IN  IF w.broken \/ x.delegated = 0 THEN w
        ELSE OnBalanceChanged(w, a, [coins |-> x.coins, delegated |-> 0])

Banish(w, a) ==
    LET r == w.infos[a]
        x == Balance(r)
        out == [r EXCEPT !.banished = TRUE, !.status = 0, !.compressionAt = NoTime,
                         !.downgradeAt = NoTime, !.banishmentAt = NoTime]
        left == Climb(Update(w, a, out), r.referrer, Reach(x),
                      [NoLink EXCEPT !.leave = {a}], Brings(Negated(x)))
    IN  IF MayBanish(r) THEN OnBanished(left, a) ELSE w

PerformDowngrade(w, a) ==
    LET r == w.infos[a]
    IN  IF r.downgradeAt = NoTime \/ r.downgradeAt > now THEN Checked(w, a, r)
        ELSE Checked(SetIndex(w, a, r.status, r.status - 1), a,
                     [r EXCEPT !.status = @ - 1, !.downgradeAt = NoTime])

-----------------------------------------------------------------------------
(* Transitions.                                                            *)

\* Mutant of ValidTransition: the whole chain above is not looked at.
ValidTransitionMutant(a, n, fresh) ==
    /\ a # n /\ info[a].transition = (IF fresh THEN None ELSE n)
    /\ info[a].referrer # n /\ ~RegistrationClosed(info[n])

\* validateTransition.  A destination without a record passes: Get returns an
\* empty one for it, and no error.
ValidTransition(a, n, fresh) ==
    /\ a # n /\ info[a].transition = (IF fresh THEN None ELSE n)
    /\ info[a].referrer # n /\ ~RegistrationClosed(info[n])
    /\ a \notin Range(Ancestors(info, n, Cardinality(Accounts)))

CancelTransition(w, a) == [w EXCEPT !.infos[a].transition = None]

\* The lines u of the subject leave or join those of an ancestor at level k.
Shifted(r, u, k, sign) ==
    Adjust(r, [f \in Sums |-> [i \in Lines |-> IF i < k THEN 0 ELSE sign * u[f][i - k]]])

\* How a, with the record s, leaves or enters the lists of a referrer.
Leaving(s, a) == [NoLink EXCEPT !.leave = {a}, !.fall = IF s.active THEN {a} ELSE {}]
Entering(s, a) == [NoLink EXCEPT !.join = {a}, !.rise = IF s.active THEN {a} ELSE {}]

\* The ancestor at level k of a chain, if there is one, loses or gains the
\* subject's lines; the first one has its lists linked.
Shift(v, s, chain, k, link, sign) ==
    IF k > Len(chain) THEN v
    ELSE LET r == v.infos[chain[k]]
         IN  Checked(v, chain[k], Shifted(IF k = 1 THEN Linked(r, link) ELSE r, s.lines, k, sign))

\* One level of the two chains; above the level where they meet nothing changes.
AffirmLevel(w, s, a, old, new, k) ==
    IF k <= Len(old) /\ k <= Len(new) /\ old[k] = new[k] THEN w
    ELSE Shift(Shift(w, s, old, k, Leaving(s, a), -1), s, new, k, Entering(s, a), 1)

AffirmTransition(w, a) ==
    LET s == w.infos[a]
        moved == Update(w, a, [s EXCEPT !.referrer = s.transition, !.transition = None])
        old == Ancestors(w.infos, s.referrer, Depth)
        new == Ancestors(w.infos, s.transition, Depth)
        after[k \in 0..Depth] ==
          IF k = 0 THEN moved ELSE AffirmLevel(after[k - 1], s, a, old, new, k)
    IN  after[Depth]

-----------------------------------------------------------------------------
(* The genesis file: records without sums, balances and active accounts.   *)

Nothing == [coins |-> 0, delegated |-> 0]

\* Mutant of Exported: the status is not exported along with its downgrade.
ExportedMutant(r, stored) ==
    IF r = Empty /\ ~stored THEN r
    ELSE IF r.banished THEN [Empty EXCEPT !.referrer = r.referrer, !.banished = TRUE]
    ELSE [NewInfo(r.referrer, Nothing) EXCEPT
            !.compressionAt = r.compressionAt, !.banishmentAt = r.banishmentAt,
            !.downgradeAt = r.downgradeAt, !.transition = r.transition]

\* ExportToGenesis.  A status is kept only along with its downgrade.  A record
\* stored for a stranger is listed among those at the top, where it gets a status.
Exported(r, stored) ==
    CASE r = Empty /\ ~stored -> r
      [] r.banished -> [Empty EXCEPT !.referrer = r.referrer, !.banished = TRUE]
      [] OTHER ->
           [NewInfo(r.referrer, Nothing) EXCEPT
              !.status = IF r.downgradeAt = NoTime THEN 1 ELSE r.status,
              !.compressionAt = r.compressionAt, !.banishmentAt = r.banishmentAt,
              !.downgradeAt = r.downgradeAt, !.transition = r.transition]

\* ImportFromGenesis: the tree, before there are balances.
Planted(file, store) ==
    [infos |-> [a \in Accounts |->
                  [file[a] EXCEPT !.referrals = {b \in Accounts :
                     file[b] # Empty /\ ~file[b].banished /\ file[b].referrer = a}]],
     tasks |-> store,
     index |-> {<<file[a].status, a>> : a \in {b \in Accounts : file[b].status >= MinIndexed}},
     broken |-> FALSE]

Lists == INSTANCE SequencesExt

\* A step for each account of S, in the order of addresses.
ForEach(w, S, Step(_, _)) ==
    LET order == Lists!SetToSeq(S)
        after[k \in 0..Len(order)] == IF k = 0 THEN w ELSE Step(after[k - 1], order[k])
    IN  after[Len(order)]

\* InitGenesis of x/bank: every balance is a change of a balance.
Funded(w, own) ==
    ForEach(w, {a \in Accounts : own[a] # Nothing},
            LAMBDA v, a : OnBalanceChanged(v, a, own[a]))

\* ImportProfileRecords: active profiles; the statuses once they are all known.
Revived(w, active) == ForEach(w, active, LAMBDA v, a : SetActive(v, a, TRUE, FALSE))
Iterated(w) ==
    ForEach(w, {a \in Accounts : Exists(w.infos, a)},
            LAMBDA v, a : Checked(v, a, v.infos[a]))

\* InitGenesis in the order of the modules: schedule, referral, bank, profile.
InitGenesis(file, store, own, active) ==
    Iterated(Revived(Funded(Planted(file, store), own), active))

\* The file of a new chain: a tree g.referrer, g.own and g.active; who is not
\* active is to be compressed.
NewChain(g) ==
    LET here == DOMAIN g.referrer
        late == {a \in here : a \notin g.active /\ g.referrer[a] # None}
        file == [a \in Accounts |->
                   IF a \notin here THEN Empty
                   ELSE [NewInfo(g.referrer[a], Nothing) EXCEPT
                           !.compressionAt = IF a \in late THEN CompressionPeriod ELSE NoTime]]
    IN  InitGenesis(file, {Timer(CompressionPeriod, "compression", a) : a \in late},
                    [a \in Accounts |-> IF a \in here THEN g.own[a] ELSE Nothing], g.active)

Init ==
    /\ now = 0 /\ phase = "genesis" /\ due = {} /\ strangers = {} /\ txs = 0
    /\ \E g \in Genesis : \E w \in {NewChain(g)} :
         /\ ~w.broken /\ info = w.infos /\ tasks = w.tasks /\ index = w.index
         /\ profiles = DOMAIN g.referrer

\* The end of a hook: the bunchUpdater is committed unless it failed.
Hook(world) ==
    \E w \in {world} :
      /\ info' = IF w.broken THEN info ELSE w.infos
      /\ tasks' = w.tasks /\ index' = w.index

\* The end of a transaction, which is undone if it failed.
Tx(world) ==
    \E w \in {world} :
      ~w.broken /\ info' = w.infos /\ tasks' = w.tasks /\ index' = w.index

\* A transaction, or a call of another module.
Call == txs < MaxTxs /\ txs' = txs + 1 /\ UNCHANGED <<now, phase, due>>

\* What can be spent.  (Coins that are being revoked count as free.)
Free(r) == r.lines["coins"][0] - r.lines["delegated"][0]

\* An account pays x out of what it has not delegated.
Paid(w, a, x) ==
    LET b == Balance(w.infos[a])
    IN  IF x = 0 THEN w
        ELSE OnBalanceChanged(w, a, [coins |-> b.coins - x, delegated |-> b.delegated])

\* CreateAccount of x/profile.  The referrer need not have a record; who has
\* one, if only an empty one that a request has left, cannot join any more.
CreateAccount(p, a, h) ==
    /\ phase = "txs" /\ Call
    /\ a # p /\ ~Exists(info, a) /\ a \notin strangers /\ h.delegated = 0
    /\ ~RegistrationClosed(info[p])
    /\ Tx(Scheduled(AppendChild(World, p, a, h), now + CompressionPeriod, "compression", a))
    /\ profiles' = profiles \cup {a} /\ UNCHANGED strangers

\* PayTariff of x/profile by a transaction: a month is bought.
PayTariff(a) ==
    LET back == IF info[a].banished THEN ComeBack(World, a) ELSE World
    IN  /\ phase = "txs" /\ Call
        /\ a \in profiles /\ Free(info[a]) >= Tariff
        /\ Tx(SetActive(Paid(back, a, Tariff), a, TRUE, TRUE))
        /\ UNCHANGED <<profiles, strangers>>

\* monthlyRoutine of x/profile, in the pass: the month is over and not paid.
MonthOver(a) ==
    /\ phase = "pass" /\ Call
    /\ info[a].active
    /\ Hook(SetActive(World, a, FALSE, TRUE))
    /\ UNCHANGED <<profiles, strangers>>

\* A balance changes: by transactions; by interest, in the pass, where a failure
\* is recovered; by a punishment of x/noding, before the pass, where it would halt
\* the chain.  Balances of accounts without a status are of no account here.
BalanceChange(a, h) ==
    LET b == info[a].lines
        less == h.delegated < b["delegated"][0]
    IN  /\ Call
        /\ ~IsEmpty(info[a])
        /\ h.coins # b["coins"][0] \/ h.delegated # b["delegated"][0]
        /\ \/ phase = "txs"
           \/ phase = "pass" /\ h.delegated = b["delegated"][0] /\ h.coins > b["coins"][0]
           \/ phase = "begin" /\ less /\ b["coins"][0] - h.coins = b["delegated"][0] - h.delegated
        /\ IF phase = "pass" THEN Hook(OnBalanceChanged(World, a, h))
                             ELSE Tx(OnBalanceChanged(World, a, h))
        /\ UNCHANGED <<profiles, strangers>>

\* Whoever pays may ask, in the tree or not: Get returns an empty record, and no
\* error, for an account that has none.
RequestTransition(a, n) ==
    LET paid == Paid(World, a, Price)
    IN  /\ phase = "txs" /\ Call
        /\ ValidTransition(a, n, TRUE) /\ (IsEmpty(info[a]) \/ Free(info[a]) >= Price)
        /\ Tx(Scheduled([paid EXCEPT !.infos[a].transition = n], now + Day,
                        "transition-timeout", a))
        /\ strangers' = IF IsEmpty(info[a]) THEN strangers \cup {a} ELSE strangers
        /\ UNCHANGED profiles

\* ResolveTransition, signed by the referrer; without a request nothing changes.
\* A banished subject is not among the referrals, and the search for it panics.
ResolveTransition(a, approved) ==
    /\ phase = "txs" /\ Call
    /\ info[a].referrer # None /\ info[a].transition # None
    /\ IF approved
       THEN /\ ValidTransition(a, info[a].transition, FALSE)
            /\ a \in info[info[a].referrer].referrals
            /\ Tx(AffirmTransition(World, a))
       ELSE Tx(CancelTransition(World, a))
    /\ UNCHANGED <<profiles, strangers>>

\* PerformSchedule: the next task of the pass.
PerformTask ==
    /\ phase = "pass"
    /\ \E t \in due :
         /\ \A u \in due : t.time <= u.time
         /\ due' = due \ {t}
         /\ \/ t.handler = "compression" /\ Hook(PerformCompression(World, t.data))
            \/ t.handler = "banish" /\ Hook(Banish(World, t.data))
            \/ t.handler = "downgrade" /\ Hook(PerformDowngrade(World, t.data))
            \/ t.handler = "transition-timeout" /\ Hook(CancelTransition(World, t.data))
    /\ UNCHANGED <<now, phase, profiles, strangers, txs>>

\* The first block has the time of the genesis file.
BeginBlock ==
    /\ \/ phase = "txs" /\ \E gap \in 1..MaxGap : now' = now + gap /\ now' <= MaxNow
       \/ phase = "genesis" /\ now' = now
    /\ phase' = "begin"
    /\ UNCHANGED <<due, tasks, info, index, profiles, strangers, txs>>

StartPass ==
    /\ phase = "begin" /\ phase' = "pass"
    /\ due' = DueAt(tasks, now) /\ tasks' = tasks \ due'
    /\ UNCHANGED <<now, info, index, profiles, strangers, txs>>

EndPass ==
    /\ phase = "pass" /\ due = {} /\ phase' = "txs"
    /\ UNCHANGED <<now, due, tasks, info, index, profiles, strangers, txs>>

\* The chain is exported after a block and started again from the file, whose
\* time is that of the block.  A profile is active if its account is.
Restart ==
    /\ phase = "txs" /\ phase' = "genesis" /\ txs < MaxTxs /\ txs' = txs + 1
    /\ Tx(InitGenesis([a \in Accounts |-> Exported(info[a], a \in strangers)], tasks,
                      [a \in Accounts |-> [coins |-> info[a].lines["coins"][0],
                                           delegated |-> info[a].lines["delegated"][0]]],
                      {a \in Accounts : info[a].active}))
    /\ UNCHANGED <<now, due, profiles, strangers>>

Next ==
    \/ \E p, a \in Accounts, h \in Holdings : CreateAccount(p, a, h)
    \/ \E a \in Accounts : PayTariff(a)
    \/ \E a \in Accounts : MonthOver(a)
    \/ \E a \in Accounts, h \in Holdings : BalanceChange(a, h)
    \/ \E a, n \in Accounts : RequestTransition(a, n)
    \/ \E a \in Accounts, approved \in BOOLEAN : ResolveTransition(a, approved)
    \/ PerformTask \/ BeginBlock \/ StartPass \/ EndPass \/ Restart

Spec == Init /\ [][Next]_vars

-----------------------------------------------------------------------------
Handlers == {"compression", "banish", "downgrade", "transition-timeout"}
Moments == Nat \cup {NoTime}

Info ==
    [status : 0..MaxStatus, referrer : Accounts \cup {None},
     referrals : SUBSET Accounts, activeReferrals : SUBSET Accounts,
     lines : [Sums -> [Lines -> Int]], active : BOOLEAN, banished : BOOLEAN,
     transition : Accounts \cup {None},
     compressionAt : Moments, banishmentAt : Moments, downgradeAt : Moments]

\* Types; and nobody has delegated more than he owns.
TypeOK ==
    /\ now \in Nat /\ phase \in {"genesis", "begin", "pass", "txs"}
    /\ due \subseteq Task(Handlers, Accounts) /\ tasks \subseteq Task(Handlers, Accounts)
    /\ info \in [Accounts -> Info]
    /\ \A a \in Accounts : info[a].lines["coins"][0] >= info[a].lines["delegated"][0]
    /\ index \subseteq (0..MaxStatus) \X Accounts
    /\ profiles \subseteq Accounts /\ strangers \subseteq Accounts /\ txs \in 0..MaxTxs

Members == {a \in Accounts : Exists(info, a) /\ ~info[a].banished}
Referrers == [a \in Members |-> info[a].referrer]

(***************************************************************************)
(* Referrers make up a forest: nobody is above himself, however accounts   *)
(* move, are compressed, banished and come back.  The lists of referrals   *)
(* and of active ones agree with it, and a banished account is not active. *)
(***************************************************************************)
Forest ==
    /\ \A a \in Accounts : Line(Referrers, a, Cardinality(Accounts)) = {}
    /\ \A a \in Accounts :
         LET r == info[a]
         IN  /\ r.referrals = {b \in Members : info[b].referrer = a}
             /\ r.activeReferrals = {b \in r.referrals : info[b].active}
             /\ r.banished => ~r.active

\* What a record says of its account and its team, against the team itself.
Exact(i) ==
    \A a \in Members :
      LET team == Line(Referrers, a, i)
      IN  \A f \in Sums :
            info[a].lines[f][i] = MapThenSumSet(LAMBDA b : info[b].lines[f][0], team)

(***************************************************************************)
(* The sums of a record are the sums over its team, line by line, in all   *)
(* lines but the last.  (Compress does not keep the last one.)             *)
(***************************************************************************)
LinesExact == \A i \in 0..(Depth - 1) : Exact(i)

(***************************************************************************)
(* Every time a record waits for has its task, in the store or in the      *)
(* pass, and after the pass it is still to come: whom the time has come    *)
(* for has been compressed, banished or downgraded.                        *)
(***************************************************************************)
TimersArmed ==
    \A a \in Accounts :
      LET r == info[a]
          armed(time, handler) ==
            time # NoTime =>
              /\ Timer(time, handler, a) \in tasks \cup due
              /\ phase \in {"txs", "genesis"} => time > now
      IN  /\ r.referrer # None => armed(r.compressionAt, "compression")
          /\ armed(r.banishmentAt, "banish")
          /\ armed(r.downgradeAt, "downgrade")
          /\ r.transition # None =>
               \E t \in tasks \cup due :
                 t.handler = "transition-timeout" /\ t.data = a /\ t.time <= now + Day

(***************************************************************************)
(* A member is about to be banished exactly when he is inactive, has been  *)
(* compressed and delegates no more than dust; so no task ever banishes    *)
(* one who has paid or delegated or has referrals, and none who has not    *)
(* stays for ever.                                                         *)
(***************************************************************************)
BanishmentDeserved ==
    /\ phase \in {"txs", "genesis"} =>
         \A a \in Members :
           LET r == info[a]
           IN  r.banishmentAt # NoTime <=>
                 /\ r.referrer # None /\ ~r.active /\ r.compressionAt = NoTime
                 /\ r.lines["delegated"][0] <= Dust
    /\ \A a \in Accounts : info[a].banished => info[a].referrals = {}
    /\ \A t \in tasks : t.handler = "banish" => info[t.data].banishmentAt = t.time

(***************************************************************************)
(* Who has no status is not in the tree, or OnBalanceChanged would take a  *)
(* member for a stranger: his record has no referrer, no referrals and no  *)
(* coins, nothing but a request for a transition.  And the index of        *)
(* statuses, which some handlers do not write, holds just the statuses     *)
(* there are.                                                              *)
(***************************************************************************)
StatusIndexed ==
    /\ \A a \in Accounts : IsEmpty(info[a]) => Outside(info[a])
    /\ index = {<<info[a].status, a>> : a \in {b \in Members : info[b].status >= MinIndexed}}

(***************************************************************************)
(* A status that is no longer deserved is on notice: a downgrade waits.    *)
(* (AffirmTransition does not look at the account where the old and the    *)
(* new chain of referrers meet.)                                           *)
(***************************************************************************)
StatusOnNotice ==
    \A a \in Members :
      ~Fulfilled(info, info[a], info[a].status) => info[a].downgradeAt # NoTime

(***************************************************************************)
(* Nobody is cut off the tree: who comes back finds a referrer, whoever of *)
(* the accounts above has been compressed or banished meanwhile.           *)
(***************************************************************************)
NeverCutOff ==
    [][\A a \in Accounts : info[a].referrer # None => info'[a].referrer # None]_vars

(***************************************************************************)
(* A restart from an exported file loses nothing: the tree, activity, all  *)
(* times waited for and requests stay, and nobody loses a status he        *)
(* deserves or that is on notice, although balances and activity are       *)
(* imported one by one after the tree.                                     *)
(***************************************************************************)
RestartKeeps ==
    [][phase' = "genesis" =>
         /\ tasks' = tasks
         /\ \A a \in Accounts :
              LET r == info[a]
                  q == info'[a]
                  deserved == Fulfilled(info, r, r.status)
              IN  /\ q.referrer = r.referrer /\ q.banished = r.banished /\ q.active = r.active
                  /\ q.compressionAt = r.compressionAt /\ q.banishmentAt = r.banishmentAt
                  /\ q.downgradeAt = IF deserved THEN NoTime ELSE r.downgradeAt
                  /\ deserved \/ r.downgradeAt # NoTime => q.status >= r.status
                  /\ ~r.banished => q.transition = r.transition
      ]_vars
=============================================================================
