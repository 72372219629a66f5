------------------------------- MODULE Noding -------------------------------
(***************************************************************************)
(* x/noding: who validates.  An operator switches a node on with a         *)
(* consensus key; at the end of every block the best MaxValidators of the  *)
(* active operators and the first LotteryValidators of a queue of the rest *)
(* get voting power, and CometBFT is told the difference.  Missed blocks   *)
(* jail, a second infraction bans, and losing the qualification in         *)
(* x/referral switches off.                                                *)
(*                                                                         *)
(* Scores and the statistics they are computed from only rank operators:   *)
(* the ranking at the end of a block is any order of the active accounts,  *)
(* with any ties.  Accounts are numbers in the order of their addresses.   *)
(* CometBFT is external: an update of block h is in the set of h + 2, and  *)
(* the votes that block h counts are those of the set of h - 1.            *)
(***************************************************************************)
EXTENDS VpGenerator, FiniteSets

CONSTANTS
    Accounts,          \* operators, numbered in the order of addresses
    Genesis,           \* genesis files: the keys of those who are on
    KeysOf,            \* the consensus keys each of them may switch on with
    MaxValidators,     \* parameter max_validators
    LotteryValidators, \* parameter lottery_validators
    JailAfter,         \* parameter jail_after
    UnjailAfter,       \* parameter unjail_after
    Slices,            \* slices of parameter voting_power
    LuckyPower,        \* its luckies_voting_power
    Staff,             \* who may be added to the staff
    Causes,            \* how a qualification may change
    MaxHeight,         \* bound: height of the last block
    MaxEvents,         \* bound: number of transactions, evidence and restarts
    Distributions, Seats, \* bounds: slices and numbers of seats of PowersByMerit
    NoInfo,            \* no record of an account
    NoKey              \* the empty public key

Keys == UNION {KeysOf[a] : a \in Accounts}

Infos ==
    [status : BOOLEAN, jailed : BOOLEAN, banned : BOOLEAN, staff : BOOLEAN,
     pubKey : Keys \cup {NoKey}, lastKey : Keys \cup {NoKey}, lastPower : Nat,
     lotteryNo : Nat, missed : 0..(JailAfter - 1), unjailAt : Nat, infractions : Nat]

ASSUME NodingAssumption ==
    /\ Accounts \subseteq Nat /\ IsFiniteSet(Accounts)
    /\ \A g \in Genesis : /\ DOMAIN g \subseteq Accounts
                         /\ \A a \in DOMAIN g : g[a] \in KeysOf[a]
    /\ MaxValidators \in Nat \ {0} /\ LotteryValidators \in Nat
    /\ JailAfter \in Nat \ {0} /\ UnjailAfter \in Nat /\ MaxHeight \in Nat
    /\ Slices \in Seq([part : Fractions, power : Nat]) /\ ValidSlices(Slices)
    /\ LuckyPower \in Nat \ {0}
    /\ Staff \subseteq Accounts
    /\ Causes \subseteq {"status", "stake", "criteria"}
    /\ NoKey \notin Keys /\ NoInfo \notin Infos
    /\ Distributions \subseteq Seq([part : Fractions, power : Nat])
    /\ \A s \in Distributions : ValidSlices(s)
    /\ Seats \subseteq Nat \ {0}

VARIABLES
    height, phase, \* the block and the part of it that is being executed
    toCount,       \* votes of the last commit that are not yet counted
    info,          \* the records of the accounts
    operator,      \* index IdxPrefixNodeOperator: key to account
    queue,         \* index IdxPrefixLotteryQueue: number to account
    meets,         \* who meets MinCriteria at the moment
    lastVals, vals, nextVals, \* CometBFT: sets of h - 1 and h, powers of h + 1
    events,        \* number of transactions, pieces of evidence and restarts
    halted,        \* why CometBFT or InitGenesis has refused to go on
    banished       \* history variable: reported banished since last switched on

store == <<info, operator, queue>>
comet == <<lastVals, vals, nextVals>>
vars == <<height, phase, toCount, store, meets, comet, halted, events, banished>>

NewInfo(key) ==
    [status |-> TRUE, jailed |-> FALSE, banned |-> FALSE, staff |-> FALSE,
     pubKey |-> key, lastKey |-> NoKey, lastPower |-> 0, lotteryNo |-> 0,
     missed |-> 0, unjailAt |-> 0, infractions |-> 0]

StaffInfo == [NewInfo(NoKey) EXCEPT !.status = FALSE, !.staff = TRUE]

Has(a) == info[a] # NoInfo

IsActive(r) == r # NoInfo /\ r.status /\ ~r.jailed /\ ~r.banned

Active == {a \in Accounts : IsActive(info[a])}

\* IsQualified, given who meets the criteria.
IsQualified(a, m) == a \in m \/ (Has(a) /\ info[a].staff)

\* GetValidatorByConsAddr: whether a key leads to a record.
Found(key) == key \in DOMAIN operator /\ Has(operator[key])

-----------------------------------------------------------------------------
\* The lottery queue.
Exclude(q, n) == [m \in DOMAIN q \ {n} |-> q[m]]

\* Mutant of NextNo: the first number that is free.
NextNoMutant(q) == Min((1..(Cardinality(DOMAIN q) + 1)) \ DOMAIN q)

NextNo(q) == IF DOMAIN q = {} THEN 1 ELSE Max(DOMAIN q) + 1

AddNew(q, a) ==
    [m \in DOMAIN q \cup {NextNo(q)} |-> IF m = NextNo(q) THEN a ELSE q[m]]

\* lotteryExclude and lotteryDownshift of an account that is in the queue.
ExcludeAccount(r, q, a) ==
    IF r.lotteryNo = 0
    THEN [info |-> r, queue |-> q]
    ELSE [info |-> [r EXCEPT !.lotteryNo = 0], queue |-> Exclude(q, r.lotteryNo)]

Downshift(r, q, a) ==
    LET shorter == Exclude(q, r.lotteryNo)
    IN  IF r.lotteryNo = 0
        THEN [info |-> r, queue |-> q]
        ELSE [info |-> [r EXCEPT !.lotteryNo = NextNo(shorter)],
              queue |-> AddNew(shorter, a)]

\* lotteryLastNo: the number of the count-th in the queue, or of its last.
LastNo(q, count) ==
    LET first == {n \in DOMAIN q :
                    Cardinality({m \in DOMAIN q : m <= n}) <= count}
    IN  IF first = {} THEN 0 ELSE Max(first)

\* A step on one record and its place in the queue.
Store(a, s) == info' = [info EXCEPT ![a] = s.info] /\ queue' = s.queue

-----------------------------------------------------------------------------
\* The hooks of x/referral.  Each gets the criteria as they are when it runs.

\* Mutant of SwitchedOff: the place in the queue is kept.
SwitchedOffMutant(r, q, a) == [info |-> [r EXCEPT !.status = FALSE], queue |-> q]

\* What SwitchOff does to the record.
SwitchedOff(r, q, a) == ExcludeAccount([r EXCEPT !.status = FALSE], q, a)

Unqualified(r, a, m) == IsActive(r) /\ ~(a \in m \/ r.staff)

OnStatusUpdate(r, q, a, m) ==
    IF Unqualified(r, a, m) THEN SwitchedOff(r, q, a)
    ELSE [info |-> r, queue |-> q]

\* The copy of the record that is switched off is not stored; the queue is.
OnStakeChanged(r, q, a, m) ==
    [info |-> r,
     queue |-> IF Unqualified(r, a, m) THEN ExcludeAccount(r, q, a).queue ELSE q]

Report(a, r, m) == IF Unqualified(r, a, m) THEN banished \cup {a} ELSE banished

-----------------------------------------------------------------------------
\* Parts of a block: the last commit, the evidence, the transactions.
Counting == halted = "no" /\ phase = "begun" /\ toCount # {}
Judging == halted = "no" /\ phase = "begun" /\ toCount = {}
Delivering == halted = "no" /\ phase \in {"begun", "delivering"} /\ toCount = {}

Event == events < MaxEvents /\ events' = events + 1

MarkTick(r) == [r EXCEPT !.missed = 0]

\* BeginBlocker: the proposer is paid, then the votes are counted.  A tick only
\* touches the counter of its own account, so all ticks are taken first; the
\* strokes follow one by one.  An error, which an unknown key would be, leaves
\* the other votes uncounted.  The money of PayProposerReward is left out.
BeginBlocker(proposer, absent) ==
    LET a == operator[proposer]
        paid == IF Found(proposer) THEN Downshift(info[a], queue, a)
                ELSE [info |-> NoInfo, queue |-> queue]
        known == \A k \in lastVals : Found(k)
        ticked == {operator[k] : k \in lastVals \ absent}
    IN  /\ halted = "no" /\ phase = "ended" /\ height < MaxHeight
        /\ height' = height + 1 /\ phase' = "begun"
        /\ toCount' = IF known THEN absent ELSE {}
        /\ queue' = paid.queue
        /\ info' = [x \in Accounts |->
                      LET r == IF Found(proposer) /\ x = a THEN paid.info ELSE info[x]
                      IN  IF known /\ x \in ticked THEN MarkTick(r) ELSE r]
        /\ UNCHANGED <<operator, meets, comet, halted, events, banished>>

MarkStroke(r, q, a) ==
    IF r.jailed THEN [info |-> r, queue |-> q]
    ELSE IF r.missed + 1 >= JailAfter
         THEN ExcludeAccount([r EXCEPT !.jailed = TRUE, !.missed = 0,
                                       !.unjailAt = height + UnjailAfter], q, a)
         ELSE Downshift([r EXCEPT !.missed = @ + 1], q, a)

\* markStrokesAndTicks: the vote of one who was absent.
CountAbsence(key) ==
    /\ Counting /\ key \in toCount
    /\ toCount' = toCount \ {key}
    /\ LET a == operator[key] IN Store(a, MarkStroke(info[a], queue, a))
    /\ UNCHANGED <<height, phase, operator, meets, comet, halted, events, banished>>

MarkByzantine(r, q, a) ==
    IF r.infractions + 1 > 1
    THEN ExcludeAccount([r EXCEPT !.infractions = @ + 1, !.banned = TRUE,
                                  !.status = FALSE], q, a)
    ELSE Downshift([r EXCEPT !.infractions = @ + 1], q, a)

\* punishWrongdoers, one piece of evidence.  If confiscate takes a part of the
\* stake, OnStakeChanged runs first and the qualification may be gone.
Punish(key, penalised) ==
    /\ Judging /\ key \in lastVals \cup vals /\ Found(key) /\ Event
    /\ penalised => "stake" \in Causes
    /\ LET a == operator[key]
       IN  \E m \in IF penalised THEN {meets, meets \ {a}} ELSE {meets} :
             LET q == IF penalised THEN OnStakeChanged(info[a], queue, a, m).queue
                      ELSE queue
             IN  /\ Store(a, MarkByzantine(info[a], q, a))
                 /\ meets' = m
                 /\ banished' = IF penalised THEN Report(a, info[a], m) ELSE banished
    /\ UNCHANGED <<height, phase, toCount, operator, comet, halted>>

-----------------------------------------------------------------------------
\* Transactions, with the hooks they cause.
Tx ==
    /\ Delivering /\ phase' = "delivering"
    /\ Event
    /\ UNCHANGED <<height, toCount, comet, halted>>

\* SwitchOn: the key is in use by an active validator.
Busy(key) ==
    Found(key) /\ IsActive(info[operator[key]]) /\ info[operator[key]].pubKey = key

MaySwitchOn(a, key) ==
    /\ ~(Has(a) /\ (info[a].banned \/ info[a].status))
    /\ ~Busy(key)
    /\ IsQualified(a, meets)

WithOperator(idx, key, a) ==
    [k \in DOMAIN idx \cup {key} |-> IF k = key THEN a ELSE idx[k]]

SwitchOn(a, key) ==
    /\ Tx /\ MaySwitchOn(a, key)
    /\ info' = [info EXCEPT ![a] =
                  IF Has(a) THEN [@ EXCEPT !.status = TRUE, !.pubKey = key]
                  ELSE NewInfo(key)]
    /\ operator' = WithOperator(operator, key, a)
    /\ banished' = banished \ {a}
    /\ UNCHANGED <<queue, meets>>

SwitchOff(a) ==
    /\ Tx /\ Has(a) /\ info[a].status
    /\ Store(a, SwitchedOff(info[a], queue, a))
    /\ UNCHANGED <<operator, meets, banished>>

Unjail(a) ==
    /\ Tx /\ Has(a) /\ info[a].jailed /\ height >= info[a].unjailAt
    /\ info' = [info EXCEPT ![a].jailed = FALSE,
                            ![a].status = @ /\ IsQualified(a, meets)]
    /\ banished' = IF IsQualified(a, meets) THEN banished ELSE banished \cup {a}
    /\ UNCHANGED <<operator, queue, meets>>

AddToStaff(a) ==
    /\ Tx
    /\ info' = [info EXCEPT ![a] = IF Has(a) THEN [@ EXCEPT !.staff = TRUE]
                                   ELSE StaffInfo]
    /\ UNCHANGED <<operator, queue, meets, banished>>

\* OnStatusUpdate follows, and OnStakeChanged with nothing left to do.
RemoveFromStaff(a) ==
    LET r == [info[a] EXCEPT !.staff = FALSE]
    IN  /\ Tx /\ Has(a) /\ info[a].staff
        /\ Store(a, OnStatusUpdate(r, queue, a, meets))
        /\ banished' = Report(a, r, meets)
        /\ UNCHANGED <<operator, meets>>

\* An account begins or ceases to meet the criteria: its status changes, or
\* its own or its network's stake, or the criteria do, which has no hook.
Requalify(a, cause) ==
    LET m == (meets \ {a}) \cup ({a} \ meets)
    IN  /\ Tx /\ meets' = m
        /\ IF Has(a) /\ cause # "criteria"
           THEN /\ Store(a, IF cause = "status"
                            THEN OnStatusUpdate(info[a], queue, a, m)
                            ELSE OnStakeChanged(info[a], queue, a, m))
                /\ banished' = Report(a, info[a], m)
           ELSE UNCHANGED <<info, queue, banished>>
        /\ UNCHANGED operator

-----------------------------------------------------------------------------
\* GatherValidatorUpdates, in terms of the ranking that the sort leaves.
Rankings ==
    [A \in SUBSET Accounts |->
       {rank \in [A -> 1..Cardinality(A)] :
          \A a, b \in A : rank[a] = rank[b] => a = b}]

Least(m, n) == IF m <= n THEN m ELSE n

TopSeats == Least(Cardinality(Active), MaxValidators)
LuckySeats == Least(Cardinality(Active) - TopSeats, LotteryValidators)

Top(rank) == {a \in Active : rank[a] <= TopSeats}

\* The queue after those who have risen to the top have left it.
QueueOfRest(top) ==
    [n \in DOMAIN queue \ {info[a].lotteryNo : a \in top} |-> queue[n]]

\* Mutant of Lucky: everyone up to one number too far.
LuckyMutant(top) ==
    LET last == LastNo(QueueOfRest(top), LuckySeats) + 1
    IN  {a \in Active \ top : info[a].lotteryNo # 0 /\ info[a].lotteryNo <= last}

Lucky(top) ==
    LET last == LastNo(QueueOfRest(top), LuckySeats)
    IN  {a \in Active \ top : info[a].lotteryNo # 0 /\ info[a].lotteryNo <= last}

Newcomers(top) == {a \in Active \ top : info[a].lotteryNo = 0}

\* Newcomers are put into the queue in the order of the ranking.
Numbers(rank, top) ==
    LET new == Newcomers(top)
        first == NextNo(QueueOfRest(top))
    IN  [a \in new |-> first + Cardinality({b \in new : rank[b] < rank[a]})]

\* What the records become, given the powers of those who have a seat.  For a
\* record that the code leaves alone this is what it already holds.
Gathered(a, top, power, numbers) ==
    LET r == info[a]
    IN  CASE r = NoInfo -> r
          [] a \in top ->
               [r EXCEPT !.lastPower = power[a], !.lastKey = r.pubKey, !.lotteryNo = 0]
          [] a \in DOMAIN power \ top ->
               [r EXCEPT !.lastPower = power[a], !.lastKey = r.pubKey]
          [] a \in DOMAIN numbers ->
               [r EXCEPT !.lastPower = 0, !.lastKey = NoKey, !.lotteryNo = numbers[a]]
          [] OTHER ->
               IF r.lastPower = 0 THEN r
               ELSE [r EXCEPT !.lastPower = 0, !.lastKey = NoKey]

\* The updates, with the record each of them is for: the code compares keys by
\* the addresses of their copies, so that no two of them are ever merged.
Removal(a) == [by |-> a, key |-> info[a].lastKey, power |-> 0]

\* Mutant of UpdatesFor: the old key of a changed one is not removed.
UpdatesForMutant(a, power) ==
    LET r == info[a]
    IN  IF a \in DOMAIN power
        THEN {u \in {[by |-> a, key |-> r.pubKey, power |-> power[a]]} :
                r.pubKey # r.lastKey \/ r.lastPower # power[a]}
        ELSE {u \in {Removal(a)} : r.lastPower # 0}

UpdatesFor(a, power) ==
    LET r == info[a]
    IN  IF a \in DOMAIN power
        THEN {u \in {Removal(a)} : r.lastKey \notin {r.pubKey, NoKey}}
             \cup {u \in {[by |-> a, key |-> r.pubKey, power |-> power[a]]} :
                     r.pubKey # r.lastKey \/ r.lastPower # power[a]}
        ELSE {u \in {Removal(a)} : r.lastPower # 0}

\* CometBFT refuses two updates of one key, the removal of a key that is not a
\* validator's, and an empty set.
Verdict(upd, result) ==
    CASE \E u, w \in upd : u # w /\ u.key = w.key -> "duplicate"
      [] \E u \in upd : u.power = 0 /\ u.key \notin DOMAIN nextVals -> "unknown"
      [] result = {} -> "empty"
      [] OTHER -> "no"

Updated(set, upd) ==
    LET keys == (DOMAIN set \cup {u.key : u \in upd})
                  \ {u.key : u \in {w \in upd : w.power = 0}}
    IN  [k \in keys |-> IF \E u \in upd : u.key = k
                        THEN (CHOOSE u \in upd : u.key = k).power ELSE set[k]]

\* Mutant of Refreshed: who is not active any more is dropped from the index.
RefreshedMutant(idx) ==
    [k \in {info[a].pubKey : a \in Active} |->
       Max({a \in Active : info[a].pubKey = k})]

\* The index is refreshed in the order of addresses: the last one wins.
Refreshed(idx) ==
    LET users(k) == {a \in Active : info[a].pubKey = k}
    IN  [k \in DOMAIN idx \cup {info[a].pubKey : a \in Active} |->
           IF users(k) = {} THEN idx[k] ELSE Max(users(k))]

EndBlocker ==
    /\ Delivering \/ (halted = "no" /\ phase = "genesis")
    /\ phase' = "ended"
    /\ operator' = Refreshed(operator)
    /\ \E rank \in Rankings[Active] :
       \E top \in {Top(rank)}, ties \in SUBSET (2..TopSeats) :
       \E lucky \in {Lucky(top)}, rest \in {QueueOfRest(top)}, numbers \in {Numbers(rank, top)} :
         LET place == Placement(Slices, MaxValidators, ties)
             power == [a \in top \cup lucky |->
                         IF a \in top THEN Slices[place[rank[a]]].power ELSE LuckyPower]
             upd == UNION {UpdatesFor(a, power) : a \in {x \in Accounts : Has(x)}}
             next == Updated(nextVals, upd)
             added == Range(numbers)
         IN  /\ info' = [a \in Accounts |-> Gathered(a, top, power, numbers)]
             /\ queue' = [n \in DOMAIN rest \cup added |->
                            IF n \in added THEN AntiFunction(numbers)[n] ELSE rest[n]]
             /\ halted' = Verdict(upd, DOMAIN next)
             /\ nextVals' = next
             /\ vals' = DOMAIN (IF phase = "genesis" THEN next ELSE nextVals)
    /\ lastVals' = vals
    /\ UNCHANGED <<height, toCount, meets, events, banished>>

-----------------------------------------------------------------------------
\* Genesis.  The records without power and places; those to be switched on.
Imported(r, on) ==
    [r EXCEPT !.status = on \/ (r.jailed /\ r.status), !.lastPower = 0,
              !.lastKey = NoKey, !.lotteryNo = 0]

\* ExportGenesis, then SetActiveValidators and SetNonActiveValidators, which
\* switch on in the order of addresses and panic when SwitchOn fails; the next
\* step gathers the first set.
Restart ==
    /\ halted = "no" /\ phase = "ended" /\ Event
    /\ phase' = "genesis"
    /\ info' = [a \in Accounts |-> IF Has(a) THEN Imported(info[a], a \in Active)
                                   ELSE NoInfo]
    /\ operator' = [k \in {info[a].pubKey : a \in Active} |->
                      CHOOSE a \in Active : info[a].pubKey = k]
    /\ queue' = [n \in {} |-> 0]
    /\ lastVals' = {} /\ vals' = {} /\ nextVals' = [k \in {} |-> 0]
    /\ halted' = IF /\ \A a \in Active : IsQualified(a, meets)
                    /\ \A a, b \in Active : info[a].pubKey = info[b].pubKey => a = b
                 THEN "no" ELSE "import"
    /\ UNCHANGED <<height, toCount, meets, banished>>

Init ==
    /\ height = 0 /\ phase = "genesis" /\ toCount = {}
    /\ \E g \in Genesis :
         /\ info = [a \in Accounts |->
                      IF a \in DOMAIN g THEN NewInfo(g[a]) ELSE NoInfo]
         /\ operator = [k \in {g[a] : a \in DOMAIN g} |->
                          CHOOSE a \in DOMAIN g : g[a] = k]
         /\ meets \in {m \in SUBSET Accounts : DOMAIN g \subseteq m}
    /\ queue = [n \in {} |-> 0]
    /\ lastVals = {} /\ vals = {} /\ nextVals = [k \in {} |-> 0]
    /\ halted = "no" /\ events = 0 /\ banished = {}

Next ==
    \/ \E k \in vals, absent \in SUBSET lastVals : BeginBlocker(k, absent)
    \/ \E k \in Keys : CountAbsence(k)
    \/ \E k \in Keys, penalised \in BOOLEAN : Punish(k, penalised)
    \/ \E a \in Accounts : \E k \in KeysOf[a] : SwitchOn(a, k)
    \/ \E a \in Accounts : SwitchOff(a) \/ Unjail(a)
    \/ \E a \in Staff : AddToStaff(a) \/ RemoveFromStaff(a)
    \/ \E a \in Accounts, cause \in Causes : Requalify(a, cause)
    \/ EndBlocker
    \/ Restart

Spec == Init /\ [][Next]_vars

-----------------------------------------------------------------------------
TypeOK ==
    /\ height \in Nat /\ phase \in {"genesis", "begun", "delivering", "ended"}
    /\ toCount \subseteq Keys
    /\ info \in [Accounts -> Infos \cup {NoInfo}]
    /\ DOMAIN operator \subseteq Keys
    /\ \A k \in DOMAIN operator : operator[k] \in Accounts
    /\ DOMAIN queue \subseteq Nat \ {0}
    /\ \A n \in DOMAIN queue : queue[n] \in Accounts
    /\ meets \subseteq Accounts /\ banished \subseteq Accounts
    /\ lastVals \subseteq Keys /\ vals \subseteq Keys
    /\ DOMAIN nextVals \subseteq Keys
    /\ \A k \in DOMAIN nextVals : nextVals[k] \in Nat \ {0}
    /\ halted \in {"no", "duplicate", "unknown", "empty", "import"}
    /\ events \in Nat

Powered == {a \in Accounts : Has(a) /\ info[a].lastPower # 0}

(***************************************************************************)
(* CometBFT's set is what the records remember as last sent, over key      *)
(* changes, jailing, bans and restarts: no validator keeps power that the  *)
(* chain has forgotten about, and no update is ever refused.               *)
(***************************************************************************)
CometAgrees ==
    /\ halted \notin {"duplicate", "unknown"}
    /\ DOMAIN nextVals = {info[a].lastKey : a \in Powered}
    /\ \A a \in Powered : nextVals[info[a].lastKey] = info[a].lastPower
    /\ \A a, b \in Powered : info[a].lastKey = info[b].lastKey => a = b

(***************************************************************************)
(* The queue and the numbers in the records are each other's inverse, and  *)
(* only active validators are in it.                                       *)
(***************************************************************************)
QueueMatches ==
    /\ \A n \in DOMAIN queue : info[queue[n]].lotteryNo = n
    /\ \A a \in Accounts : Has(a) /\ info[a].lotteryNo # 0 =>
         /\ info[a].lotteryNo \in DOMAIN queue /\ queue[info[a].lotteryNo] = a
         /\ a \in Active

(***************************************************************************)
(* When a block has ended only active validators have power, everyone if   *)
(* there are seats for all, never more than there are seats, and everyone  *)
(* without a seat at the top is in the queue.                              *)
(***************************************************************************)
SeatsRespected ==
    phase = "ended" =>
      /\ Powered \subseteq Active
      /\ Cardinality(Powered) <= MaxValidators + LotteryValidators
      /\ Cardinality(Active) <= MaxValidators => Powered = Active
      /\ \A a \in Active : a \notin Powered => info[a].lotteryNo # 0

(***************************************************************************)
(* Every validator whose vote, proposal or evidence may still arrive is    *)
(* known by its key, so the counting of the votes never stops half way.    *)
(***************************************************************************)
SignersKnown == \A k \in lastVals \cup vals \cup DOMAIN nextVals : Found(k)

(***************************************************************************)
(* Nobody jumps the queue: who was behind a validator that keeps its       *)
(* number, or not in the queue, stays behind it.                           *)
(***************************************************************************)
NoQueueJumping ==
    [][ \A m \in DOMAIN queue, n \in DOMAIN queue' :
          m \in DOMAIN queue' /\ queue'[m] = queue[m] /\ n < m =>
            \E k \in DOMAIN queue : queue[k] = queue'[n] /\ k < m
      ]_vars

(***************************************************************************)
(* Powers are handed out by merit for every distribution and number of     *)
(* seats, wherever scores are equal (ByMerit); looked at before the first  *)
(* set is gathered.                                                        *)
(***************************************************************************)
PowersByMerit ==
    height = 0 /\ phase = "genesis" =>
      \A s \in Distributions, max \in Seats : ByMerit(s, max)

-----------------------------------------------------------------------------
(***************************************************************************)
(* Who has been reported as banished from the validators is not one.  It   *)
(* fails where a stake changes: OnStakeChanged reports the account and     *)
(* returns before it stores the record it has switched off.                *)
(***************************************************************************)
BanishedAreOff == banished \cap Active = {}

(***************************************************************************)
(* CometBFT is never sent two updates of one key.                          *)
(***************************************************************************)
NoDuplicateUpdates == halted # "duplicate"
=============================================================================
