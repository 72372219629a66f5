# Verification of the Artery node

TLA+ models of the modules of the Artery blockchain node (`x/...`, a Cosmos SDK
application in Go), TLC configurations that check them on small instances, and
TLAPS proofs of what matters most for every instance. File names and line
numbers are those of the repository; `PROJECT.json` maps every definition to
the lines it stands for.

## The system

The node is a replicated state machine: CometBFT orders transactions into
blocks and every node executes them. Inside a node nothing runs in parallel.
What makes the code hard is the order in which *calls* meet: transactions of
one block, hooks that the timer runs at the beginning of a later block, hooks
in the middle of other modules' operations, validator updates that CometBFT
applies two blocks later, restarts from an exported genesis file, and panics
that are recovered half way.

| part | state it keeps | operations | talks to |
|---|---|---|---|
| `x/schedule` | tasks by time | ScheduleTask, Delete, DeleteAll, the pass of the BeginBlocker | runs the hooks of all others |
| `x/voting`, proposals | government, the open proposal, votes, history, blocked lists | Propose, Vote, end by votes or by timer, export, import | changes the parameters of every module |
| `x/voting`, polls | the open poll, answers, two counters, history | StartPoll, Answer, end by timer, export, import | asks referral and noding who may answer |
| `x/noding` | a record per operator, key index, lottery queue | SwitchOn, SwitchOff, Unjail, votes, proposals, evidence, EndBlocker, export, import | CometBFT; told by referral of statuses and stakes |
| `x/delegating` | next accrual and revocation requests of an account | Delegate, Revoke, ExpressRevoke, accrual and revocation hooks | bank, schedule; told by referral of banishments |
| `x/referral` | a tree of accounts with sums per line, statuses | append, compress, transitions, banish, come back | told by bank of every balance; calls noding, delegating |
| `x/profile` | profiles, nickname index | create, rename, pay the tariff, buy and give up storage and traffic, readings, two monthly hooks, export, import | bank, referral, schedule |
| `x/bank` | balances, supply, blocked senders, fee parameters | send, burn, mint, fees, export, import | calls referral on every change |
| `x/earning` | two time stamps per account | set, expire | asked by delegating |
| `app` | wiring of the hooks, order of the BeginBlockers (upgrade, noding, schedule) | | |

Correctness, part by part:

* **schedule**: a task runs once, in order, in the first block at or after its
  time, unless withdrawn; none disappears. Everything periodic in the chain
  hangs on a chain of tasks, each scheduled by the hook of the one before, so
  one lost task stops it for ever.
* **proposals**: applied only by two thirds of the government, decided once,
  never by the leftovers of an earlier proposal; each one ends.
* **polls**: counters agree with the answers, over restarts too; each one ends.
* **noding**: the chain's idea of the validator set is CometBFT's; the seats
  and the queue agree with the records; every vote that arrives finds its
  validator.
* **delegating**: each moment of a delegation is paid for once; every revoked
  coin comes back.
* **referral**: the graph stays a tree, the sums are the sums over it; an
  account is compressed, banished or downgraded when it is due and only then.
* **profile**: every month that is paid for is given once; a timer exists while
  it is needed; `x/referral` knows who is active; a nickname has one holder;
  what was bought lasts until it is used up.
* **bank**: the supply is the sum of the balances; the parts of a fee add up.

## Modules

| module | models |
|---|---|
| `TaskStore` | the task store of `x/schedule` as a value: Put, Remove, RemoveAll, DueAt, and the order of a scan |
| `TimerService` | abstract: what other modules expect of `x/schedule` |
| `Schedule` | `x/schedule` itself, with the hooks' calls inside a pass |
| `Blocks` | what proposals and polls have in common: the time of a block, and the due tasks before its transactions |
| `Voting`, `MCVoting` | proposals and the government, on the abstract timer, with export and import |
| `Poll`, `MCPoll` | polls, with export and import |
| `VpGenerator` | voting powers along the ranking, slice by slice, and a reference definition |
| `Noding`, `MCNoding` | validators, lottery queue, and CometBFT's pipeline of validator sets, with the powers of `VpGenerator` |
| `Delegating`, `MCDelegating` | delegation, accrual and revocation, composed with the pass of the timer |
| `DelegatingProofs` | theorems about `Delegating` |
| `Referral`, `MCReferral` | the referral tree with its sums, statuses and timers, composed with the pass of the timer and with the calls of profile, bank and delegating; export and import |
| `Profile`, `MCProfile` | tariff, storage, traffic, messenger storage and nicknames, composed with the pass of the timer |
| `Fees` | fractions, the fee on an amount and its shares |
| `Bank`, `MCBank` | balances and supply under the operations of all modules, with the fees of `Fees` |
| `NumberTheorems` | lemmas on least and greatest elements, recursive definitions, sums over finite sets, and the fractions of `Fees` |
| `ServiceProofs` | theorems about the two services every other module calls: `Schedule`, and that it implements `TimerService`; `Bank` and `Fees` |
| `VotingProofs`, `NodingProofs`, `ReferralProofs`, `ProfileProofs` | theorems about the module of that name; those about `Poll` are in `VotingProofs`, those about `VpGenerator` in `NodingProofs` |
| `ReferralRecords` | theorems about what the records of `Referral` say (timers, banishments, the index, sums by line), on top of `ReferralProofs` |

`Voting` and `Poll` (through `Blocks`), `Delegating`, `Referral` and `Profile` extend `TaskStore`
and assume of the timer only what `Schedule` is proved to give (`Refinement`): the tasks that are due
run before the transactions of a block. `Delegating` in addition lets a hook of
another module act between two tasks of a pass.

### Schedule

`store` is the task store, `snapshot` what `PerformSchedule` opened its
iterator on, `due` the part not visited, `cur` the task whose hook is running.
The iterator is isolated from writes underneath it and the visited keys are
deleted by the final `Write`: so a hook that deletes a task of the running pass
comes too late, and one that adds a task to a visited key loses it. A hook is
any sequence of `ScheduleTask`, `Delete` and `DeleteAll`, ended by a return or
by a panic, which `recover` makes the same. `issued`, `log` and `cancelled` are
history variables. `MinDelay` is the least delay a hook uses (a day in all
hooks of the chain).

### Voting and Poll

One action per message (`Propose`, `Vote`, `StartPoll`, `Answer`) and per task
(`ProcessSchedule`, `EndPoll`). The government is a list, as in the code, since
its length decides and an address may be in it twice. The fifty types of
proposals are five kinds, told apart by what `EndProposal` does; the parameters
of other modules are one value. `ImportGenesis` exports and imports with whatever
proposal is open, any number of times: the file has the records of the history
without their keys, and a start block only beside an open proposal; the timer is
no part of it and comes back with the tasks of `x/schedule`. The heights go on,
since a file is exported for the next height and one for height zero is refused.
Who may answer a poll is a set that changes
freely between transactions, as statuses do; `Restart` exports and imports,
which replays the answers through the same checks as the message.

### Noding

A block is executed in the phases of the code: votes and proposer of the last
commit, evidence, transactions, `EndBlocker`. `info`, `operator` and `queue`
are the three parts of the store. CometBFT is external: `lastVals`, `vals` and
`nextVals` are the sets of the block before, of this one and of the next, and
updates that CometBFT would refuse (a key twice, an unknown key, an empty set)
halt the chain in `halted`. Scores are replaced by an arbitrary ranking, and the
powers of those at the top are the ones `GetVotingPower` of `VpGenerator` hands
out along it, ties included. A
validator loses its qualification by a status, a stake or raised criteria
(`Causes`); `OnStatusUpdate` and `OnStakeChanged` are translated separately
because they differ.

### Delegating

`next` and `requests` are the record of an account, `tasks` the store of the
timer and `due` the tasks of the running pass. Interest is followed by the time
it is paid for: `earning` is the time an account has spent with an accrual
pending and `settled` the part of it that a payment, or the finding that the
percentage is zero, has covered. A day accrued by the hook settles `Day`, a day
broken off by a delegation or a revocation settles what `dayPart` says. Frozen
coins are counted. `OnBanished` may come between any two tasks of a pass, as
the hook of `x/referral` does, and then meets an accrual that has been
collected and not yet run. This is wider than the chain: `x/referral` banishes
nobody who has delegated coins (`BanishmentDeserved`), so the theorems about
`Delegating` do not lean on that rule.

### Referral

`info` holds the records, `index` the store of statuses, `tasks` and `due` the
timer's store and pass. A handler of the keeper is an operator from a *world*
(records, index, tasks, and whether something panicked) to a world, so that
handlers call each other as in the code: `PayTariff` brings a banished account
back, pays, which changes a balance and so runs `OnBalanceChanged`, and then
sets it active; `Banish` revokes through `x/delegating`, which changes a
balance again. `Checked` is `bunchUpdater.update` with its check of the status:
a status that is met may rise by several steps, one that is not is put on
notice for two days. `Climb` is the loop over the ancestors that all handlers
share, `Ancestors` its path; what it does to the lines of each ancestor is a
function of levels (`Brings`, or `Popped` in `Compress`), and what it does to
the lists of the first one is a record of four sets (`Linked`). `Shift` is a
level of the two loops of `AffirmTransition`. Sums may be negative, as `math.Int`, and a check of
a negative one panics; counters are unsigned and wrap at `CountLimit`.

A transaction that fails is undone (`Tx`), a hook that fails keeps what it has
written to index and tasks (`Hook`). Balances come from a small set
(`Holdings`); what is being revoked counts as free. `MonthOver` and the changes
of balances stand for `x/profile`, `x/bank` and, before and inside the pass, for
confiscations of `x/noding` and interest (in the pass a change of balance is a
hook, so that a panic leaves what it has written). `strangers` are the accounts
outside the tree that have asked for a transition: the code asks only for the
price, and `Get` returns an empty record, so one with nothing but a request is
stored for them (`Outside`). When the request is over the empty record stays: its
holder can join no more, and an export lists him among those at the top, where
the import gives him a status. `Depth` is 10 in the code, `Lines`
and requirements are scaled down with it.

`Restart` writes a file and starts a chain from it. `Exported` is what
`ExportToGenesis` keeps of a record: the place in the tree and the timers, but
no sum, and a status only where a downgrade is scheduled. `InitGenesis` makes
the rest again in the order of `app.go`: the tree without balances (`Planted`),
then every balance through the hook of `x/bank` (`Funded`), then the active
profiles (`Revived`), then one check of every status (`Iterated`). `Init` is the
same import of a small file. Addresses are walked in one fixed order.

### Profile

One action per message and three for each monthly hook: `BeginMonth`, `AutoPay`
and `Expire` are the cases of `monthlyRoutine`, `AutoProlong` and `ExpireIm`
those of `monthlyImRoutine`. Prices are whole coins and the pro rata of a month
is rounded as in the code. `Lower` and `Trimmed` are what `ToLower` and
`TrimSpace` make of a nickname; an entry is removed under `Lower` and looked up
under `Trimmed`, as in the code. A nickname of which nothing is left when it is
trimmed is stored without an entry, by anyone, and costs nothing. `ahead` (months paid for that have not begun)
and `spare` (traffic bought and not used up) are history variables, and so are
`gifts`, the accounts that were created with months, storage or traffic in the
profile that `MsgCreateAccount` carries, which is stored as it comes, and
`overs`, those for which a service has reported more than their limits, which
nothing refuses. The properties on what is paid for leave the accounts of
`gifts` out, and `LimitsHold` those of `overs` too. Limits are
unsigned and wrap at `Word`. `Restart` may start the new chain some time after
the export.

### Bank, Fees and VpGenerator

An action of `Bank` is one operation of one module on balances and supply, in
any order, since x/bank itself does not care who calls. `mixed` is a history
variable: whether all coins in the collector of shared fees are fees of the
present ratios. `Fees` keeps fractions unreduced, as `util/fraction.go` does,
because the least common multiple of *denominators* is what a fee is rounded
to. `VpGenerator` is the generator as a step function, `Placement` its run over
all seats, and `ByMerit` compares it with `SliceOf`, the first slice whose sum
of parts reaches a seat.

## Runs

| run | checks | bounds and size |
|---|---|---|
| `schedule` | `NoTaskLost`, `AtMostOnce`, `NothingOverdue`, `InOrder`, that it implements `TimerService` (`ImplementsTimer`), `EventuallyPerformed` | 3 tasks, one of them possibly from genesis, blocks up to time 4, gaps up to the hooks' delay of 2; 132 thousand states |
| `schedule_halt` | violation of `NoTaskLost` | the same with gaps longer than the hooks' delay |
| `voting` | `VotesOfGovernment`, `TimerArmed`, `AppliedByTwoThirds`, `EventuallyEnds` | governments of one to three, two proposals, four votes, restarts at any point between transactions; 1.4 million states |
| `poll` | `CountersAgree`, `PollTimerArmed`, `PollEventuallyEnds` | two accounts, three kinds of quorum, one restart; 559 thousand states |
| `noding` | `PowersByMerit`, `CometAgrees`, `QueueMatches`, `SignersKnown`, `SeatsRespected`, `NoQueueJumping` | three operators, the first with two keys, one seat at the top and one lucky seat, four blocks, two events (transactions, evidence, restarts) beside votes and absences; 605 thousand states. `PowersByMerit`: up to seven seats, up to three slices in fifths or sixths, all ties |
| `noding_leap` | violation of `NoDuplicateUpdates` | two operators who share a key |
| `delegating` | `AccrualScheduled`, `PaidOnce`, `RevokingBacked`, `ReturnScheduled`, `NothingLeftBehind`, `EventuallyReturned` | two accounts, three calls, four days of two units, gaps up to a day; 146 thousand states |
| `referral` | `Forest`, `LinesExact`, `TimersArmed`, `BanishmentDeserved`, `StatusIndexed`, `NeverCutOff`, `RestartKeeps` | four accounts, three lines, two statuses above the lowest, two genesis trees, three transactions or restarts, anyone in or outside the tree asking for a transition, time up to 7 with months of 2 and days of 1; 674 thousand states |
| `referral_notice` | violation of `StatusOnNotice` | the same with four transactions and time up to 2 |
| `profile` | `RenewalArmed`, `ActivityAgrees`, `FreshMonths`, `ImArmed`, `NicknamesIndexed`, `LimitsHold` | one subscriber with two wallets and any readings, a second account created blank, with another spelling of his nickname, with a nickname of blanks, or with months of its own, four transactions, a restart, months of 3 and time up to 7; 3.96 million states |
| `profile_gift` | violation of `SubscriptionPaid` | an account created with months of its own |
| `bank` | `SupplyMatches`, `SharesAddUp` | two users, amounts 5 and 13, four ratios of shares, four operations; 227 thousand states up to symmetry |

Every component has a type invariant (`TypeOK`, `PollTypeOK`, `BankTypeOK`), and
all of them are proved.

Why the bounds are enough for the cases they are meant for: two tasks of one
time, a task added to or deleted from a visited key, and a block that skips a
task's time need three tasks and a gap of two. Three is the least government in
which two thirds are not everyone, and two proposals are needed for one to
inherit from the other. With one top seat and one lucky seat, two operators
already exchange seats and three make a queue in which one can be overtaken;
four blocks cover CometBFT's delay of two blocks with an update on each side. In
`delegating` a day of two units lets a block fall inside a day, on its end and
after it, and the two periods of revocation let requests mature in another
order than they were made, or together. In `referral` a chain of four is one
longer than the lines kept, so what leaves and enters the last line happens;
seven units of time are the two months until a compression, the month until a
banishment and a block after it; three transactions make a request, an approval
and a change in between, a come-back with a payment on each side, or a restart
with a change before and after it. (Random runs with twelve transactions up to
time 20 find nothing more.) In `profile` four transactions are two payments and
two purchases, and seven units are the ends of two months with a block late or
in time, so early, automatic and failing payments meet every kind of task. In
`bank` an amount whose fee is cut by the maximum and one whose fee is rounded
meet ratios whose denominators are equal, multiples or neither.

Deadlock checking is off in every run, since the clock, the height and the
number of calls are bounded and the model stops at the bound.

Fairness is weak fairness of the next block and of the steps of a pass: CometBFT
keeps producing blocks and the execution of a block goes to its end. Nothing is
assumed of users: no transaction is ever bound to come. `Noding`, `Referral`,
`Profile` and `Bank` state no fairness, and no liveness.

### What the violations show

* `schedule_halt`: when the chain halts for longer than a day, a hook may
  schedule its next task onto a time that the same pass visits, and the `Write`
  at the end deletes it unrun (`keeper.go:151`). Under `ShortGaps` this cannot
  happen, which is proved.
* `noding_leap`: the loop that should merge two updates of one key
  (`keeper.go:521`) compares pointers, so both are sent, which CometBFT refuses.
* `referral_notice`: `AffirmTransition` stops at the account where the old and
  the new chain of referrers meet (`keeper.go:866`), where no sum changes. The
  status of that account may depend on the counters of its referrals, which do
  change, and stays although its requirement is not met any more.
* `profile_gift`: an account created with months of its own is active at once
  (`keeper.go:198`), and as nothing schedules their end (`keeper.go:226-238`)
  `x/referral` takes it for active for ever. The same message can carry messenger
  storage without a task, and limits that were not bought.

Behaviour seen in the models for which there is no run, because the repository
promises nothing else: two proposals that end in one block share a key in the
history; the last member can be removed from the government, and one who is
added twice makes the list longer than the votes it can get, so that proposals
end by their timers only (`ErrProposalGovernorLast` and
`ErrProposalGovernorExists` are declared and not used); an import panics
when a respondent of the open poll is no longer eligible, or when an active
validator is below criteria raised since; if all validators leave in one block
the set is empty. `OnStakeChanged` logs "not qualified anymore, banishing from
validators", switches the record off, and returns at `keeper.go:336` before it
stores it: the operator is out of the queue and told to be off while its record
is on. With `stake` among the `Causes` this drift makes `BanishedAreOff`,
`QueueMatches` and `SeatsRespected` fail, while `CometAgrees` and `SignersKnown` still hold: this is why the run `noding`
has `Causes = {"status"}`. While the owner of a key is jailed another operator
may switch on with it (`keeper.go:209`), and `Unjail` does not look. In `x/referral`: the loop of `Compress`
(`keeper.go:381`) leaves the last line of the ancestors as it is, so `LinesExact`
is stated for the lines before it, and statuses of the run `referral` require
coins in those lines only. (The comment at `keeper.go:370` says that coins appear
at level 10, but the loop ends before.) In the code the statuses from BUSINESSMAN
up require coins in all ten lines, and with a requirement in the last line the
model finds, after a long sequence of moves, a negative sum there, on which the
status check panics (`status_requirements.go:113`): a hook that meets it fails and
its timer is lost. An import makes the last line again and may so change a status; the timeout of a cancelled transition request
is not deleted and cancels the next request early; a subject, a destination or a referrer
without a record passes the checks, since `Get` returns an empty record (a
destination or a referrer becomes a top-level account); and when a subtree moves up its own chain its new
referrer counts it twice for a moment, which may raise a status before the
second update takes it out; and if the genesis time of a restarted chain is after
the `ActiveUntil` of an account, the import leaves it inactive without a time of
compression, and the renewal hook finds nothing to do. In `x/profile`: an
inactive account that names an amount of storage pays for it, while its limit is
raised only if it is active; a renewal of the messenger storage that fails in
the hook after `PayTxFee` keeps the fee; a nickname costs a fixed coin, while the
parameter `rename_price` is charged for new accounts; a nickname stored with
spaces leaves its entry behind when it is changed, and the name stays taken. In
`x/bank`: coins sent to the collector of shared fees, or fees collected before a
change of the ratios, leave a remainder, which is burned; `BurnCoins` returns no
error when it fails (`keeper.go:219`), which no caller here can make it do.

## Proofs

Checked by TLAPS, for every value of the constants that satisfies the
assumption of the module.

**ServiceProofs, the timer.** `TypeCorrect` holds without further conditions. Under
`ShortGaps` (`MaxGap <= MinDelay`: blocks are no further apart than the least
delay of a hook) `NoLoss`, `RunOnce`, `OnTime`, `Ordered` and `Refinement`
(`Schedule` implements `TimerService`) are proved from one inductive invariant:
`TypeOK`, what is empty in each phase (`PhaseInv`), that an id identifies a task
(`IdsInv`), where the tasks are in time (`TimeInv`), that whatever has run is
before whatever waits (`OrderInv`), and `NoTaskLost`. The heart is `TimeInv`:
every task of the snapshot is late by less than `MaxGap`, so what its hook adds,
`MinDelay` later, is after the block's time and not on a visited key. Without
`ShortGaps` exactly this step fails, and `schedule_halt` is its counterexample.

**DelegatingProofs.** `DelegatingTypeCorrect`, `OneAccrualTask`
(`AccrualScheduled`), `SettledOnce` (`PaidOnce`), `EveryReturnScheduled`
(`ReturnScheduled`) and `NothingOverdue` (`NothingLeftBehind`), from the
conjunction of the first four with `TimeInv`: what is in the store lies ahead,
what is in the pass is late by less than a day. `TimeInv` is needed because the
hook schedules a day after the time of its *task*, not of the block: were the
task late by more, the new one would be due already, and a stale task of the
pass could have the time of the new accrual. `NewDay` is the lemma that
`Delegate` and `Revoke` share: breaking a day off settles exactly what is
pending and leaves one task. The assumption `MaxGap \in 1..Day` is the same
condition as `ShortGaps`.

The frozen coins of an account are a sum, `RevokingBacked`: its proof (`RInv`)
adds that the requests of an account are a finite set numbered below the next
number, and `SumAdd`, `SumUnion` of `NumberTheorems` say what a request more, or
those of a due time less, does to the sum.

**VotingProofs.** `VotingTypeCorrect`, `VotingVotesOfGovernment`,
`VotingTimerArmed` and `VotingAppliedByTwoThirds`, and the action property
`ChangedByGovernment`: a step that changes the government or a parameter puts a
decision of two thirds of the government *before* the step on record. They hold
for governments in which an address occurs twice. Their conjunction is
inductive with two additions: the argument of the open proposal is of its kind
(`ArgumentFits`), as `ValidateBasic` asks, and a block has a height. The point
is that `EndProposal` is reached from `Propose`, `Vote` and the hook;
`EndProposalIInv` says what it does from any of them. A restart finds every
record of the history because each is filed under the height it ended at
(`HistoryFiled`): `VotingImportLosesNothing` says that an import makes the
government, the votes, the start block and the history what they were.

**VotingProofs, polls.** The module extends `Voting` and `Poll`; each theorem is
about one of the two specifications, `Spec` or `PollSpec`. `PollTypeCorrect`, `PollCountersAgree`, `PollTimerAlwaysArmed`
and the action property `HistoryKept`: a recorded result is never replaced. The
history's keys are end times, and `EndPoll` does not look whether there is one;
`HistoryBehind` (the keys are over and before the end of the current poll) is
what makes it true. A restart counts the answers anew, one after the other.

**NodingProofs.** Two parts. *The generator*: `PowersAreByMerit` says of every
distribution that `Validate` lets through, of any number of seats and any ties
what the run `noding` checks up to seven seats (`PowersAlwaysByMerit` says it in the
words of the run). By induction along the seats, `GeneratorsInSlices` bounds the pointer and compares a run with
ties to one without, and `GeneratorsReach` says that without ties the pointer is
at the first slice that reaches the seat (`SliceOf`), if no slice is smaller
than a seat. *The set of
validators*: `IInv` is `TypeOK`, that the queue's numbers are natural
(`QueueType`), that votes to be counted are of known keys (`CountOK`),
`SignersKnown`, and what a record may hold of keys and power (`KeysOK`). It is
inductive without conditions (`NodingTypeCorrect`, `SignersAlwaysKnown`). With
`Queued` (queue and records are each other's inverse) it is so only if no
qualification is lost by a stake, `NoStakeHook`: `OnStakeChanged` is the one
handler that does not store what it changed. Under it follow `QueueAlwaysMatches`, `NobodyJumpsTheQueue`,
`SeatsAlwaysRespected` (`LuckyCount`: the numbers up to the last lucky one are no
more than the lucky seats) and `BanishedStayOff` (`BanishedAreOff`): that defect
is the only one. `CometAlwaysAgrees` needs `DistinctKeys` (no two operators use one
key); `noding_leap` is what happens otherwise.

**ProfileProofs.** `ProfileTypeCorrect`, `RenewalsArmed`, `ActivitiesAgree`,
`MonthsGivenOnce`, `ExtraStorageArmed`, `NicknamesFound`, `LimitsAlwaysHold`. The
inductive invariant says exactly which renewal tasks an account has
(`MonthsOK`: one at the end of each of the months paid ahead and of the last
one) where `RenewalArmed` and `FreshMonths` say parts of it; where tasks are in
time (`TasksInv`); how far `x/referral` may lag behind within a pass
(`ActiveOK`); and that bought traffic grows by bounded steps (`TrafficOK`).
`MaxGap < Month` is assumed, since a chain that halts for a month finds two
renewals due at once. What the code does not check of a transaction is not
assumed but recorded: whatever a new account brings and whatever is read as
consumed, the accounts concerned are in `gifts` and `overs`, and the theorems
say what holds of the others; `NicknamesFound` and the typing hold of all.
`TrafficAssumption` says that the traffic bought fits into its counter of bytes,
and `ProfileAssumption` that a month is not cheaper than the storage it comes
with, so that a price is never negative.

**ServiceProofs, the balances.** The specification of `Bank` is `BankSpec`.
`BankTypeCorrect` (nothing is subtracted that is not there),
`BankSharesAddUp` and `BankSupplyMatches`. The shares rest on `FeesDivide`: what
is in the collector is a multiple of the least common multiple of the
denominators, since every fee was rounded to one. The record of the supply is
never below what is owned (`Covered`), in all cases; it is equal if the
transaction fee is at most the whole amount. `validateTransactionFee`
(`x/bank/types/params.go:166`) asks for no upper bound, and with a larger fee
`accrue` (`x/delegating/keeper/keeper.go:363`) records what it emits and then
panics in `emission.Sub`, which `x/schedule` recovers. That the first genesis file
gives the right supply, or none, is an assumption of `BankInit`: `InitGenesis`
(`genesis.go:31-35`) stores what the file gives and `ValidateGenesis` compares
nothing.

**NumberTheorems.** Sums and recursive functions over numbers need induction,
which the library offers only for operators as parameters. The proofs here take
the least element, or a least subset (`LeastSubset`), for which a statement
fails. `RecursionExists` gives a recursive definition its solution in the same
way, and `UpTo` is induction along it.

**ReferralProofs.** `ReferralTypeCorrect`, `ReferralsForest` (`Forest`) and
`NobodyCutOff` (`NeverCutOff`), for any number of accounts and lines, any
statuses with any requirements, and any genesis trees. The inductive invariant
`IInv` is the typing, `Tree` (no set of accounts is closed under referrers,
which is what `Acyclic` says; both lists of a record are what the referrers say;
a banished account is not active; a referrer is known) and `Wealthy`: nobody has
delegated more than he has, which is what lets a payment be made. `Tree` is
disturbed and made again inside a handler, so there is a notion for the states
between: a world *becomes* what a set of records says (`Becomes`), up to sums,
statuses and times, or it is broken. `ClimbBecomes` says of the loop along the
ancestors that it changes the lists of the first of them and otherwise becomes
what it found, whatever statuses rise, fall or panic on the way; `OneMoves` and
`AllRise` say when one account, or all referrals of one, may change their
referrer. A handler *keeps* a world (`Keeps`) if the tree is good afterwards,
nobody has lost a referrer and nobody is banished (`Ends`, for `Banish`), or if
it has failed. That `AffirmTransition` makes no cycle rests on the whole chain
above the destination being looked at (`OverClosed`), not only ten of it; that
`ComeBack` finds a referrer, on the top-level account being always open
(`FirstOpenFound`); that the forest ends after as many lines as there are
accounts, on a path upwards meeting nobody twice (`PathShort`). None of this needs
a handler not to panic.

With a handler two more things are followed: `SameStakes`, that nobody's balance
changes but that of the one who pays, and `Stay`, that whoever has a referrer or a
record keeps having one, which `NobodyCutOff` and the timers both rest on.

**ReferralRecords, the timers.** `TimersStayArmed` (`TimersArmed`), `BanishmentsDeserved`
(`BanishmentDeserved`) and `StatusesIndexed` (`StatusIndexed`), from `IInv` of
`ReferralProofs` and `Timely`, which says that a world is *quiet* between
handlers (`Quiet`):

* the index is what the records say (`IndexFits`);
* every record is `Sane`: who is active waits neither for compression nor for
  banishment; who is inactive and compressed (`Shut`) has no referrals and is LUCKY
  at most, and waits for banishment if he delegates no more than dust; nobody waits
  for banishment who is not compressed, or about to be in this block (`Expelled`);
  a banished account waits for nothing;
* every time in a record has its task (`Timed`), no task of banishment is there
  without a record that waits for it (`BanishTasks`), and a time that is not
  among the tasks of this block is still to come (`ToCome`).

It is inductive only in a form with two parameters: `X`, the accounts that are
about to become active, whose records are not sane while `SetActive` climbs, and
`rest`, the tasks of the pass that have not run. Handlers are followed call by
call, each going from a quiet world to a quiet one (`Steady`, with the tree and
the stakes of `ReferralProofs`) or failing (`Settled`). The import is the
longest of them: balances arrive while nobody is active, then the accounts
become active one after the other, and each of these steps may arm or drop a
timer the file has brought.

The hypotheses are two. `Earned`: a status above LUCKY requires at least one
active referral or one team, as all those of `status_requirements.go` do.
Without it a compressed account could rise when its balance changes, or keep a
status without the task that ends it. `HooksSucceed`: no monthly routine and no
task panics, interest in the pass included. A status check panics on a negative sum of delegated coins
(`math.Int.Uint64`); the recovered hook has then written its tasks and the index
but not the records, and what the theorems say is no longer true. On the
instance of the run `referral` no hook panics in any of its 674 thousand states,
and in general none does while `LinesExact` holds and no status requires coins
in the last line, as said above. Transactions and calls of other modules may
fail as they like, since they are undone.

**ReferralRecords, the lines.** `LinesAlwaysExact` (`LinesExact`): the
aggregates of a record, of coins, delegated coins and active members at each
distance, are those of the accounts at that distance. The property speaks of
walks down the tree, the code only ever adds along a walk up, so the invariant
(`LinesFit`) is local: every line of a record but its own and the last is the sum of
the line before it over the referrals (`Fit`), and a counter is within its width
and its own entry says whether the account is active (`Counted`). From there
`LinesExact` follows line by line (`TeamNext`, `LinesAgree`), where
`ReferralsForest` is needed for the teams of different referrals to be disjoint. The
sums and what a change of the tree does to them are at the end of
`ReferralProofs`; `ReferralRecords` follows the handlers.

* The counters are unsigned and wrap around (`uint64`, to which the code adds
  negative numbers), so `Fit` holds of them modulo `CountLimit` (`Eqv`) and of
  coins exactly. It is only at the end that the counters are equal to the sizes
  of the teams: with fewer accounts than a counter has values (`Roomy`, the third
  hypothesis) the only number in its range that agrees is the size itself.
* Within a handler the lines fit but for one account (`FitBut`): who joins, leaves
  or has other sums leaves his referrer without them (`OneFits`, `AddsFits`,
  `LeavesFits`, `GathersFits`). A climb whose gain moves one line further with
  every level (`Shifts`) hands the difference up, where the last line drops it
  (`ChainFits`, `ClimbFits`). All gains of the code are of that kind: a balance
  (`BringsShifts`), the sums that move with a transition (`CastsShifts`), and
  those of a compression (`RisingsShifts`), the lines of the one compressed taken
  off and put back one line closer, his own place then being empty (`RisenFits`).
* A transition climbs two chains at once that may meet, and at the accounts in
  both the difference cancels (`BothValue`, `BothMeet`); the account must be in
  neither (`RelocatedFits`).
* Genesis starts without sums: they are made by the balances that arrive, then by
  the accounts that become active (`FundedLined`, `RevivedLined`).

`HooksSucceed` is needed here too: a status check that panics between two levels
leaves the levels above without their sums. The handlers whose failure is undone
with their transaction need nothing.

Left to model checking: all liveness properties (`EventuallyPerformed`,
`EventuallyEnds`, `PollEventuallyEnds`, `EventuallyReturned`), and of `Referral`
`RestartKeeps`, which compares a state with the one that an export and an import
make of it: timers made again one balance after the other, statuses that rise with
them.

## Not modelled

* `x/earning`: two time stamps that expire; they change only the percentage of an
  accrual, which is left open.
* Of `x/referral`: the fees for referrers and validators, which are computed
  from the tree and change nothing in it; queries; the order of lists of
  referrals, which nothing depends on; the status HERO, which is only passed over.
* Of `x/profile`: card numbers (a bijection of account numbers), flags that no
  code reads, the token rate, the lists of signers.
* Of `x/bank`: vesting, which the chain has not, and blocked recipients, of which
  `app.go` gives none; the escrow of IBC, which moves coins and changes no supply.
* Amounts of interest, scores and block statistics: the models keep what the
  control flow depends on.
* The panic of `accrueToValidator` after `accrue` has paid (`hooks.go:103`), which
  the recovered hook would leave half done: it needs an account without a
  referral record, which genesis validation does not rule out but no transaction
  makes.
* Read-only code: queries, the bank, staking and IBC shims of `app`.
* The command line, `patch-genesis`, generated protocol code, `created_at.go`:
  input and output, or data.

## Plan

1. Proofs for `Referral`: that no hook panics (`HooksSucceed`), from `LinesExact`,
   where no status requires coins in the last line; what has to be added is that
   sums are not negative at the checks within a climb. Then `RestartKeeps`.
2. Compositions: the banishment of `Referral` with `Delegating` and `Noding`;
   `Profile` in place of `PayTariff` and `MonthOver` of `Referral`; abstract
   specifications of a validator set and of a delegation.
3. `Earning` and the percent table.
