------------------------------ MODULE Profile -------------------------------
(***************************************************************************)
(* x/profile on top of x/schedule: the monthly tariff, the storage and VPN *)
(* traffic that come with it, the extra storage of the messenger (IM),     *)
(* which is rented by months of its own, and the index of nicknames.       *)
(*                                                                         *)
(* Prices are in whole coins: the token rate is left out.  Card numbers,   *)
(* a bijection of account numbers, and the flags that no code reads are    *)
(* left out too, and so are the signers of readings.  Of x/referral only   *)
(* the activity flag is kept (ComeBack of a banished account is in module  *)
(* Referral).  SetProfile validates the nickname it stores every time; for *)
(* one that does not change this cannot fail, which is NicknamesIndexed.   *)
(*                                                                         *)
(* The scheduler is that of module Schedule, with blocks less than a month *)
(* apart: the tasks due in a block are collected when its pass begins, and *)
(* no hook schedules anything that is due at once (the exception is extra  *)
(* storage that came with an account and ended more than a month ago).     *)
(*                                                                         *)
(* MsgCreateAccount carries a profile, and the code stores it as it comes: *)
(* months, storage and traffic that nobody has paid for, without a task.   *)
(* The variable gifts tells these accounts from those that buy what they   *)
(* have.  Readings of the consumption are stored as they come, too; overs  *)
(* are the accounts whose service reported more than their limits.         *)
(***************************************************************************)
EXTENDS TaskStore, Integers, FiniteSetsExt

CONSTANTS
    Accounts,       \* addresses
    Subscribers,    \* bound: those who buy services
    Founders,       \* accounts of the genesis file
    Wallets,        \* assignments of balances at genesis
    NewProfiles,    \* profiles that MsgCreateAccount may carry
    Names,          \* nicknames that MsgUpdateProfile may carry
    Lower, Trimmed, \* the key of a nickname as it is, and without its spaces
    Gbs,            \* numbers of gigabytes that are bought or given up
    Readings,       \* what the services report as consumed
    BaseStorage, BaseVpn,       \* parameters base_storage_gb, base_vpn_gb
    Price, GbPrice, VpnGbPrice, \* subscription_price, storage_gb_price, vpn_gb_price
    RenamePrice,    \* parameter rename_price: what a new account costs
    NicknameFee,    \* what a nickname costs
    TxFee,          \* the maximal fee, which PayTxFee takes out of a price
    Month,          \* OneMonth of x/schedule
    Word,           \* 2^64, the number of values of an uint64
    MaxGap,         \* most time between two blocks
    MaxNow,         \* bound: time of the last block
    MaxTxs,         \* bound: number of transactions
    MaxRestarts,    \* bound: number of restarts from an exported file
    NoName, NoTime, NoProfile

Times == Nat \cup {NoTime}

Profile ==
    [activeUntil : Times, autoPay : BOOLEAN, nickname : DOMAIN Trimmed,
     storageLimit : Nat, storageCurrent : Nat, vpnLimit : Nat, vpnCurrent : Nat,
     imExtra : Nat, imUntil : Times, imAuto : BOOLEAN]

\* Without a tariff, traffic or extra storage.
Unsubscribed(p) ==
    /\ p.activeUntil = NoTime /\ p.imUntil = NoTime /\ p.imExtra = 0
    /\ p.vpnLimit = 0 /\ p.vpnCurrent = 0 /\ p.storageCurrent <= p.storageLimit

\* Lower[n] and Trimmed[n] differ by the spaces around the name n: when Lower[n]
\* is a key that has been trimmed, there are none.  NoName is the empty string: a
\* nickname of spaces only is another one, but the same when it is trimmed.  A price
\* is never negative, for the month is not cheaper than the storage it comes with.
ASSUME ProfileAssumption ==
    /\ Subscribers \subseteq Accounts /\ Founders \subseteq Accounts
    /\ Wallets \subseteq [Accounts -> Nat]
    /\ NewProfiles \subseteq Profile /\ NoProfile \notin Profile
    /\ Names \subseteq DOMAIN Trimmed /\ DOMAIN Lower = DOMAIN Trimmed
    /\ \A m, n \in DOMAIN Trimmed : Lower[m] = Trimmed[n] => Lower[m] = Trimmed[m]
    /\ NoName \in DOMAIN Trimmed /\ Trimmed[NoName] = NoName /\ NoTime \notin Nat
    /\ Month \in Nat \ {0} /\ MaxGap \in 1..(Month - 1)
    /\ BaseStorage \in Nat \ {0} /\ BaseVpn \in Nat \ {0} /\ Gbs \subseteq Nat \ {0}
    /\ Readings \subseteq Nat
    /\ Price \in Nat /\ BaseStorage * GbPrice <= Price /\ GbPrice \in Nat \ {0} /\ VpnGbPrice \in Nat
    /\ RenamePrice \in Nat /\ NicknameFee \in Nat /\ TxFee \in Nat /\ Word \in Nat
    /\ MaxNow \in Nat /\ MaxTxs \in Nat /\ MaxRestarts \in Nat

\* Bound on transactions: the traffic that is bought, which the code counts in
\* bytes, fits into an uint64 (2^34 gigabytes).
ASSUME TrafficAssumption ==
    BaseVpn < Word /\ \A gb \in Gbs : BaseVpn + MaxTxs * gb < Word

VARIABLES
    now, phase, \* of the current block: "genesis", "pass" of the schedule, "txs"
    due,        \* tasks of the pass that have not run yet
    tasks,      \* the task store of x/schedule
    profile,    \* the profiles
    index,      \* the store of nicknames: key to account
    active,     \* x/referral: who is active
    balance,    \* x/bank: coins of the main denomination
    txs, restarts,
    ahead,      \* history variable: months paid for that have not begun
    spare,      \* history variable: traffic bought and not used up
    gifts,      \* history variable: accounts that came with something to be paid for
    overs       \* history variable: accounts that have been read beyond a limit

marks == <<gifts, overs>>
history == <<ahead, spare, marks>>
vars == <<now, phase, due, tasks, profile, index, active, balance, txs, restarts, history>>

\* A profile of which nothing is set.
Blank ==
    [activeUntil |-> NoTime, autoPay |-> FALSE, nickname |-> NoName,
     storageLimit |-> 0, storageCurrent |-> 0, vpnLimit |-> 0, vpnCurrent |-> 0,
     imExtra |-> 0, imUntil |-> NoTime, imAuto |-> FALSE]

Exists(a) == profile[a] # NoProfile

IsActiveAt(p, time) == p # NoProfile /\ p.activeUntil # NoTime /\ p.activeUntil > time
IsActive(p) == IsActiveAt(p, now)

IsExtraImStorageActive(p) == p.imExtra # 0 /\ p.imUntil # NoTime /\ p.imUntil > now

\* The tasks of the module.  Those of one time may run in any order.
Timer(time, handler, a) == [id |-> 0, time |-> time, handler |-> handler, data |-> a]

\* Mutant of scheduleRenew: a month from now.
scheduleRenewMutant(store, a, time) == Put(store, Timer(now + Month, "refresh", a))

scheduleRenew(store, a, time) == Put(store, Timer(time, "refresh", a))

scheduleRenewIm(store, a, time) == Put(store, Timer(time, "refresh-im", a))

\* What a monthly price comes to for the time that is left of the month.
MonthPart(price, end) == (price * (end - now)) \div Month

-----------------------------------------------------------------------------
\* SetProfile.  MustSetActive is called when the stored activity changes.
SetProfile(a, p) ==
    /\ profile' = [profile EXCEPT ![a] = p]
    /\ active' = IF IsActive(p) = IsActive(profile[a]) THEN active
                 ELSE [active EXCEPT ![a] = IsActive(p)]

\* Mutant of MayHold: a name is compared as it is.
MayHoldMutant(a, name) ==
    Trimmed[name] # NoName /\ Lower[name] \in DOMAIN index => index[Lower[name]] = a

\* ValidateProfileNickname: nobody else has it, or nothing is left of it trimmed.
MayHold(a, name) ==
    Trimmed[name] # NoName /\ Trimmed[name] \in DOMAIN index => index[Trimmed[name]] = a

\* The store of nicknames without the old one, which is looked up as it is
\* stored, and with the new one, which is trimmed, if there is anything left.
Renamed(a, old, new) ==
    LET keys == DOMAIN index \ (IF old = NoName THEN {} ELSE {Lower[old]})
    IN  IF Trimmed[new] = NoName THEN [k \in keys |-> index[k]]
        ELSE [k \in keys \cup {Trimmed[new]} |-> IF k = Trimmed[new] THEN a ELSE index[k]]

\* resetLimits: traffic beyond the base is taken off what was bought.
Over(p) == IF p.vpnCurrent > BaseVpn THEN p.vpnCurrent - BaseVpn ELSE 0

\* Mutant of resetLimits: without the comparison of the consumption with the base.
resetLimitsMutant(p) ==
    [p EXCEPT !.vpnLimit = Max({(@ - (p.vpnCurrent - BaseVpn)) % Word, BaseVpn}),
              !.vpnCurrent = 0,
              !.storageLimit = IF @ = 0 THEN BaseStorage ELSE @]

resetLimits(p) ==
    [p EXCEPT !.vpnLimit = Max({(@ - Over(p)) % Word, BaseVpn}),
              !.vpnCurrent = 0,
              !.storageLimit = IF @ = 0 THEN BaseStorage ELSE @]

-----------------------------------------------------------------------------
(* Transactions.                                                           *)

Tx == phase = "txs" /\ txs < MaxTxs /\ txs' = txs + 1

Pay(a, price) == balance[a] >= price /\ balance' = [balance EXCEPT ![a] = @ - price]

\* MsgCreateAccount, paid by another account or, for parameter creators, by none.
\* Nothing of the profile is checked but its nickname, and no task is scheduled.
CreateAccount(a, p, creator) ==
    /\ Tx /\ ~Exists(a) /\ creator # a
    /\ MayHold(a, p.nickname)
    /\ Pay(creator, RenamePrice) \/ UNCHANGED balance
    /\ SetProfile(a, p)
    /\ index' = Renamed(a, NoName, p.nickname)
    /\ gifts' = IF Unsubscribed(p) THEN gifts ELSE gifts \cup {a}
    /\ UNCHANGED <<now, phase, due, tasks, restarts, ahead, spare, overs>>

\* MsgUpdateProfile with a nickname.  Another one costs a fee, a blank one is free.
Rename(a, name) ==
    LET old == profile[a].nickname
    IN  /\ Tx /\ Exists(a) /\ name # old /\ MayHold(a, name)
        /\ IF Trimmed[name] = NoName THEN UNCHANGED balance ELSE Pay(a, NicknameFee)
        /\ SetProfile(a, [profile[a] EXCEPT !.nickname = name])
        /\ index' = Renamed(a, old, name)
        /\ UNCHANGED <<now, phase, due, tasks, restarts, history>>

\* MsgUpdateProfile with the flags of the automatic payments.
SetAutoPay(a, tariff, im) ==
    /\ Tx /\ Exists(a)
    /\ SetProfile(a, [profile[a] EXCEPT !.autoPay = tariff, !.imAuto = im])
    /\ profile' # profile
    /\ UNCHANGED <<now, phase, due, tasks, index, balance, restarts, history>>

\* The storage a tariff is paid for; 0 stands for what the account has.
Storage(p, gb) ==
    IF gb # 0 THEN gb ELSE IF p.storageLimit = 0 THEN BaseStorage ELSE p.storageLimit

\* The month, its storage, and a change of storage until the next month begins.
TariffPrice(p, storage) ==
    LET extra == (storage - BaseStorage) * Month
        rest == (storage - p.storageLimit) * (p.activeUntil - now)
        fee == IF IsActive(p) /\ storage # p.storageLimit THEN Max({0, extra + rest}) ELSE extra
    IN  Price + (fee * GbPrice) \div Month

\* Mutant of Prolonged: a month from now, whatever has been paid for.
ProlongedMutant(p, auto) ==
    IF ~auto THEN now + Month ELSE p.activeUntil + Month

\* Only a payment that is neither early nor automatic counts from now.
Prolonged(p, auto) ==
    IF ~IsActive(p) /\ ~auto THEN now + Month ELSE p.activeUntil + Month

\* PayTariff of the keeper.  Early payments reset the limits when their month
\* begins; the storage is changed only for who is active.
PayTariff(a, gb, auto) ==
    LET p == profile[a]
        storage == Storage(p, gb)
        early == IsActive(p) /\ ~auto
        paid == [p EXCEPT !.activeUntil = Prolonged(p, auto),
                          !.storageLimit = IF IsActive(p) THEN storage ELSE @]
    IN  /\ gb # 0 => gb >= BaseStorage /\ gb >= p.storageCurrent
        /\ Pay(a, TariffPrice(p, storage))
        /\ SetProfile(a, IF early THEN paid ELSE resetLimits(paid))
        /\ tasks' = scheduleRenew(tasks, a, paid.activeUntil)
        /\ ahead' = [ahead EXCEPT ![a] = IF early THEN @ + 1 ELSE @]
        /\ spare' = [spare EXCEPT ![a] = IF early THEN @ ELSE @ - Over(p)]

\* MsgPayTariff.
PayTariffTx(a, gb) ==
    /\ Tx /\ Exists(a)
    /\ PayTariff(a, gb, FALSE)
    /\ UNCHANGED <<now, phase, due, index, restarts, marks>>

\* A price of 0 is a panic.
BuyStorage(a, gb) ==
    LET p == profile[a]
        price == MonthPart(gb * GbPrice, p.activeUntil)
    IN  /\ Tx /\ IsActive(p) /\ price > 0
        /\ Pay(a, price)
        /\ SetProfile(a, [p EXCEPT !.storageLimit = Max({@, BaseStorage}) + gb])
        /\ UNCHANGED <<now, phase, due, tasks, index, restarts, history>>

GiveStorageUp(a, gb) ==
    LET p == profile[a]
        limit == Max({gb, BaseStorage})
    IN  /\ Tx /\ Exists(a)
        /\ limit >= p.storageCurrent /\ limit < p.storageLimit
        /\ SetProfile(a, [p EXCEPT !.storageLimit = limit])
        /\ UNCHANGED <<now, phase, due, tasks, index, balance, restarts, history>>

BuyVpn(a, gb) ==
    LET p == profile[a]
    IN  /\ Tx /\ IsActive(p)
        /\ Pay(a, gb * VpnGbPrice)
        /\ SetProfile(a, [p EXCEPT !.vpnLimit = (@ + gb) % Word])
        /\ spare' = [spare EXCEPT ![a] = @ + gb]
        /\ UNCHANGED <<now, phase, due, tasks, index, restarts, ahead, marks>>

\* Readings of the consumption: the signers may report anything.
SetCurrent(a, storage, vpn) ==
    LET p == profile[a]
    IN  /\ Tx /\ Exists(a)
        /\ SetProfile(a, [p EXCEPT !.storageCurrent = storage, !.vpnCurrent = vpn])
        /\ profile' # profile
        /\ overs' = IF storage > p.storageLimit \/ vpn > p.vpnLimit THEN overs \cup {a} ELSE overs
        /\ UNCHANGED <<now, phase, due, tasks, index, balance, restarts, ahead, spare, gifts>>

SetStorageCurrent(a, value) == SetCurrent(a, value, profile[a].vpnCurrent)
SetVpnCurrent(a, value) == SetCurrent(a, profile[a].storageCurrent, value)

\* More of the storage for the messenger, for the rest of its month, or a month.
BuyImStorage(a, gb) ==
    LET p == profile[a]
        timerSet == IsExtraImStorageActive(p)
        price == IF timerSet THEN MonthPart(gb * GbPrice, p.imUntil) ELSE gb * GbPrice
        until == IF timerSet THEN p.imUntil ELSE now + Month
    IN  /\ Tx /\ Exists(a) /\ price > 0
        /\ Pay(a, price)
        /\ SetProfile(a, [p EXCEPT !.imExtra = IF timerSet THEN @ + gb ELSE gb,
                                   !.imUntil = until])
        /\ tasks' = IF timerSet THEN tasks ELSE scheduleRenewIm(tasks, a, until)
        /\ UNCHANGED <<now, phase, due, index, restarts, history>>

\* Mutant of WithoutIm: the task stays.
WithoutImMutant(store, a) == store

\* The task store without the task of the extra storage.
WithoutIm(store, a) == Remove(store, profile[a].imUntil, "refresh-im", a)

GiveImStorageUp(a, gb) ==
    LET p == profile[a]
    IN  /\ Tx /\ Exists(a)
        /\ gb < (IF IsExtraImStorageActive(p) THEN p.imExtra ELSE 0)
        /\ SetProfile(a, [p EXCEPT !.imExtra = gb,
                                   !.imUntil = IF gb = 0 THEN NoTime ELSE @])
        /\ tasks' = IF gb = 0 THEN WithoutIm(tasks, a) ELSE tasks
        /\ UNCHANGED <<now, phase, due, index, balance, restarts, history>>

ImPrice(p) == p.imExtra * GbPrice

\* prolongImExtra: a month that begins when the present one ends.
prolongImExtra(a) ==
    LET p == profile[a]
    IN  /\ p.imExtra # 0 /\ p.imUntil # NoTime
        /\ Pay(a, ImPrice(p))
        /\ SetProfile(a, [p EXCEPT !.imUntil = @ + Month])
        /\ tasks' = scheduleRenewIm(WithoutIm(tasks, a), a, p.imUntil + Month)

\* MsgProlongImExtra.
ProlongImExtra(a) ==
    /\ Tx /\ Exists(a)
    /\ prolongImExtra(a)
    /\ UNCHANGED <<now, phase, due, index, restarts, history>>

-----------------------------------------------------------------------------
(* Hooks of the schedule.                                                  *)

Hook(t) == phase = "pass" /\ t \in due /\ due' = due \ {t}

\* monthlyRoutine: the month has been paid for already.
BeginMonth(t) ==
    LET a == t.data
    IN  /\ Hook(t) /\ t.handler = "refresh" /\ IsActive(profile[a])
        /\ SetProfile(a, resetLimits(profile[a]))
        /\ ahead' = [ahead EXCEPT ![a] = @ - 1]
        /\ spare' = [spare EXCEPT ![a] = @ - Over(profile[a])]
        /\ UNCHANGED <<now, phase, tasks, index, balance, txs, restarts, marks>>

\* monthlyRoutine: a payday.
AutoPay(t) ==
    /\ Hook(t) /\ t.handler = "refresh" /\ ~IsActive(profile[t.data])
    /\ profile[t.data].autoPay /\ PayTariff(t.data, 0, TRUE)
    /\ UNCHANGED <<now, phase, index, txs, restarts, marks>>

\* Mutant of Deactivated: the hook ends without MustSetActive.
DeactivatedMutant(a) == active

\* MustSetActive(false).
Deactivated(a) == [active EXCEPT ![a] = FALSE]

\* monthlyRoutine: a payday without a payment.
Expire(t) ==
    LET p == profile[t.data]
    IN  /\ Hook(t) /\ t.handler = "refresh" /\ ~IsActive(p)
        /\ p.autoPay => balance[t.data] < TariffPrice(p, Storage(p, 0))
        /\ active' = Deactivated(t.data)
        /\ UNCHANGED <<now, phase, tasks, profile, index, balance, txs, restarts, history>>

\* monthlyImRoutine, with a payment that succeeds.
AutoProlong(t) ==
    /\ Hook(t) /\ t.handler = "refresh-im"
    /\ profile[t.data].imAuto /\ prolongImExtra(t.data)
    /\ UNCHANGED <<now, phase, index, txs, restarts, history>>

\* monthlyImRoutine otherwise.  PayTxFee is not undone when the rest of the
\* price cannot be paid.
ExpireIm(t) ==
    LET a == t.data
        p == profile[a]
        fee == Min({TxFee, ImPrice(p)})
        tried == p.imAuto /\ p.imExtra # 0 /\ p.imUntil # NoTime
    IN  /\ Hook(t) /\ t.handler = "refresh-im"
        /\ tried => balance[a] < ImPrice(p)
        /\ balance' = [balance EXCEPT ![a] = IF tried /\ @ >= fee THEN @ - fee ELSE @]
        /\ SetProfile(a, [p EXCEPT !.imExtra = 0, !.imUntil = NoTime, !.imAuto = FALSE])
        /\ UNCHANGED <<now, phase, tasks, index, txs, restarts, history>>

-----------------------------------------------------------------------------
\* BeginBlocker of x/schedule collects the tasks that are due.
BeginBlock ==
    /\ \/ phase = "txs" /\ now' \in (now + 1)..Min({now + MaxGap, MaxNow})
       \/ phase = "genesis" /\ now' = now
    /\ phase' = "pass"
    /\ due' = DueAt(tasks, now') /\ tasks' = tasks \ due'
    /\ UNCHANGED <<profile, index, active, balance, txs, restarts, history>>

EndPass ==
    /\ phase = "pass" /\ due = {} /\ phase' = "txs"
    /\ UNCHANGED <<now, due, tasks, profile, index, active, balance, txs, restarts, history>>

\* ExportProfileRecords, and ImportProfileRecords some time later: nicknames and
\* activity are made anew out of the profiles.
Restart ==
    LET named == {a \in Accounts : Exists(a) /\ Trimmed[profile[a].nickname] # NoName}
    IN  /\ phase = "txs" /\ restarts < MaxRestarts /\ restarts' = restarts + 1
        /\ now' \in now..Min({now + MaxGap, MaxNow}) /\ phase' = "genesis"
        /\ index' = [k \in {Trimmed[profile[a].nickname] : a \in named} |->
                       CHOOSE a \in named : Trimmed[profile[a].nickname] = k]
        /\ active' = [a \in Accounts |-> IsActiveAt(profile[a], now')]
        /\ UNCHANGED <<due, tasks, profile, balance, txs, history>>

Init ==
    /\ now = 0 /\ phase = "genesis" /\ due = {} /\ tasks = {}
    /\ profile = [a \in Accounts |-> IF a \in Founders THEN Blank ELSE NoProfile]
    /\ index = <<>>
    /\ active = [a \in Accounts |-> FALSE]
    /\ balance \in Wallets
    /\ txs = 0 /\ restarts = 0
    /\ ahead = [a \in Accounts |-> 0] /\ spare = [a \in Accounts |-> 0]
    /\ gifts = {} /\ overs = {}

Purchase(a) ==
    \/ \E on, im \in BOOLEAN : SetAutoPay(a, on, im)
    \/ \E gb \in Gbs \cup {0} : PayTariffTx(a, gb)
    \/ \E gb \in Gbs : BuyStorage(a, gb) \/ BuyVpn(a, gb) \/ BuyImStorage(a, gb)
    \/ \E gb \in Gbs \cup {0} : GiveStorageUp(a, gb) \/ GiveImStorageUp(a, gb)
    \/ \E value \in Readings : SetStorageCurrent(a, value) \/ SetVpnCurrent(a, value)
    \/ ProlongImExtra(a)

Perform(t) == BeginMonth(t) \/ AutoPay(t) \/ Expire(t) \/ AutoProlong(t) \/ ExpireIm(t)

Next ==
    \/ \E a, creator \in Accounts, p \in NewProfiles : CreateAccount(a, p, creator)
    \/ \E a \in Accounts, name \in Names : Rename(a, name)
    \/ \E a \in Subscribers : Purchase(a)
    \/ \E t \in due : Perform(t)
    \/ BeginBlock \/ EndPass \/ Restart

Spec == Init /\ [][Next]_vars

-----------------------------------------------------------------------------
\* The types of the variables.
TypeOK ==
    /\ now \in 0..MaxNow /\ phase \in {"genesis", "pass", "txs"}
    /\ due \subseteq Task({"refresh", "refresh-im"}, Accounts)
    /\ tasks \subseteq Task({"refresh", "refresh-im"}, Accounts)
    /\ profile \in [Accounts -> Profile \cup {NoProfile}]
    /\ \A k \in DOMAIN index : index[k] \in Accounts
    /\ active \in [Accounts -> BOOLEAN] /\ balance \in [Accounts -> Nat]
    /\ txs \in 0..MaxTxs /\ restarts \in 0..MaxRestarts
    /\ ahead \in [Accounts -> Int] /\ spare \in [Accounts -> Int]
    /\ gifts \subseteq Accounts /\ overs \subseteq Accounts

\* The tasks for an account that have not run, as times.
TimesOf(handler, a) == {t.time : t \in {u \in tasks \cup due : u.handler = handler /\ u.data = a}}

\* The accounts that have nothing but what they have bought.
Buyers == {a \in Accounts : Exists(a)} \ gifts

\* Paid months end with a renewal, whatever was paid, when and by whom: an
\* active buyer has a task for the end of its last month (scheduleRenew), and
\* none for a later time, which would find it renewed or inactive by then.
RenewalArmed ==
    \A a \in Buyers :
      /\ active[a] => profile[a].activeUntil \in TimesOf("refresh", a)
      /\ \A time \in TimesOf("refresh", a) : time <= profile[a].activeUntil

\* The activity that x/referral keeps of a buyer, which SetProfile, the hook and the
\* import set separately, is that of the profile whenever transactions run.
ActivityAgrees ==
    phase = "txs" => \A a \in Buyers : active[a] = IsActive(profile[a])

\* Every month that is paid for is given, once: tasks of months paid for early
\* begin their month and charge nothing (monthlyRoutine), so what is left of the
\* paid time of a buyer is the present month and the months ahead.
FreshMonths ==
    phase = "txs" =>
      \A a \in Buyers : active[a] =>
        LET left == profile[a].activeUntil - now
        IN  ahead[a] * Month < left /\ left <= (ahead[a] + 1) * Month

\* "An account has extra IM space if and only if it's a moment in the future":
\* the extra storage that a buyer has for the messenger, its end and its only task
\* come and go together, through purchases, give-ups and renewals that fail.
ImArmed ==
    \A a \in Buyers :
      LET p == profile[a]
      IN  /\ TimesOf("refresh-im", a) = {p.imUntil} \ {NoTime}
          /\ (p.imExtra > 0) = (p.imUntil # NoTime)
          /\ phase = "txs" /\ p.imUntil # NoTime => p.imUntil > now

\* Whoever holds a nickname that is not blank is found by it, so no two accounts
\* have names that differ by case and spaces only, whatever renames and restarts.
NicknamesIndexed ==
    \A a \in Accounts : Exists(a) =>
      LET key == Trimmed[profile[a].nickname]
      IN  key # NoName => key \in DOMAIN index /\ index[key] = a

\* Limits that cover the consumption when it is read go on to cover it, whatever
\* storage is given up, and traffic that is bought lasts until it is used up: the
\* unsigned difference of resetLimits never wraps around.
LimitsHold ==
    \A a \in Buyers \ overs :
      LET p == profile[a]
      IN  /\ p.storageCurrent <= p.storageLimit /\ p.vpnCurrent <= p.vpnLimit
          /\ p.activeUntil # NoTime => p.vpnLimit = BaseVpn + spare[a]

\* "Active - does the account keeper have a paid subscription" (x/referral), of
\* every account, one that was created with months of its own included.
SubscriptionPaid ==
    phase = "txs" => \A a \in Accounts : active[a] => IsActive(profile[a])
=============================================================================
