-------------------------------- MODULE Bank --------------------------------
(***************************************************************************)
(* x/bank: the balances of accounts and modules and the total supply, which *)
(* is a record of its own and is kept up to date by every module that       *)
(* makes, exchanges or destroys coins.  One action is one operation on      *)
(* balances: the two messages of x/bank, and the helpers of x/delegating,   *)
(* x/noding, x/profile and of the transfer module of IBC that move coins.   *)
(* Who may call them, and when, is in the modules of those components; here *)
(* they come in any order.                                                  *)
(*                                                                          *)
(* There are no blocked recipients (app.go gives an empty map), and nothing *)
(* is locked.  The hooks on balances are those of module Referral.          *)
(***************************************************************************)
EXTENDS Fees

CONSTANTS
    Users, Company,   \* accounts
    Amounts,          \* bound: amounts of operations
    Wallet,           \* main coins of an account at genesis
    MinSend,          \* parameter min_send
    TransactionFee, MaxTransactionFee, \* parameters of the same name
    Ratios,           \* shares the government may set: transaction_fee_split_ratios
    Penalty,          \* parameter misbehaviour_penalty of x/noding
    RevokeBurns,      \* what revocations burn, parameters of x/delegating
    MaxTxs            \* bound: number of operations

Collectors == {"fee_collector", "splittable_fee_collector"}
Holders == Users \cup {Company} \cup Collectors \cup {"noding", "transfer"}
Denoms == {"main", "delegated", "revoking", "voucher"}

\* What the validations of the parameters let through: shares and penalties of
\* at most everything, a fee that is not negative but may exceed the amount.
ASSUME BankAssumption ==
    /\ IsFiniteSet(Users) /\ Company \notin Users
    /\ (Users \cup {Company}) \cap (Collectors \cup {"noding", "transfer"}) = {}
    /\ Amounts \subseteq Nat \ {0} /\ Wallet \in Nat /\ MinSend \in Nat
    /\ TransactionFee \in Fractions /\ MaxTransactionFee \in Nat /\ MaxTxs \in Nat
    /\ Ratios \subseteq [proposer : Fractions, company : Fractions]
    /\ \A r \in Ratios : Valid(r)
    /\ \A x \in RevokeBurns \cup {Penalty} : x \in Fractions /\ x.num <= x.den

VARIABLES
    balance,  \* coins of each holder, by denomination
    supply,   \* the record of the total supply
    ratios,   \* parameter transaction_fee_split_ratios
    blocked,  \* parameter blocked_senders
    txs,
    mixed     \* history variable: are there other coins than fees of the
              \* present ratios among the fees to be shared?

bankVars == <<balance, supply, ratios, blocked, txs, mixed>>

-----------------------------------------------------------------------------
(* Operators on balances.  Their callers check that there is enough.       *)

SubtractCoins(b, h, d, x) == [b EXCEPT ![h][d] = @ - x]
AddCoins(b, h, d, x) == [b EXCEPT ![h][d] = @ + x]
SendCoins(b, from, to, d, x) == AddCoins(SubtractCoins(b, from, d, x), to, d, x)

Inflate(s, d, x) == [s EXCEPT ![d] = @ + x]
Deflate(s, d, x) == [s EXCEPT ![d] = @ - x]

Fee(x) == CalculateFee(x, TransactionFee, MaxTransactionFee, ratios)

\* PayTxFee.
PayTxFee(b, h, x) == SendCoins(b, h, "splittable_fee_collector", "main", Fee(x))

Op == txs < MaxTxs /\ txs' = txs + 1
Settings == <<ratios, blocked>>

-----------------------------------------------------------------------------
\* MsgSend: the fee comes on top of the amount.
Send(a, to, x) ==
    /\ Op /\ x >= MinSend /\ a \notin blocked
    /\ balance[a]["main"] >= Fee(x) + x
    /\ balance' = SendCoins(PayTxFee(balance, a, x), a, to, "main", x)
    /\ mixed' = (mixed \/ to = "splittable_fee_collector")
    /\ UNCHANGED <<supply, Settings>>

\* MsgBurn.
Burn(a, x) ==
    /\ Op /\ balance[a]["main"] >= x
    /\ balance' = SubtractCoins(balance, a, "main", x)
    /\ supply' = Deflate(supply, "main", x)
    /\ UNCHANGED <<Settings, mixed>>

\* A service of x/profile: the fee is part of the price.
PayService(a, price) ==
    /\ Op /\ balance[a]["main"] >= price /\ Fee(price) <= price
    /\ balance' = SendCoins(PayTxFee(balance, a, price), a, Company, "main", price - Fee(price))
    /\ UNCHANGED <<supply, Settings, mixed>>

\* New nicknames, accounts and transitions are paid to the proposer.
PayProposer(a, price) ==
    /\ Op /\ balance[a]["main"] >= price
    /\ balance' = SendCoins(balance, a, "fee_collector", "main", price)
    /\ UNCHANGED <<supply, Settings, mixed>>

\* Coins x of denomination d become coins y of denomination e.
Exchange(b, a, d, x, e, y) == AddCoins(SubtractCoins(b, a, d, x), a, e, y)

\* Mutant of Exchanged: what comes out is what went in.
ExchangedMutant(s, d, x, e, y) == Inflate(Deflate(s, d, x), e, x)

\* The same of the supply.
Exchanged(s, d, x, e, y) == Inflate(Deflate(s, d, x), e, y)

\* Delegate, its payment and delegate: the fee is part of the amount.
Delegate(a, x) ==
    LET y == x - Fee(x)
    IN  /\ Op /\ balance[a]["main"] >= x /\ y >= 0
        /\ balance' = Exchange(PayTxFee(balance, a, x), a, "main", y, "delegated", y)
        /\ supply' = Exchanged(supply, "main", y, "delegated", y)
        /\ UNCHANGED <<Settings, mixed>>

\* freeze, called by Revoke: a part is burned.
Freeze(a, x, burn) ==
    LET y == x - MulInt64(burn, x)
    IN  /\ Op /\ balance[a]["delegated"] >= x
        /\ balance' = Exchange(balance, a, "delegated", x, "revoking", y)
        /\ supply' = Exchanged(supply, "delegated", x, "revoking", y)
        /\ UNCHANGED <<Settings, mixed>>

\* undelegate.
Undelegate(a, x) ==
    /\ Op /\ balance[a]["revoking"] >= x
    /\ balance' = Exchange(balance, a, "revoking", x, "main", x)
    /\ supply' = Exchanged(supply, "revoking", x, "main", x)
    /\ UNCHANGED <<Settings, mixed>>

\* accrue: the fee is taken from what is emitted.  A fee that exceeds it makes
\* the call panic when the supply is written and nothing is paid; in the hook
\* of a task x/schedule recovers the panic, and what is written stays.
Accrue(a, x) ==
    /\ Op
    /\ supply' = Inflate(supply, "main", x)
    /\ balance' = IF Fee(x) > x THEN balance
                  ELSE AddCoins(AddCoins(balance, "splittable_fee_collector", "main", Fee(x)),
                                a, "main", x - Fee(x))
    /\ UNCHANGED <<Settings, mixed>>

\* accrueToValidator: some accounts above get x each.
AccrueToValidator(above, x) ==
    /\ Op
    /\ balance' = [h \in Holders |->
                     IF h \in above THEN [balance[h] EXCEPT !["main"] = @ + x] ELSE balance[h]]
    /\ supply' = Inflate(supply, "main", x * Cardinality(above))
    /\ UNCHANGED <<Settings, mixed>>

\* confiscate: the supply stays, the owner changes.
Confiscate(a) ==
    LET x == MulInt64(Penalty, balance[a]["delegated"])
    IN  /\ Op /\ x > 0
        /\ balance' = SendCoins(balance, a, "noding", "delegated", x)
        /\ UNCHANGED <<supply, Settings, mixed>>

\* MintCoins by the transfer module for coins that arrive, and their delivery.
Receive(a, x) ==
    /\ Op
    /\ balance' = SendCoins(AddCoins(balance, "transfer", "voucher", x), "transfer", a, "voucher", x)
    /\ supply' = Inflate(supply, "voucher", x)
    /\ UNCHANGED <<Settings, mixed>>

\* BurnCoins by the transfer module for coins on their way back.
SendBack(a, x) ==
    /\ Op /\ balance[a]["voucher"] >= x
    /\ balance' = SubtractCoins(SendCoins(balance, a, "transfer", "voucher", x), "transfer", "voucher", x)
    /\ supply' = Deflate(supply, "voucher", x)
    /\ UNCHANGED <<Settings, mixed>>

\* PayProposerReward: all plain fees, and the shares of the others, of which
\* whatever the first two leave is burned.
PayProposerReward(a) ==
    LET collected == balance["splittable_fee_collector"]["main"]
        all == SplitFee(collected, ratios)
        s == [all EXCEPT !.proposer = Min({@, collected}),
                         !.company = Min({@, collected - Min({all.proposer, collected})})]
        plain == [balance EXCEPT ![a] = [d \in Denoms |-> @[d] + balance["fee_collector"][d]],
                                 !["fee_collector"] = [d \in Denoms |-> 0]]
        paid == SendCoins(SendCoins(plain, "splittable_fee_collector", a, "main", s.proposer),
                          "splittable_fee_collector", Company, "main", s.company)
        burned == collected - s.proposer - s.company
    IN  /\ Op
        /\ balance' = SubtractCoins(paid, "splittable_fee_collector", "main", burned)
        /\ supply' = Deflate(supply, "main", burned)
        /\ mixed' = FALSE
        /\ UNCHANGED Settings

-----------------------------------------------------------------------------
\* Decisions of the government, carried out by x/voting.
SetRatios(r) ==
    /\ Op /\ r # ratios /\ ratios' = r
    /\ mixed' = (mixed \/ balance["splittable_fee_collector"]["main"] # 0)
    /\ UNCHANGED <<balance, supply, blocked>>

SetBlocked(a) ==
    /\ Op /\ blocked' = IF a \in blocked THEN blocked \ {a} ELSE blocked \cup {a}
    /\ UNCHANGED <<balance, supply, ratios, mixed>>

Total(d) == MapThenSumSet(LAMBDA h : balance[h][d], Holders)

\* ExportGenesis and InitGenesis; a file without a supply gets the total.
Restart ==
    /\ supply' \in {supply, [d \in Denoms |-> Total(d)]}
    /\ UNCHANGED <<balance, ratios, blocked, txs, mixed>>

\* The first genesis file gives no supply, or the right one: InitGenesis stores
\* what a file gives, and neither it nor ValidateGenesis compares it with the
\* balances.
BankInit ==
    /\ balance = [h \in Holders |-> [d \in Denoms |-> IF h \in Users /\ d = "main" THEN Wallet ELSE 0]]
    /\ supply = [d \in Denoms |-> Total(d)]
    /\ ratios \in Ratios /\ blocked = {}
    /\ txs = 0 /\ mixed = FALSE

UserOp(a, x) ==
    \/ \E to \in Users \cup Collectors : Send(a, to, x)
    \/ Burn(a, x) \/ PayService(a, x) \/ PayProposer(a, x)
    \/ Delegate(a, x) \/ Undelegate(a, x) \/ (\E burn \in RevokeBurns : Freeze(a, x, burn))
    \/ Accrue(a, x) \/ Receive(a, x) \/ SendBack(a, x)

BankNext ==
    \/ \E a \in Users, x \in Amounts : UserOp(a, x)
    \/ \E above \in SUBSET Users \ {{}}, x \in Amounts : AccrueToValidator(above, x)
    \/ \E a \in Users : Confiscate(a) \/ PayProposerReward(a) \/ SetBlocked(a)
    \/ \E r \in Ratios : SetRatios(r)
    \/ Restart

BankSpec == BankInit /\ [][BankNext]_bankVars

-----------------------------------------------------------------------------
\* The types of the variables.
BankTypeOK ==
    /\ balance \in [Holders -> [Denoms -> Nat]] /\ supply \in [Denoms -> Nat]
    /\ ratios \in Ratios /\ blocked \subseteq Users
    /\ txs \in 0..MaxTxs /\ mixed \in BOOLEAN

\* The recorded supply of every denomination is what all accounts and modules
\* own, although payments, exchanges, emission, confiscation, burned fees and
\* vouchers change the two in different modules.
SupplyMatches == \A d \in Denoms : supply[d] = Total(d)

\* The fees that wait for a proposer can be shared to the last coin: the three
\* shares, rounded down one by one, add up to them, unless the ratios changed
\* meanwhile or somebody sent coins to the collector; and then they do not
\* exceed them, so that no share is cut and no transfer fails.
SharesAddUp ==
    LET collected == balance["splittable_fee_collector"]["main"]
        s == SplitFee(collected, ratios)
        shared == s.proposer + s.company + s.burning
    IN  shared <= collected /\ (~mixed => shared = collected)
=============================================================================
