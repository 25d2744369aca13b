# TLA+ models of the RAMS contracts

This directory holds TLA+ modules for the smart contracts under `src/contracts`, TLC
configurations that check them on small instances, and TLAPS proofs about them.

## The system

All contracts run on an EOS chain. A transaction is atomic: a failed `check` anywhere in it,
in an action, in a notification handler or in an inline action, undoes all of it. There is no
concurrency inside a transaction; what interleaves are whole transactions of many accounts.
An inline action runs after the body of the action that sent it, depth first. One transaction
is therefore one step of every model, and a check is a guard. `TokenRms` alone takes a
transaction apart: A that arrives is converted by an inline purchase of RAM, whose
notification comes later, and a payer that is a contract can have further conversions run
before it. There the conversions are steps, and a transaction that fails takes them back.

| part | state | operations | talks to |
| --- | --- | --- | --- |
| `rambank.eos` | config, stat, deposits, borrows, renttokens, rents, userrewards; RAM in `ramdeposit11`, rewards in `stramreward1` | deposit (RAM transfer), withdraw, transfer, freeze, unfreeze, borrow, repay (RAM transfer), rent (token transfer), settings, gas fund | `eosio` for RAM, token contracts, `honor.rms`, `stake.rms` |
| `ramx.eos` | config, stat, orders, globalid; EOS | sellorder, buyorder (EOS transfer), cancelorder, cancelallord, sell, buy (EOS transfer), settings | inline freeze, unfreeze, transfer of `rambank.eos`; `eosio.token` |
| `stake.rms` | config, stat, stake, unstake, borrow, renttoken, rent, reward; V and rent tokens; RAM in `bank.rms` | init (migration of `rambank.eos`), stake (V transfer), unstake, restake, withdraw, rams2v, borrow, repay, rent, claim, settings | reads `rambank.eos`; notifies `miner.rms`; `token.rms` |
| `miner.rms` | poolinfo, userinfo, stat | addpool, setpool, initusers, syncuser, stakechange, claim, funding | reads `stake.rms` |
| `honor.rms` | veterans, veteranstats, config | swap RAMS for V (RAMS transfer), gas fund (BTC transfer), claim, updatestatus | `rams2v` of `stake.rms` |
| `token.rms` | V accounts and supply, config | RAM to V, A to V through an inline buyram, the usual token actions | `bank.rms`, core.vaulta |
| `rams.eos`, `swaprams.eos`, `newrams.eos` | inscriptions; RAMS token | erase and swap of inscriptions (mint and transfer are closed) | each other |

What is hard in this code, and what the properties are for:

* *Settlement order.* Rewards use an accumulator per share and a debt per account. Each path
  that changes an amount must settle with the old amount and the total of before.
* *Two contracts, one fact.* Frozen bytes in `rambank.eos` stand for open sell orders in
  `ramx.eos`; EOS in `ramx.eos` for open buy orders; a list of orders is traded with some
  entries skipped, one's own orders included.
* *Derived totals.* stat rows repeat sums over tables and divide rewards.
* *Integer width.* uint64 subtraction, an `int` that receives a uint64, rounding.
* *Time and limits.* Unstaked V can be restaked until it expires and withdrawn afterwards,
  a limited number of rows at a time; row ids are reused.
* *Once-only migration* from one contract's tables into another's.
* *Batches.* `initusers` of `miner.rms` reads the stakers of `stake.rms` a few at a time while
  their stakes go on changing, and finds its place again from its own table.
* *State left for a callback.* `token.rms` keeps the payer of A in a singleton until `eosio`
  logs the purchase.

`PROJECT.json` lists each hazard at its line with the properties that cover it.

## Modules

| module | models |
| --- | --- |
| `RamBank` | `rambank.eos`. One action per contract action or transfer handler. |
| `RamX` | `ramx.eos`, extending `RamBank`: an action changes the tables of both contracts, as the inline actions do. |
| `StakeRms` | `stake.rms`, with the tables of `rambank.eos` it migrates as constants. |
| `MinerRms` | `miner.rms`, extending `StakeRms`: a change of a stake and the notification of `miner.rms` are one step. |
| `SwapRams` | `swaprams.eos`, with what it uses of `rams.eos` (erase) and `newrams.eos` (issue, transfer). |
| `HonorRms` | `honor.rms`, extending `StakeRms` and `SwapRams`, with `do_distribute_gasfund` of `rambank.eos`. |
| `TokenRms` | `token.rms`, extending `StakeRms`: the ledger of the V that `StakeRms` holds. |
| `VLedger` | abstract: what V promises its owners, whatever contracts hold it. |
| `MCRamBank`, `MCRamX`, `MCStakeRms`, `MCMinerRms`, `MCHonorRms`, `MCTokenRms` | instances and restricted next-state relations for TLC. |
| `NumberLemmas` | lemmas about sums over finite sets (`SumFunctionOnSet`), integer division and least elements. |
| `RamBankProofs`, `RamXProofs`, `StakeRmsProofs`, `TokenRmsProofs`, `MinerRmsProofs`, `HonorRmsProofs`, `VLedgerProofs` | the theorems about the module each is named after. |

### Correspondence with the code

*Tables* keyed by account are total functions: no handler tells a missing row from a row of
zeros, except where a flag `exists` or `listed` is part of the row (settings, rent tokens, the
stake and borrow rows that `init` must not meet, the order table). Names of fields are those
of the code.

*RAM and tokens.* A transfer of RAM or tokens is a change of the two balances involved when a
contract of the system holds one of them. What users hold is not modelled, so any amount from
a small set may arrive. The RAM table rows cost is not modelled.

*Lists of order ids.* `do_buy`, `sell` and `cancelorder` walk a list. `Walk` says which
set of orders the walk executes: exactly those of the right type that fit what the executed
ones before them left of the payment, or of the free bytes. The effects of the inline actions
add up, and settling an account several times at one accumulator telescopes.

*Withdrawal of V.* `Due` says which rows the walk of the index byunstaking erases.

*Authority* is not a guard: every account may call what the code lets some account call.
`require_auth` of the contract's own account is the disjunct `AdminNext`, `ExchangeAdmin` or
`OwnNext`. Freeze, unfreeze and moves of bytes in `RamBank` alone (`RamxNext`) stand for any
exchange with the authority of `ramx.eos`; `RamX` replaces them by the real one.

*Pools.* `initusers` walks the stake table from its last own record on. `Ahead` is what lies
before it, `IsBatch` which stakers a call adds (rows without a stake are walked over and do
not count), `ReachesEnd` when the pool is initialized. A claim, a notification and
`syncuser` first bring the pool up to the block (`UpdatedPool`); `setpool` does so even when
the pool is not initialized.

*Gas fund.* `GasFund` is `do_distribute_gasfund` with both handlers it notifies.
`DistributeToVeterans` walks the index bybytes backwards; `Gain` says what each veteran
gets. `HonorRms` leaves the notification of `miner.rms` by `rams2v` to `MinerRms`.

*Stake given for RAMS.* `stakeGiven` is a history variable, read by no action: the stake that
`rams2v` has moved to those who sent RAMS to `honor.rms`, also after the deadline, when no
row of `veterans` is written. RAMS_DAO converting its own RAMS moves nothing.

*Migration.* `BankFrozen` are the accounts whose frozen bytes make `init` abort;
`BankBorrowers` have a row in the borrow table of `rambank.eos`, which `init` emplaces even
when it was repaid to 0 bytes. Deposits of 0 bytes are skipped.

*Inscriptions.* The tables of `rams.eos` are counted: `mintcount` and the numbers of rows that
belong to an account. The row of the deployment belongs to `Deployer`.

*Conversion of A.* `pending` holds the senders whose purchase is not logged, last first,
`tokenConfig.payer` the singleton, `saved` what `Abort` restores. A purchase that reaches
`on_logbuyram` without a payer would issue V to the contract itself, which aborts.

*What V promises.* `VLedger` knows owners, not contracts. `TokenRms` implements it with
`wealth` = V held, staked and waiting to be withdrawn; `fund` = the rest of what
`stake.rms` holds; `backing` = RAM of `bank.rms`, held or lent. The mapping looks at
`Committed`, what an abort would restore, so that a transaction is one abstract step.

*Wide integers.* `ToInt` is the conversion to a C++ int with `IntModulus` values. In
`StakeRms` a uint64 below zero is represented by the negative number it is congruent to; a
claim of it is refused, as eosio.token refuses the negative int64.

## Runs

| run | what varies | bounds | result |
| --- | --- | --- | --- |
| `ledger` | every action of `rambank.eos`, no rent token | 3 accounts, amounts 1-2, deposit limit 5 | 4 invariants hold |
| `rewards` | rent, deposits, withdrawals, transfers, loans | 2 accounts, 1 token, rents 1 and 3, total 4 | 3 invariants, `PaidOnBytesHeld` and `RewardsShared` hold |
| `int_reward` | the same with a small int | rent of 4, `IntModulus` 4 | `RewardBooked` violated |
| `trading` | every action of `ramx.eos` with the ledger of `rambank.eos` | 2 accounts, 3 orders, one price, lists of up to 3 ids | 5 invariants and 2 action properties hold |
| `whole` | every action of both contracts, settings included | 2 accounts, 1 token, 1 order | the settlement property holds |
| `stake_vault` | every action of `stake.rms`, no rent token | 2 accounts, 2 unstake rows each, clock 0-2 | 5 invariants and `PaidAfterExpiry` hold |
| `stake_rewards` | rent, claims and every change of a stake | 2 accounts, 1 token, rents 1 and 3 | `StakeDebtCovered`, `RewardFunded`, `PaidOnStakeHeld` and `RentShared` hold |
| `mining` | pools, `initusers` in batches, blocks, claims, and every change of a stake | 3 accounts, 1 pool, 2 blocks, 2 units of stake, limits 1 and 2, rates 0 and 6 | 3 invariants, `TracksStakes`, `PaidPerBlock` and the liveness property `PoolsStart` hold |
| `honors` | swaps of inscriptions, conversion of RAMS, the gas fund, claims | 3 accounts, 3 veterans, 3 units of BTC, a deadline of 0 and clock 0-1 | 3 invariants and `GasFundShared` hold |
| `peg` | conversions inside one transaction, aborts, the ledger, staking and loans | 3 accounts, supply 3, 2 purchases in one transaction | `TokenTypeOK`, `BuyerCredited` and the refinement `KeepsLedger` hold |
| `stake_limit` | staking and restaking | as `stake_vault` | `StakeLimit` violated |
| `withdrawal` | unstaking and withdrawing | 3 unstake rows, 1 row per withdrawal | `WithdrawalServed` violated |

Why the bounds are enough for the cases that matter: three accounts let two withdraw against
the loan of a third; an accumulator scaled by 2 or 4 and amounts 1 to 3 round in nearly every
division; three orders of two owners contain a list with a skipped entry, an own order and a
foreign one, and a price of 3 at precision 2 rounds; two orders of different kinds are
cancelled in one call; two unstake rows with a limit of 1 and of 2 rows cover a partial
withdrawal and a reused id; rents of 1 and 3 over totals of 2 and 3 leave remainders.
With three stakers and batches of 1 and 2, `initusers` needs one, two or three calls, and
stakes change before, between and behind them, the account `rams2v` takes from being the last
in the table; a rate of 6 at precision 4 rounds over a total of 1 or 2. With three veterans
one is first, one in between and one last when a fund of 1 or 3 is divided, so that the walk
ends with nobody, with a share of 0 or with the remainder. Two purchases in one transaction
overwrite the payer.
`MaxRent`, `MaxOrders`, `MaxIgnored`, `MaxSupply`, `MaxTime`, `MaxUnstakes`, `MaxPools`,
`MaxBlock`, `MaxFunding`, `MaxGasFund`, `MaxNested` and `RoundingBounded` bound counters that grow without limit in the code. Accounts are symmetric
in `RamBank` and `RamX`, where no constant distinguishes them.

The larger compositions leave out what their question does not need. `MiningNext` runs the
migration before anything else and drops the actions of `stake.rms` that change no stake;
`HonorsNext` lets RAMS change hands from one account only and enables nothing that was
disabled; `PegNext` moves V and stake through one account, to which the others send theirs.
The full relations are `MinerNext`, `HonorSpec` and `TokenNext`.

The bounds of the clock and of ids never leave a passing run without a successor, so deadlock
checking stays on everywhere.

### Fairness

No contract acts on its own, and the chain promises no user's transaction; no fairness is
assumed of users. One action is promised by its own documentation: `initusers` is to be
called "repeatedly until it no longer processes users" (miner.rms.hpp:40-49). `InitFairness`
is weak fairness of `InitUsers` for each pool, with any limit above 0, and of nothing else.
Under it `PoolsStart` says that each pool is initialized, whatever stakers do between the
calls, unless `setpool` gives it rewards first: the table of users only grows towards the
end of the table of stakers, whose accounts are finitely many.

### What the violations show

* `int_reward`: `update_reward` of `rambank.eos` (line 585) keeps a uint64 balance in an int.
  From 2^31 units of a token in the pool on, deposits, withdrawals and transfers abort; a
  balance that jumps over 2^32 is moved without being booked.
* `stake_limit`: `restake` does not check `max_stake_amount`, which the table's comment calls
  the maximum amount of V to stake.
* `withdrawal`: unstake rows of amount 0 count against `max_withdraw_rows`; an account whose
  oldest rows are all 0 cannot withdraw what it unstaked after them.

### What the properties that hold leave open

The properties of these runs hold with exceptions that are stated in them, because the code
has them:

* `RewardsShared`: the depositors of `rambank.eos` can be promised less than one unit each more,
  or less, than a rent brought, and less by what the accumulator drops; nothing corrects it later.
* `StakeDebtCovered` speaks of the states between transactions. When `ramsdao.eos` swaps its
  own RAMS, `rams2v` first settles it for less than the stake its debt was written for, and
  the unsigned subtraction of `update_reward` (stake.rms.cpp:507) wraps; the second settlement
  brings `unclaimed` back, save for one unit of rounding, which may leave it at 2^64 - 1.
* `RewardFunded`: roundings let the stakers claim a few units more than was distributed. They
  come out of tokens sent with memo "ignore"; `reward_balance` then wraps by so many.
* `RentShared`: before `init` the default of `stake_amount` divides each rent already, and the
  part of the stakes not yet migrated is promised to nobody.
* `TracksStakes`: a stake that changes after `initusers` passed the account and before the
  pool is initialized stays stale in the pool until the next change or `syncuser`;
  `syncuser` of an account whose name comes later makes `initusers` skip every staker in
  between. In an initialized pool the next change of such a stake records it, and so does
  `syncuser`: that is the second half of the property.
* `PaidPerBlock`: `syncuser` writes the debt anew and drops what the user had earned since the
  last settlement, exactly that and nothing that was credited or paid before. A block gives a user its part of the rate, give or take less than one token
  for the rounding of its share and one more for every `MinerPrecision` of its stake for the
  rounding of the accumulator.
* `PoolsStart`: `setpool` on a pool that is not initialized raises its
  `acc_reward_per_share`, after which `initusers` refuses the pool for good.
* The total stake can be 0 when `update_pool` runs, which a comment (miner.rms.cpp:199) calls
  impossible; the blocks of that time are paid to nobody.
* `GasFundShared`: the distribution stops at the first veteran whose share rounds to 0, and
  the remainder, which a comment gives to the last veteran, then belongs to nobody, although
  `total_unclaimed` counts it.
* A gas fund aborts as a whole when there is no veteran, when `utxomng.xsat` has no loan or
  when nothing is staked. BTC with memo "gasfund" is accepted from anyone, and anyone may have
  a veteran's gas fund paid out to it.
* RAM that somebody else buys for `token.rms` is converted whether A to V is enabled or not.
  When A arrives while a purchase of A is pending, the second payer replaces the first; the
  purchase logged last then has no payer, and the whole transaction aborts. Nobody gains V
  from another's A (`BuyerCredited`).
* V that changes hands inside a pending purchase of A, by a transfer the payer sends between, is
  not modelled; conversions and aborts are.
* `init` of `stake.rms` aborts for good once a row it would emplace exists, and while
  `rambank.eos` holds frozen bytes. Every property holds whether it runs or not; none says that it can.
* `transfer` of `rambank.eos` aborts until some setter has written the config row, because
  `disabled_transfer` is a binary extension; the trades of `ramx.eos` do not read it.

### What the model of stake.rms assumes of the migration

`MigrationAssumption`: the default of `stake_amount` and of `used_amount` (137438953472, 128 GB)
equals the deposits and the loans of `rambank.eos` when `init` runs, and the rewards copied are
settled as `rambank.eos` settles them. The first part is an operational requirement the code
does not check; `StakesTotalled` and `LoansRecorded` depend on it.
The V and the reward tokens behind the migrated rows reach `stake.rms` as transfers that
`on_transfer` ignores; until they do, `VaultCovered` and `RewardFunded` say exactly how much is missing.

`PaidOnStakeHeld` leaves one unit of rounding to `ramsdao.eos` when it swaps its own RAMS:
`rams2v` then settles the same row twice, with amounts below and above its stake.

## Proofs

Every safety property and every action property that a passing run checks is also proved, for
every value of the constants that the ASSUMEs of the modules admit: any finite set of accounts,
any tokens, amounts, rates, limits and settings, any number of orders, unstake rows and blocks.
The runs came first: each inductive invariant below consists of invariants of the runs and of
the strengthenings named here.

All proof modules are laid out alike: the inductive invariant as a conjunction of named parts,
lemmas about the sums it speaks of, one lemma per action (or per kind of effect that several
actions have), a lemma that puts the actions together, then the theorems.

What recurs: sums are handled by the lemmas of `NumberLemmas` (`SumUpdate`: one row changed;
`SumPlus`: two; `SumSplit`; `SumGroups`: a sum over rows is the sum of its parts by
owner). They rest on `SumDef`, which derives the recursion equation of `SumFunctionOnSet` from its
definition as a fold, because induction over data is not available to the provers. Division
enters by `Division` and the monotonicity lemmas after it.

### `rambank.eos` (`RamBankProofs`)

* `Invariance`: the inductive invariant `IndInv`. `LedgerInv` relates tables, totals and
  container; `RewardInv` bounds every debt by the share of the bytes held (`DebtCovered`),
  totals the rents and says that a token that is not listed has distributed nothing
  (`UnlistedIdle`). The last is what makes listing a token safe: nobody has a debt then, and
  the share of any bytes is 0. `TypeOK` alone is not inductive: that bytes, totals and loans
  stay natural needs the equality of totals and sums, that `unclaimed` stays natural needs
  `DebtCovered`, and `DebtCovered` needs that the accumulator never falls.
* from it `TypesHold`, `LedgerStaysBalanced`, `LoansStayCovered`, `FrozenStaysCovered`,
  `DebtStaysCovered`, `RentsStayTotalled`, the invariants of the runs;
* `SettlementIsFair`: the action property `PaidOnBytesHeld`;
* `RewardsAreShared`: the action property `RewardsShared`. With `PrecisionFactor` = F, a
  reward r and B bytes of N depositors, the accumulator rises by d = (r * F) \div B, so that
  d * B is r * F less a remainder below B, and every share gains its part of d * bytes give or
  take at most F - 1 (`GainOfOne`). Summed over the accounts (`GainOfAll`), F times what is
  promised lies between F * r - N * (F - 1) - (B - 1) and F * r + N * (F - 1);
  `NextDistributes` shows that nothing but a booked reward moves the accumulator;
* `RewardsStayBooked`: `RewardBooked` as long as every pool fits the int (`PoolFits`); the run
  `int_reward` shows that the condition is needed.

`TokenChangeSafe` is the core: a settlement of every account whose bytes change preserves
`RewardInv` and pays on the bytes held before.

### `ramx.eos` with `rambank.eos` (`RamXProofs`)

`XInv` is `IndInv` of `rambank.eos` and `ExchangeInv`: the types, `FrozenMatchesOrders`,
`EscrowMatchesOrders`, `BookMatchesOrders` and `NextIdFree` (no order lies above the last id
given out, so that a new order meets no old one). None of the parts is inductive alone: a
trade takes frozen bytes away, which stay natural only because they are the bytes of the open
sell orders, and the totals in stat stay natural only because they are those of the orders.

* `AddedBooks` and `ClosingKeepsBooks` say what a new order, and the end of any set of orders,
  do to all totals at once; the second splits each sum over the orders into those closed and
  those that stay.
* `WalkWithin`: what a walk of a list of ids executes is within the payment or the free bytes.
  The last executed order was checked against what the ones before it left.
* `TradeSafe`: the inline transfers of a trade move bytes between depositors and keep their
  total (`TradeKeepsTotal`, from `SumGroups`, for the bytes are counted by order and by owner);
  `SellSafe` and `BuySafe` apply it in the two directions.
* Theorems: `ExchangeInvariance`, `ExchangeTypesHold`, `FrozenStaysMatched`,
  `EscrowStaysMatched`, `BookStaysMatched`, `LedgerKeptByExchange` (every invariant of
  `rambank.eos` with the real exchange beside it), and the action properties `OrdersLiveOnce`,
  `MakersStayServed` and `TradesSettleFairly`.

They assume `ExchangeAssumption` (in particular a default fee below 100%, as the constant of
the code is) and those of `RamBank`.

### `stake.rms` (`StakeRmsProofs`)

`IndInv` has two halves. `VaultInv`: types, `NoRowNoAmount` (an account without a row has no
stake and no loan, which is why `init` overwrites nothing), `StakesTotalled`,
`UnstakingMatchesRows`, `VaultCovered` and the first half of `LoansRecorded`. `RewardInv`:
types, `StakeDebtCovered`, `UnlistedIdle` as above, `RewardsTotalled` and `TokensHeld`.
That `reward_balance` never falls below what was ignored (`RewardFunded`) follows from these,
because the tokens held are natural (`FundedByInv`).
`unstaking_amount` stays natural because the unstake rows add up to it, `stake_amount` because
the stakes do; the argument covers ids that are given out again after a withdrawal.

Theorems: `StakeInvariance`, the invariants of the runs, and the action properties
`PaidOnlyAfterExpiry`, `SettlementIsFair` and `RentIsShared`. The last adds the rise of every
share of a rent (`ShareRise`, `SharesRise` in `NumberLemmas`) as `RewardsAreShared` does, with
the stakes instead of the total that divides, because the two differ until the migration. They assume `StakeAssumption` and
`MigrationAssumption` (below); the steps before, during and after the migration are all covered.
The second half of `LoansRecorded` (`RamConserved`: RAM leaves `bank.rms` only by a loan) is an
invariant of its own, kept apart because with `token.rms` RAM also comes in by conversion.

### `token.rms` with `stake.rms` (`TokenRmsProofs`, `VLedgerProofs`)

`TokenInv` is `IndInv` of `stake.rms`, the types of `token.rms` and `Restorable`: inside a
transaction, what an abort restores is the supply of the balances it restores and of the V
held by `stake.rms`, and less than now by exactly the RAM that came since. Without it an abort
could leave the supply and the balances apart.

Theorems: `TokenInvariance`, `TokenTypesHold`, `StakeBooksStayKept`, `BuyerIsCredited`, and
`TokenKeepsLedger`, the refinement: `TokenSpec => KeepsLedger`. Its lemmas map every
action to a step of `VLedger` (`StepPay`, `StepGive`, `StepIssue`, `StepRetire`, `StepMigrate`)
or to a stutter (`StepSame`); a transaction in progress maps to a stutter until it commits
(`UncommittedStep`, `CommitStep`).
`VLedgerProofs` proves `LedgerStaysConserved`: in the abstract ledger V never appears or
disappears, for any owners and amounts, from `LedgerAssumption`. The invariant adds the types,
because a sum is a number only if its terms are; retiring needs its guard that the V retired
is in the supply, since the fund is negative until the migrated deposits are given.

### `miner.rms` with `stake.rms` (`MinerRmsProofs`)

`MinerInv` adds to `IndInv` of `stake.rms`: `MinerTypeOK`, `TotalTracked`, `PoolsFunded`,
`Unmade` (a pool that was not added has no users and no rewards) and `TotalSet` (a pool that
pays divides by a total that was set). `Unmade` is what makes `addpool` and a batch of
`initusers` safe for the sums in `PoolsFunded`; `TotalSet` excludes that a batch of one pool
changes what another pool owes for past blocks.

Theorems: `MinerInvariance`, `MinerTypesHold`, `TotalStaysTracked`, `PoolsStayFunded` and the
action properties `UsersEarnPerBlock` (the rounding bound of `PaidPerBlock`, from two divisions
each bounded by its remainder) and `StakesStayTracked`, whose second half is that a
notification reaches the record of the account in every initialized pool (`NotifiedFinds`) and
`syncuser` the one it is called for (`SyncFinds`). They assume `MinerAssumption`:
names are ordered without ties, and the precision is not 0.

### `honor.rms` and the swap of inscriptions (`HonorRmsProofs`)

`HonorInv` is `RamsInv` (types, the three tables of inscriptions agree, RAMS are what was
issued for erased inscriptions), `FundInv` (types, no share without a row, totals) and
`BytesGiven` (the bytes of a veteran are worth the RAMS `honor.rms` took). Beside it,
`GivenCovered` says that the stake given is worth at most the RAMS taken: each conversion takes
n RAMS and gives their rounded worth (`ConvertGives`, which needs `StakeKeptByHonor` for the
types of the stakes). `GivenBacked` derives `stakeGiven <= bytesToDao`: RAMS taken were issued,
and RAMS are issued only for bytes sent. Theorems:
`HonorInvariance`, `HonorTypesHold`, `RamsStaysBacked`, `VeteransStayTotalled`,
`StakeBooksKeptByHonor`, and the action property `GasFundIsShared`: the shares of a
distribution, walked in the order of the index, never exceed it, for any number of veterans.
They assume `HonorAssumption` and `SwapAssumption`.

### Only model-checked

`PoolsStart`, a liveness property under fairness, is out of the prover's reach, and so is the
meaning of ENABLED. The three runs that expect a violation show behaviours and need no proof.
That the models are those of the code is argued by the map, not proved.

## Not modelled, and the plan

Left out for good: logs, memo parsing, table and RAM cost, DEBUG actions, the vendored
contracts under `src/external` beyond what they refuse.

Of `token.rms` and `newrams.eos`, `create` runs before the models begin; `open` and `close`
make and remove rows of balance 0. Of `rams.eos`, `mint` and `transfer` are closed by
check(false), and `deploy` runs before the model begins. The DEBUG actions are part of debug builds only.

What is left, in order of importance:

1. The rounding of `rambank.eos` and `stake.rms` over a whole history: `RewardsShared` bounds
   it for one distribution; a bound on the sum of all needs their number as history.
2. The hazards in `PROJECT.json` that have a note and no property.
3. Conditions of the three violated properties under which they hold, as theorems
   (`RewardsStayBooked` is the first of this kind).
