-------------------------------- MODULE StakeRms --------------------------------
(***************************************************************************)
(* The staking contract stake.rms: the migration of the deposits and loans *)
(* of rambank.eos, staking and unstaking of V with a waiting time, the     *)
(* RAM lent out of bank.rms, and the rent distributed to the stakers.      *)
(*                                                                         *)
(* A transaction is one step, enabled exactly when every check of the      *)
(* action and of its inline actions passes.  A uint64 that goes below zero *)
(* is represented by the negative number it is congruent to.               *)
(***************************************************************************)
EXTENDS Integers, FiniteSets, Functions

CONSTANTS
    Accounts,         \* accounts that stake and borrow
    RamsDao,          \* RAMS_DAO, the account rams2v takes stake from
    Tokens,           \* extended symbols that can be listed as rent tokens
    PrecisionFactor,  \* PRECISION_FACTOR, the scale of acc_per_share
    IntModulus,       \* 2^32, the number of values of a C++ int
    InitialAmount,    \* the default of stake_amount and of used_amount
    DefaultMinUnstake, DefaultExpiry, DefaultRows, DefaultMaxStake,
    MaxSupply,        \* max_supply of V at token.rms
    InitialVaultRam,  \* RAM held by bank.rms
    \* the tables of rambank.eos that init copies
    BankDeposits, BankBorrows, BankRentTokens, BankRents, BankRewards,
    BankFrozen,       \* accounts with frozen bytes at rambank.eos
    BankBorrowers,    \* accounts with a row in its borrow table, repaid or not
    \* Bounds of the instance: the inputs enumerated, the ids of unstake rows,
    \* the clock, and what is received with memo "ignore".
    Amounts, Rents, ConfigRows, MaxUnstakes, MaxTime, MaxRent, MaxIgnored

UnstakeIds == 0..(MaxUnstakes - 1)

RentTokenRow == [listed : BOOLEAN, enabled : BOOLEAN, total_rent_received : Nat,
                 acc_per_share : Nat, total_reward : Nat, reward_balance : Int]
RewardRow    == [debt : Nat, unclaimed : Int, claimed : Nat]

Share(amount, acc) == (amount * acc) \div PrecisionFactor

ASSUME StakeAssumption ==
    /\ IsFiniteSet(Accounts) /\ RamsDao \in Accounts
    /\ PrecisionFactor \in Nat \ {0}
    /\ IntModulus \in Nat /\ IntModulus > 1
    /\ DefaultMinUnstake \in Nat /\ DefaultExpiry \in Nat
    /\ DefaultRows \in Nat /\ DefaultMaxStake \in Nat
    /\ MaxSupply \in Nat /\ InitialVaultRam \in Nat
    /\ Amounts \subseteq Nat /\ Rents \subseteq Nat
    /\ ConfigRows \subseteq
         [min_unstake_amount : Nat \ {0}, unstake_expire_seconds : Nat \ {0},
          max_withdraw_rows : Nat \ {0}, max_stake_amount : Nat]
    /\ MaxUnstakes \in Nat /\ MaxTime \in Nat /\ MaxRent \in Nat /\ MaxIgnored \in Nat

(* The defaults in stat are the totals of the tables that init copies, and the
   rewards copied are settled as rambank.eos settles them. *)
ASSUME MigrationAssumption ==
    /\ InitialAmount \in Nat
    /\ BankDeposits \in [Accounts -> Nat] /\ BankBorrows \in [Accounts -> Nat]
    /\ BankFrozen \subseteq Accounts /\ BankBorrowers \subseteq Accounts
    /\ \A a \in Accounts : BankBorrows[a] > 0 => a \in BankBorrowers
    /\ SumFunctionOnSet(BankDeposits, Accounts) = InitialAmount
    /\ SumFunctionOnSet(BankBorrows, Accounts) = InitialAmount
    /\ BankRentTokens \in [Tokens -> RentTokenRow]
    /\ BankRents \in [Tokens -> [Accounts -> Nat]]
    /\ BankRewards \in [Tokens -> [Accounts -> RewardRow]]
    /\ \A t \in Tokens :
         /\ BankRentTokens[t].total_reward = BankRentTokens[t].reward_balance
              + SumFunctionOnSet([a \in Accounts |-> BankRewards[t][a].claimed], Accounts)
         /\ BankRentTokens[t].reward_balance >= 0
         /\ \A a \in Accounts :
              /\ BankRewards[t][a].debt
                   <= Share(BankDeposits[a], BankRentTokens[t].acc_per_share)
              /\ BankRewards[t][a].unclaimed >= 0

VARIABLES
    config,        \* the config singleton; "exists" once it was set
    stat,          \* the stat singleton: stake_amount, used_amount
    stakes,        \* the stake table
    unstakes,      \* the unstake table, by account and id
    borrows,       \* the borrow table
    rentTokens,    \* the renttoken table
    rents,         \* the rent table, by token and borrower
    rewards,       \* the reward table, by token and account
    vBalance,      \* V held by stake.rms
    vIgnored,      \* V received with memo "ignore"
    tokenBalance,  \* rent tokens held by stake.rms
    tokenIgnored,  \* rent tokens received with memo "ignore" or from the pool
    vaultRam,      \* RAM held by bank.rms
    now            \* current_time_point(), in seconds

stakeVars  == <<stat, stakes, unstakes, vBalance, vIgnored>>
loanVars   == <<borrows, vaultRam>>
rewardVars == <<rentTokens, rents, rewards, tokenBalance, tokenIgnored>>
vars       == <<config, stakeVars, loanVars, rewardVars, now>>

-----------------------------------------------------------------------------

ConfigRow ==
    [exists : BOOLEAN, init_done : BOOLEAN, min_unstake_amount : Nat,
     unstake_expire_seconds : Nat, max_withdraw_rows : Nat, max_stake_amount : Nat]
StakeRow   == [exists : BOOLEAN, amount : Nat, unstaking_amount : Nat]
UnstakeRow == [open : BOOLEAN, amount : Nat, since : Nat]
BorrowRow  == [exists : BOOLEAN, bytes : Nat]

NoUnstake == [open |-> FALSE, amount |-> 0, since |-> 0]
NoReward  == [debt |-> 0, unclaimed |-> 0, claimed |-> 0]
NoToken   == [listed |-> FALSE, enabled |-> FALSE, total_rent_received |-> 0,
              acc_per_share |-> 0, total_reward |-> 0, reward_balance |-> 0]

(* Every table holds rows of its type; no total of the vault and no amount of a
   stake or a loan wraps below zero. *)
StakeTypeOK ==
    /\ config \in ConfigRow
    /\ stat \in [stake_amount : Nat, used_amount : Nat]
    /\ stakes \in [Accounts -> StakeRow]
    /\ unstakes \in [Accounts -> [UnstakeIds -> UnstakeRow]]
    /\ borrows \in [Accounts -> BorrowRow]
    /\ rentTokens \in [Tokens -> RentTokenRow]
    /\ rents \in [Tokens -> [Accounts -> Nat]]
    /\ rewards \in [Tokens -> [Accounts -> RewardRow]]
    /\ vBalance \in Nat /\ vIgnored \in Nat
    /\ tokenBalance \in [Tokens -> Nat] /\ tokenIgnored \in [Tokens -> Nat]
    /\ vaultRam \in Nat /\ now \in Nat

Init ==
    /\ config = [exists |-> FALSE, init_done |-> FALSE,
                 min_unstake_amount |-> DefaultMinUnstake,
                 unstake_expire_seconds |-> DefaultExpiry,
                 max_withdraw_rows |-> DefaultRows, max_stake_amount |-> DefaultMaxStake]
    /\ stat = [stake_amount |-> InitialAmount, used_amount |-> InitialAmount]
    /\ stakes = [a \in Accounts |-> [exists |-> FALSE, amount |-> 0, unstaking_amount |-> 0]]
    /\ unstakes = [a \in Accounts |-> [i \in UnstakeIds |-> NoUnstake]]
    /\ borrows = [a \in Accounts |-> [exists |-> FALSE, bytes |-> 0]]
    /\ rentTokens = [t \in Tokens |-> NoToken]
    /\ rents = [t \in Tokens |-> [a \in Accounts |-> 0]]
    /\ rewards = [t \in Tokens |-> [a \in Accounts |-> NoReward]]
    /\ vBalance = 0 /\ vIgnored = 0
    /\ tokenBalance = [t \in Tokens |-> 0] /\ tokenIgnored = [t \in Tokens |-> 0]
    /\ vaultRam = InitialVaultRam /\ now = 0

-----------------------------------------------------------------------------
(* Rewards.  They are distributed when rent arrives, and settled whenever the
   stake of an account changes. *)

Listed == {t \in Tokens : rentTokens[t].listed}

(* Mutant: the debt is that of the amount before the change. *)
SettledStaleDebt(t, row, pre, after) ==
    LET acc == rentTokens[t].acc_per_share IN
    [row EXCEPT !.debt = Share(pre, acc), !.unclaimed = @ + Share(pre, acc) - row.debt]

(* update_reward. *)
Settled(t, row, pre, after) ==
    LET acc == rentTokens[t].acc_per_share IN
    [row EXCEPT !.debt = Share(after, acc), !.unclaimed = @ + Share(pre, acc) - row.debt]

(* batch_update_reward on a table of rewards. *)
Batch(table, a, pre, after) ==
    [t \in Tokens |->
       IF t \in Listed THEN [table[t] EXCEPT ![a] = Settled(t, @, pre, after)] ELSE table[t]]

SettleChange(a, pre, after) ==
    /\ rewards' = Batch(rewards, a, pre, after)
    /\ UNCHANGED <<rentTokens, rents, tokenBalance, tokenIgnored>>

-----------------------------------------------------------------------------
(* The contract's own account: migration, settings, listing and lending. *)

(* init: emplacing a row that exists aborts, so no migrated account may have
   staked or borrowed, and no token may have been listed if any is migrated.
   Deposits of 0 bytes are skipped, loans of 0 bytes are not. *)
Initialize ==
    /\ ~ config.init_done
    /\ BankFrozen = {}
    /\ \A a \in Accounts : BankDeposits[a] > 0 => ~ stakes[a].exists
    /\ \A a \in BankBorrowers : ~ borrows[a].exists
    /\ (\E t \in Tokens : BankRentTokens[t].listed) => Listed = {}
    /\ stakes' = [a \in Accounts |-> IF BankDeposits[a] = 0 THEN stakes[a]
                    ELSE [exists |-> TRUE, amount |-> BankDeposits[a], unstaking_amount |-> 0]]
    /\ borrows' = [a \in Accounts |-> IF a \notin BankBorrowers THEN borrows[a]
                     ELSE [exists |-> TRUE, bytes |-> BankBorrows[a]]]
    /\ rentTokens' = [t \in Tokens |-> IF BankRentTokens[t].listed
                                       THEN BankRentTokens[t] ELSE rentTokens[t]]
    /\ rents' = [t \in Tokens |-> IF BankRentTokens[t].listed
                                  THEN BankRents[t] ELSE rents[t]]
    /\ rewards' = [t \in Tokens |-> IF BankRentTokens[t].listed
                                    THEN BankRewards[t] ELSE rewards[t]]
    /\ config' = [config EXCEPT !.exists = TRUE, !.init_done = TRUE]
    /\ UNCHANGED <<stat, unstakes, vBalance, vIgnored, tokenBalance, tokenIgnored,
                   vaultRam, now>>

Config(row) ==
    /\ row.min_unstake_amount > 0
    /\ row.unstake_expire_seconds > 0
    /\ row.max_withdraw_rows > 0
    /\ MaxSupply >= row.max_stake_amount
    /\ stat.stake_amount <= row.max_stake_amount
    /\ config' = [exists |-> TRUE, init_done |-> config.init_done,
                  min_unstake_amount |-> row.min_unstake_amount,
                  unstake_expire_seconds |-> row.unstake_expire_seconds,
                  max_withdraw_rows |-> row.max_withdraw_rows,
                  max_stake_amount |-> row.max_stake_amount]
    /\ UNCHANGED <<stakeVars, loanVars, rewardVars, now>>

AddRentToken(t) ==
    /\ ~ rentTokens[t].listed
    /\ rentTokens' = [rentTokens EXCEPT ![t].listed = TRUE, ![t].enabled = TRUE]
    /\ UNCHANGED <<config, stakeVars, loanVars, rents, rewards, tokenBalance,
                   tokenIgnored, now>>

(* Mutant: a second loan replaces the first. *)
LentReplacing(a, bytes) == [borrows EXCEPT ![a] = [exists |-> TRUE, bytes |-> bytes]]

Lent(a, bytes) == [borrows EXCEPT ![a] = [exists |-> TRUE, bytes |-> @.bytes + bytes]]

(* The RAM lent comes from bank.rms. *)
Borrow(a, bytes) ==
    /\ bytes > 0
    /\ bytes <= vaultRam
    /\ borrows' = Lent(a, bytes)
    /\ stat' = [stat EXCEPT !.used_amount = @ + bytes]
    /\ vaultRam' = vaultRam - bytes
    /\ UNCHANGED <<config, stakes, unstakes, vBalance, vIgnored, rewardVars, now>>

(* Mutant: the excess is taken off the loan as well. *)
RepaidAll(a, bytes) == bytes

Repaid(a, bytes) == IF bytes > borrows[a].bytes THEN borrows[a].bytes ELSE bytes

(* Anyone repays with memo "repay,<account>"; the excess is sent back. *)
RepayRam(a, bytes) ==
    /\ bytes > 0
    /\ borrows[a].bytes > 0
    /\ borrows' = [borrows EXCEPT ![a].bytes = @ - Repaid(a, bytes)]
    /\ stat' = [stat EXCEPT !.used_amount = @ - Repaid(a, bytes)]
    /\ vaultRam' = vaultRam + Repaid(a, bytes)
    /\ UNCHANGED <<config, stakes, unstakes, vBalance, vIgnored, rewardVars, now>>

-----------------------------------------------------------------------------
(* Staking. *)

Credited(a, amount) == [stakes EXCEPT ![a].exists = TRUE, ![a].amount = @ + amount]

OnStake(a, amount) ==
    LET old == stakes[a].amount IN
    /\ amount > 0
    /\ stat.stake_amount + amount <= config.max_stake_amount
    /\ stakes' = Credited(a, amount)
    /\ stat' = [stat EXCEPT !.stake_amount = @ + amount]
    /\ vBalance' = vBalance + amount
    /\ SettleChange(a, old, old + amount)
    /\ UNCHANGED <<config, unstakes, vIgnored, loanVars, now>>

Rows(a) == {i \in UnstakeIds : unstakes[a][i].open}

(* Mutant: the id is the number of rows. *)
AvailableKeyByCount(a, i) == i = Cardinality(Rows(a))

(* available_primary_key: one above the largest id in the table, 0 if it is empty. *)
AvailableKey(a, i) ==
    /\ \A j \in Rows(a) : j < i
    /\ i = 0 \/ i - 1 \in Rows(a)

(* The whole stake can be unstaked whatever its size, and again when it is 0. *)
Unstake(a, amount) ==
    LET old == stakes[a].amount IN
    /\ stakes[a].exists
    /\ amount <= old
    /\ amount < old => config.exists /\ amount >= config.min_unstake_amount
    /\ stakes' = [stakes EXCEPT ![a].amount = @ - amount, ![a].unstaking_amount = @ + amount]
    /\ \E i \in UnstakeIds :
         /\ AvailableKey(a, i)
         /\ unstakes' = [unstakes EXCEPT
                           ![a][i] = [open |-> TRUE, amount |-> amount, since |-> now]]
    /\ stat' = [stat EXCEPT !.stake_amount = @ - amount]
    /\ SettleChange(a, old, old - amount)
    /\ UNCHANGED <<config, vBalance, vIgnored, loanVars, now>>

Expired(a, i) == now - unstakes[a][i].since >= config.unstake_expire_seconds

(* A row that has not expired goes back to the stake. *)
Restake(a, i) ==
    LET old == stakes[a].amount  amount == unstakes[a][i].amount IN
    /\ i \in Rows(a)
    /\ config.exists
    /\ ~ Expired(a, i)
    /\ amount <= stakes[a].unstaking_amount
    /\ unstakes' = [unstakes EXCEPT ![a][i] = NoUnstake]
    /\ stakes' = [stakes EXCEPT ![a].unstaking_amount = @ - amount, ![a].amount = @ + amount]
    /\ stat' = [stat EXCEPT !.stake_amount = @ + amount]
    /\ SettleChange(a, old, old + amount)
    /\ UNCHANGED <<config, vBalance, vIgnored, loanVars, now>>

AmountOf(a, S) == SumFunctionOnSet([i \in UnstakeIds |-> unstakes[a][i].amount], S)

(* The order of the index byunstaking. *)
Before(a, i, j) ==
    \/ unstakes[a][i].since < unstakes[a][j].since
    \/ unstakes[a][i].since = unstakes[a][j].since /\ i < j

(* Mutant: the age of the rows is not looked at. *)
DueUnchecked(a, S) ==
    /\ S \subseteq Rows(a)
    /\ Cardinality(S) <= config.max_withdraw_rows
    /\ S = Rows(a) \/ Cardinality(S) = config.max_withdraw_rows
    /\ \A i \in S, j \in Rows(a) \ S : Before(a, i, j)

(* The walk of withdraw: oldest rows first, up to max_withdraw_rows of them,
   until one has not expired. *)
Due(a, S) ==
    LET expired == {i \in Rows(a) : Expired(a, i)} IN
    /\ S \subseteq expired
    /\ Cardinality(S) <= config.max_withdraw_rows
    /\ S = expired \/ Cardinality(S) = config.max_withdraw_rows
    /\ \A i \in S, j \in Rows(a) \ S : Before(a, i, j)

(* Mutant: what was paid out still counts as unstaking. *)
ReleasedUncounted(a, amount) == stakes

Released(a, amount) == [stakes EXCEPT ![a].unstaking_amount = @ - amount]

Withdraw(a) ==
    /\ config.exists
    /\ \E S \in SUBSET Rows(a) :
         /\ Due(a, S)
         /\ AmountOf(a, S) > 0
         /\ AmountOf(a, S) <= vBalance
         /\ unstakes' = [unstakes EXCEPT
                           ![a] = [i \in UnstakeIds |-> IF i \in S THEN NoUnstake ELSE @[i]]]
         /\ stakes' = Released(a, AmountOf(a, S))
         /\ vBalance' = vBalance - AmountOf(a, S)
    /\ UNCHANGED <<config, stat, vIgnored, loanVars, rewardVars, now>>

(* Mutant: the row of the account is written as if it did not exist. *)
SwappedOver(a, amount) ==
    [stakes EXCEPT ![RamsDao].amount = @ - amount, ![a].exists = TRUE, ![a].amount = amount]

Swapped(a, amount) == [Credited(a, amount) EXCEPT ![RamsDao].amount = @ - amount]

(* Mutant: only the account is settled, not RAMS_DAO. *)
SwapRewardsOfOne(a, amount, after) ==
    Batch(rewards, a, after[a].amount - amount, after[a].amount)

(* The two settlements run one after the other, on the same row when it is
   RAMS_DAO itself that swaps. *)
SwapRewards(a, amount, after) ==
    Batch(Batch(rewards, a, after[a].amount - amount, after[a].amount),
          RamsDao, after[RamsDao].amount + amount, after[RamsDao].amount)

(* honor.rms moves stake of RAMS_DAO to the account that swapped RAMS. *)
Rams2V(a, amount) ==
    /\ amount > 0
    /\ stakes[RamsDao].exists
    /\ amount <= stakes[RamsDao].amount
    /\ stakes' = Swapped(a, amount)
    /\ rewards' = SwapRewards(a, amount, Swapped(a, amount))
    /\ UNCHANGED <<config, stat, unstakes, vBalance, vIgnored, loanVars, rentTokens,
                   rents, tokenBalance, tokenIgnored, now>>

-----------------------------------------------------------------------------
(* Rent and claims. *)

(* Mutant: the rent is divided by what is lent. *)
DistributedByLoans(t, amount) ==
    [rentTokens[t] EXCEPT
        !.total_rent_received = @ + amount,
        !.acc_per_share = @ + (amount * PrecisionFactor) \div stat.used_amount,
        !.total_reward = @ + amount,
        !.reward_balance = @ + amount]

(* Mutant: the balance is replaced instead of increased. *)
DistributedReplacing(t, amount) ==
    [rentTokens[t] EXCEPT
        !.total_rent_received = @ + amount,
        !.acc_per_share = @ + (amount * PrecisionFactor) \div stat.stake_amount,
        !.total_reward = @ + amount,
        !.reward_balance = amount]

Distributed(t, amount) ==
    [rentTokens[t] EXCEPT
        !.total_rent_received = @ + amount,
        !.acc_per_share = @ + (amount * PrecisionFactor) \div stat.stake_amount,
        !.total_reward = @ + amount,
        !.reward_balance = @ + amount]

(* process_rent_payment, and update_reward_acc_per_share, which aborts when
   nothing is staked. *)
Rent(t, borrower, amount) ==
    /\ amount > 0
    /\ rentTokens[t].listed /\ rentTokens[t].enabled
    /\ borrows[borrower].bytes > 0
    /\ stat.stake_amount > 0
    /\ rents' = [rents EXCEPT ![t][borrower] = @ + amount]
    /\ rentTokens' = [rentTokens EXCEPT ![t] = Distributed(t, amount)]
    /\ tokenBalance' = [tokenBalance EXCEPT ![t] = @ + amount]
    /\ UNCHANGED <<config, stakeVars, loanVars, rewards, tokenIgnored, now>>

AtClaim(t, a) == Settled(t, rewards[t][a], stakes[a].amount, stakes[a].amount)

Claimable(a) == [t \in Tokens |-> IF t \in Listed THEN AtClaim(t, a).unclaimed ELSE 0]

(* "auto total_claimed = 0" is an int. *)
ToInt(n) ==
    LET r == n % IntModulus IN IF 2 * r < IntModulus THEN r ELSE r - IntModulus

Paid(t, a) ==
    [AtClaim(t, a) EXCEPT !.unclaimed = 0, !.claimed = @ + AtClaim(t, a).unclaimed]

(* Every listed token is settled and paid; eosio.token refuses an amount that
   is negative or not covered. *)
Claim(a) ==
    /\ \A t \in Tokens : Claimable(a)[t] \in 0..tokenBalance[t]
    /\ ToInt(SumFunctionOnSet(Claimable(a), Tokens)) > 0
    /\ rewards' = [t \in Tokens |->
         IF t \in Listed THEN [rewards[t] EXCEPT ![a] = Paid(t, a)] ELSE rewards[t]]
    /\ rentTokens' = [t \in Tokens |->
         [rentTokens[t] EXCEPT !.reward_balance = @ - Claimable(a)[t]]]
    /\ tokenBalance' = [t \in Tokens |-> tokenBalance[t] - Claimable(a)[t]]
    /\ UNCHANGED <<config, stakeVars, loanVars, rents, tokenIgnored, now>>

(* Tokens sent with memo "ignore", or by POOL_REWARD_CONTAINER: this is how the
   V and the rewards behind the migrated rows reach the contract. *)
IgnoredV(amount) ==
    /\ vIgnored + amount <= MaxIgnored
    /\ vBalance' = vBalance + amount
    /\ vIgnored' = vIgnored + amount
    /\ UNCHANGED <<config, stat, stakes, unstakes, loanVars, rewardVars, now>>

IgnoredToken(t, amount) ==
    /\ tokenIgnored[t] + amount <= MaxIgnored
    /\ tokenBalance' = [tokenBalance EXCEPT ![t] = @ + amount]
    /\ tokenIgnored' = [tokenIgnored EXCEPT ![t] = @ + amount]
    /\ UNCHANGED <<config, stakeVars, loanVars, rentTokens, rents, rewards, now>>

Tick ==
    /\ now < MaxTime
    /\ now' = now + 1
    /\ UNCHANGED <<config, stakeVars, loanVars, rewardVars>>

-----------------------------------------------------------------------------

OwnNext ==
    \/ Initialize
    \/ \E row \in ConfigRows : Config(row)
    \/ \E t \in Tokens : AddRentToken(t)
    \/ \E a \in Accounts, n \in Amounts : Borrow(a, n)

(* V in circulation never exceeds its supply. *)
StakeNext ==
    \/ \E a \in Accounts, n \in Amounts : vBalance + n <= MaxSupply /\ OnStake(a, n)
    \/ \E a \in Accounts, n \in Amounts \cup {0} : Unstake(a, n)
    \/ \E a \in Accounts, i \in UnstakeIds : Restake(a, i)
    \/ \E a \in Accounts : Withdraw(a)
    \/ \E a \in Accounts, n \in Amounts : Rams2V(a, n)
    \/ \E a \in Accounts, n \in Amounts : RepayRam(a, n)
    \/ \E n \in Amounts : vBalance + n <= MaxSupply /\ IgnoredV(n)

RentNext ==
    \/ \E t \in Tokens, a \in Accounts, n \in Rents :
         /\ rentTokens[t].total_rent_received + n <= MaxRent
         /\ Rent(t, a, n)
    \/ \E a \in Accounts : Claim(a)
    \/ \E t \in Tokens, n \in Rents : IgnoredToken(t, n)

Next == OwnNext \/ StakeNext \/ RentNext \/ Tick

Spec == Init /\ [][Next]_vars

-----------------------------------------------------------------------------
(* Properties. *)

(* What the defaults of stat count although init has not copied it yet. *)
NotMigrated == IF config.init_done THEN 0 ELSE InitialAmount
Migrated    == IF config.init_done THEN InitialAmount ELSE 0

StakedOf    == [a \in Accounts |-> stakes[a].amount]
UnstakingOf == [a \in Accounts |-> stakes[a].unstaking_amount]
LentTo      == [a \in Accounts |-> borrows[a].bytes]

(* stat.stake_amount, the divisor of every distribution of rent, is the sum of
   the stakes, whatever staking, unstaking, restaking and swapping of RAMS came
   before and whenever the migration runs. *)
StakesTotalled == SumFunctionOnSet(StakedOf, Accounts) + NotMigrated = stat.stake_amount

(* unstaking_amount of an account is the sum of its unstake rows, although ids of
   erased rows are given out again. *)
UnstakingMatchesRows ==
    \A a \in Accounts : stakes[a].unstaking_amount = AmountOf(a, Rows(a))

(* The V held is what was staked and not released: once the V behind the
   migrated stakes is funded, every stake can be paid out. *)
VaultCovered ==
    vBalance + Migrated = SumFunctionOnSet(StakedOf, Accounts)
                            + SumFunctionOnSet(UnstakingOf, Accounts) + vIgnored

(* used_amount is the sum of the loans, and what is lent is what left bank.rms. *)
LoansRecorded ==
    /\ SumFunctionOnSet(LentTo, Accounts) + NotMigrated = stat.used_amount
    /\ vaultRam + stat.used_amount = InitialVaultRam + InitialAmount

(* V leaves the contract only to one account, for rows that have waited
   unstake_expire_seconds, and no older row of the account is passed over. *)
PaidAfterExpiry ==
    [][vBalance' < vBalance =>
         \E a \in Accounts :
            LET gone == {i \in Rows(a) : ~ unstakes'[a][i].open} IN
            /\ vBalance - vBalance' = AmountOf(a, gone)
            /\ \A i \in gone :
                 /\ now >= unstakes[a][i].since + config.unstake_expire_seconds
                 /\ \A j \in Rows(a) \ gone : unstakes[a][j].since >= unstakes[a][i].since]_vars

(* Between any two transactions the debt of an account is covered by the share of
   its stake, and what it has unclaimed is not negative: whatever is staked, swapped
   and claimed, no unsigned subtraction of update_reward wraps around for an account
   other than RAMS_DAO.  For RAMS_DAO one does: when it swaps its own RAMS, rams2v
   first settles it for less than the stake its debt was written for.  The second
   settlement brings unclaimed back, save for the one unit PaidOnStakeHeld allows,
   which can leave it at 2^64 - 1. *)
StakeDebtCovered ==
    \A t \in Tokens, a \in Accounts :
        /\ rewards[t][a].debt <= Share(stakes[a].amount, rentTokens[t].acc_per_share)
        /\ a # RamsDao => rewards[t][a].unclaimed >= 0

(* Every reward distributed is either still in reward_balance or claimed by
   somebody. *)
RewardsTotalled ==
    \A t \in Tokens :
        rentTokens[t].total_reward = rentTokens[t].reward_balance
          + SumFunctionOnSet([a \in Accounts |-> rewards[t][a].claimed], Accounts)

(* The rent tokens held are the rewards not yet claimed, save those that init
   copied without their tokens and those sent with memo "ignore". *)
TokensHeld ==
    \A t \in Tokens :
        tokenBalance[t] + (IF config.init_done /\ BankRentTokens[t].listed
                           THEN BankRentTokens[t].reward_balance ELSE 0)
          = rentTokens[t].reward_balance + tokenIgnored[t]

(* Roundings let the stakers claim a few units more than was distributed.  They are
   taken from tokens sent with memo "ignore", never from those of another token: the
   books of every token agree with the tokens held, and the unsigned
   reward_balance that claim decrements wraps by no more than was sent so. *)
RewardFunded ==
    /\ RewardsTotalled
    /\ TokensHeld
    /\ \A t \in Tokens : rentTokens[t].reward_balance + tokenIgnored[t] >= 0

(* All an account was or can be paid of a token. *)
Earned(t, a) ==
    rewards[t][a].claimed + rewards[t][a].unclaimed
      + Share(stakes[a].amount, rentTokens[t].acc_per_share) - rewards[t][a].debt

(* Only a distribution of rent changes what an account earns, and it pays on the
   amount the account had staked: no staking, unstaking, restaking, claiming or
   swap of RAMS gains or loses a part of a reward.  When RAMS_DAO swaps its own
   RAMS, the two roundings of rams2v may be worth one unit to it. *)
PaidOnStakeHeld ==
    [][config'.init_done = config.init_done =>
         \A t \in Tokens, a \in Accounts :
            LET rise == Share(stakes[a].amount, rentTokens'[t].acc_per_share)
                          - Share(stakes[a].amount, rentTokens[t].acc_per_share)
                gain == Earned(t, a)' - Earned(t, a) - rise
            IN IF a = RamsDao THEN gain \in -1..1 ELSE gain = 0]_vars

Stakers == {a \in Accounts : stakes[a].amount > 0}

(* A rent is divided by stat.stake_amount, rounded, and each share is rounded again.
   It promises the stakers together their part of it, that of what they hold in the
   total that divides, save for less than one unit each either way and what a
   remainder below one unit per PrecisionFactor of V leaves in the accumulator: the
   whole rent once the stakes are migrated, and before that no more than the stakes
   of those who came first.  Without rent nobody is promised anything, but for the
   unit of a swap of RAMS_DAO. *)
RentShared ==
    [][config'.init_done = config.init_done =>
         \A t \in Tokens :
            LET rent     == rentTokens'[t].total_rent_received
                              - rentTokens[t].total_rent_received
                promised == SumFunctionOnSet([a \in Accounts |-> Earned(t, a)' - Earned(t, a)],
                                             Accounts)
                staked   == SumFunctionOnSet(StakedOf, Accounts)
                total    == stat.stake_amount
                rounding == Cardinality(Stakers) * (PrecisionFactor - 1)
            IN IF rent = 0 THEN promised \in -1..1
               ELSE PrecisionFactor * promised * total
                      \in (staked * (PrecisionFactor * rent - (total - 1)) - rounding * total)
                            ..(staked * PrecisionFactor * rent + rounding * total)]_vars

(* max_stake_amount, the "maximum amount of V to stake", bounds the stake. *)
StakeLimit == stat.stake_amount <= config.max_stake_amount

(* When withdraw refuses with "No amount available for withdrawal after
   unstaking", no row that has waited long enough holds an amount. *)
WithdrawalServed ==
    \A a \in Accounts : \A S \in SUBSET Rows(a) :
        config.exists /\ Due(a, S) /\ AmountOf(a, S) = 0
          => AmountOf(a, {i \in Rows(a) : Expired(a, i)}) = 0

=============================================================================
