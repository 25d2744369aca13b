-------------------------------- MODULE RamBank --------------------------------
(***************************************************************************)
(* The lending contract rambank.eos: deposits, withdrawals and transfers   *)
(* of RAM bytes, borrowing, rent and the distribution of rent to the       *)
(* depositors.  A transaction of the chain is one step: a failed check     *)
(* anywhere in it, inline actions included, undoes all of it, so an action *)
(* of this module is enabled exactly when every check passes.              *)
(*                                                                         *)
(* A row that does not exist yet and a row of zeros cannot be told apart   *)
(* by any handler, so tables keyed by account are total functions.         *)
(***************************************************************************)
EXTENDS Integers, FiniteSets, Functions

CONSTANTS
    Accounts,         \* accounts that deposit, borrow and trade
    Tokens,           \* extended symbols that can be listed as rent tokens
    RatioPrecision,   \* RATIO_PRECISION, the denominator of every ratio
    PrecisionFactor,  \* PRECISION_FACTOR, the scale of acc_per_share
    IntModulus,       \* 2^32, the number of values of a C++ int
    DefaultMaxDeposit,\* max_deposit_limit of a config that was never set
    DefaultDaoRatio, DefaultUsageLimit,
    MaxFeeRatio,      \* 5000, the largest fee ratio updateratio accepts
    \* Bounds of the instance: the inputs enumerated and the rent ever paid.
    Amounts, Rents, FeeRatios, DaoRatios, UsageLimits, DepositLimits, MaxRent

ASSUME AccountsAssumption == IsFiniteSet(Accounts)
ASSUME PrecisionAssumption ==
    /\ RatioPrecision \in Nat \ {0} /\ PrecisionFactor \in Nat \ {0}
    /\ IntModulus \in Nat /\ IntModulus > 1
ASSUME ConfigAssumption ==
    /\ DefaultMaxDeposit \in Nat
    /\ DefaultDaoRatio \in 0..RatioPrecision
    /\ DefaultUsageLimit \in 0..RatioPrecision
    /\ MaxFeeRatio \in 0..RatioPrecision
ASSUME BoundsAssumption ==
    /\ Amounts \subseteq Nat /\ Rents \subseteq Nat /\ MaxRent \in Nat
    /\ FeeRatios \subseteq Nat /\ DaoRatios \subseteq Nat
    /\ UsageLimits \subseteq Nat /\ DepositLimits \subseteq Nat

VARIABLES
    config,       \* the config singleton; "exists" once it was set
    stat,         \* the stat singleton: deposited_bytes, used_bytes
    deposits,     \* the deposits table: bytes and frozen_bytes of each account
    borrows,      \* the borrows table: bytes each borrower owes
    container,    \* RAM held by the account RAM_CONTAINER (ramdeposit11)
    rentTokens,   \* the renttokens table
    rents,        \* the rents table: rent received, by token and borrower
    userRewards,  \* the userrewards table: debt and unclaimed
    pool,         \* balance of POOL_REWARD_CONTAINER (stramreward1), by token
    balance       \* balance of rambank.eos itself, by token

ledgerVars == <<stat, deposits, borrows, container>>
rewardVars == <<rentTokens, rents, userRewards, pool, balance>>
bankVars   == <<config, ledgerVars, rewardVars>>

-----------------------------------------------------------------------------
(* Types and the initial state. *)

Ratio == 0..RatioPrecision

ConfigRow ==
    [exists : BOOLEAN, disabled_deposit : BOOLEAN, disabled_withdraw : BOOLEAN,
     disabled_transfer : BOOLEAN, deposit_fee_ratio : Ratio,
     withdraw_fee_ratio : Ratio, max_deposit_limit : Nat,
     reward_dao_ratio : Ratio, usage_limit_ratio : Ratio]

StatRow       == [deposited_bytes : Nat, used_bytes : Nat]
DepositRow    == [bytes : Nat, frozen_bytes : Nat]
RentTokenRow  == [listed : BOOLEAN, enabled : BOOLEAN, total_rent_received : Nat,
                  acc_per_share : Nat, total_reward : Nat, reward_balance : Nat]
UserRewardRow == [debt : Nat, unclaimed : Nat]

(* Every table holds rows of its type; the unsigned fields of the rows never
   wrap below zero. *)
TypeOK ==
    /\ config \in ConfigRow
    /\ stat \in StatRow
    /\ deposits \in [Accounts -> DepositRow]
    /\ borrows \in [Accounts -> Nat]
    /\ container \in Nat
    /\ rentTokens \in [Tokens -> RentTokenRow]
    /\ rents \in [Tokens -> [Accounts -> Nat]]
    /\ userRewards \in [Tokens -> [Accounts -> UserRewardRow]]
    /\ pool \in [Tokens -> Nat]
    /\ balance \in [Tokens -> Nat]

Init ==
    /\ config = [exists |-> FALSE, disabled_deposit |-> FALSE,
                 disabled_withdraw |-> FALSE, disabled_transfer |-> FALSE,
                 deposit_fee_ratio |-> 0, withdraw_fee_ratio |-> 0,
                 max_deposit_limit |-> DefaultMaxDeposit,
                 reward_dao_ratio |-> DefaultDaoRatio,
                 usage_limit_ratio |-> DefaultUsageLimit]
    /\ stat = [deposited_bytes |-> 0, used_bytes |-> 0]
    /\ deposits = [a \in Accounts |-> [bytes |-> 0, frozen_bytes |-> 0]]
    /\ borrows = [a \in Accounts |-> 0]
    /\ container = 0
    /\ rentTokens = [t \in Tokens |->
                       [listed |-> FALSE, enabled |-> FALSE, total_rent_received |-> 0,
                        acc_per_share |-> 0, total_reward |-> 0, reward_balance |-> 0]]
    /\ rents = [t \in Tokens |-> [a \in Accounts |-> 0]]
    /\ userRewards = [t \in Tokens |-> [a \in Accounts |-> [debt |-> 0, unclaimed |-> 0]]]
    /\ pool = [t \in Tokens |-> 0]
    /\ balance = [t \in Tokens |-> 0]

-----------------------------------------------------------------------------
(* Administration by the contract's own account. *)

AddRentToken(t) ==
    /\ ~ rentTokens[t].listed
    /\ rentTokens' = [rentTokens EXCEPT ![t].listed = TRUE, ![t].enabled = TRUE]
    /\ UNCHANGED <<config, ledgerVars, rents, userRewards, pool, balance>>

TokenStatus(t, enabled) ==
    /\ rentTokens[t].listed
    /\ rentTokens[t].enabled # enabled
    /\ rentTokens' = [rentTokens EXCEPT ![t].enabled = enabled]
    /\ UNCHANGED <<config, ledgerVars, rents, userRewards, pool, balance>>

(* Every setter writes the whole singleton, which gives the trailing
   disabled_transfer extension a value from then on. *)
SetConfig(row) ==
    /\ config' = [row EXCEPT !.exists = TRUE]
    /\ UNCHANGED <<ledgerVars, rewardVars>>

MaxDeposit(limit) ==
    /\ limit > 0
    /\ SetConfig([config EXCEPT !.max_deposit_limit = limit])

UpdateStatus(noDeposit, noWithdraw) ==
    SetConfig([config EXCEPT !.disabled_deposit = noDeposit,
                             !.disabled_withdraw = noWithdraw])

UpdateRatio(depositFee, withdrawFee, daoRatio, usageLimit) ==
    /\ depositFee <= MaxFeeRatio /\ withdrawFee <= MaxFeeRatio
    /\ daoRatio <= RatioPrecision /\ usageLimit <= RatioPrecision
    /\ SetConfig([config EXCEPT !.deposit_fee_ratio = depositFee,
                                !.withdraw_fee_ratio = withdrawFee,
                                !.reward_dao_ratio = daoRatio,
                                !.usage_limit_ratio = usageLimit])

TransStatus(disabled) ==
    SetConfig([config EXCEPT !.disabled_transfer = disabled])

-----------------------------------------------------------------------------
(* Distribution of rent.  acc_per_share is the reward per deposited byte so
   far, scaled by PrecisionFactor; debt is the share of the current bytes at
   the last settlement. *)

Listed == {t \in Tokens : rentTokens[t].listed}

Share(bytes, acc) == (bytes * acc) \div PrecisionFactor

(* update_reward keeps the swept balance in "auto rewards = 0", an int. *)
ToInt(n) ==
    LET r == n % IntModulus IN IF 2 * r < IntModulus THEN r ELSE r - IntModulus

(* get_reward moves the whole balance of the pool to the contract. *)
Swept(t)   == IF stat.deposited_bytes > 0 THEN pool[t] ELSE 0
Rewards(t) == ToInt(Swept(t))

(* A negative int becomes a huge uint128_t, on which safemath128::mul aborts. *)
CanReward(t) == Rewards(t) >= 0

(* Mutant: the balance is replaced instead of increased. *)
RewardedReplacing(t) ==
    IF Rewards(t) = 0 THEN rentTokens[t]
    ELSE [rentTokens[t] EXCEPT
            !.acc_per_share = @ + (Rewards(t) * PrecisionFactor) \div stat.deposited_bytes,
            !.total_reward = @ + Rewards(t),
            !.reward_balance = Rewards(t)]

(* Mutant: the reward is scaled after the division. *)
RewardedUnscaled(t) ==
    IF Rewards(t) = 0 THEN rentTokens[t]
    ELSE [rentTokens[t] EXCEPT
            !.acc_per_share = @ + (Rewards(t) \div stat.deposited_bytes) * PrecisionFactor,
            !.total_reward = @ + Rewards(t),
            !.reward_balance = @ + Rewards(t)]

(* update_reward. *)
Rewarded(t) ==
    IF Rewards(t) = 0 THEN rentTokens[t]
    ELSE [rentTokens[t] EXCEPT
            !.acc_per_share = @ + (Rewards(t) * PrecisionFactor) \div stat.deposited_bytes,
            !.total_reward = @ + Rewards(t),
            !.reward_balance = @ + Rewards(t)]

(* Mutants: the new debt is that of the old bytes; the share paid is that of
   the new bytes. *)
SettledStaleDebt(t, a, bytes) ==
    LET acc == Rewarded(t).acc_per_share IN
    [debt      |-> Share(deposits[a].bytes, acc),
     unclaimed |-> userRewards[t][a].unclaimed
                     + Share(deposits[a].bytes, acc) - userRewards[t][a].debt]

SettledOnNewBytes(t, a, bytes) ==
    LET acc == Rewarded(t).acc_per_share IN
    [debt      |-> Share(bytes, acc),
     unclaimed |-> userRewards[t][a].unclaimed
                     + Share(bytes, acc) - userRewards[t][a].debt]

(* update_user_reward: pay the share earned with the bytes held so far, and
   start again from the bytes held from now on. *)
Settled(t, a, bytes) ==
    LET acc == Rewarded(t).acc_per_share IN
    [debt      |-> Share(bytes, acc),
     unclaimed |-> userRewards[t][a].unclaimed
                     + Share(deposits[a].bytes, acc) - userRewards[t][a].debt]

(* token_change and token_change_batch: sweep every listed token, then settle
   the accounts whose deposit becomes "after". *)
TokenChange(accounts, after) ==
    /\ \A t \in Listed : CanReward(t)
    /\ rentTokens' = [t \in Tokens |-> IF t \in Listed THEN Rewarded(t) ELSE rentTokens[t]]
    /\ userRewards' = [t \in Tokens |-> [a \in Accounts |->
                         IF t \in Listed /\ a \in accounts
                         THEN Settled(t, a, after[a].bytes) ELSE userRewards[t][a]]]
    /\ pool' = [t \in Tokens |-> IF t \in Listed THEN pool[t] - Swept(t) ELSE pool[t]]
    /\ balance' = [t \in Tokens |->
                     IF t \in Listed THEN balance[t] + Swept(t) ELSE balance[t]]
    /\ UNCHANGED rents

(* Mutant: a second rent of the same borrower replaces the first. *)
RentPaidReplacing(t, borrower, amount) == [rents EXCEPT ![t][borrower] = amount]

RentPaid(t, borrower, amount) == [rents EXCEPT ![t][borrower] = @ + amount]

(* Rent arrives.  The pool is swept before this rent is added to it, so a rent
   is distributed by the transaction after the one that paid it. *)
DepositRent(t, borrower, amount) ==
    LET dao == (amount * config.reward_dao_ratio) \div RatioPrecision IN
    /\ amount > 0
    /\ rentTokens[t].listed /\ rentTokens[t].enabled
    /\ borrows[borrower] > 0
    /\ CanReward(t)
    /\ config.exists
    /\ rentTokens' = [rentTokens EXCEPT
                        ![t] = [Rewarded(t) EXCEPT !.total_rent_received = @ + amount]]
    /\ rents' = RentPaid(t, borrower, amount)
    /\ pool' = [pool EXCEPT ![t] = @ - Swept(t) + (amount - dao)]
    /\ balance' = [balance EXCEPT ![t] = @ + Swept(t)]
    /\ UNCHANGED <<config, ledgerVars, userRewards>>

-----------------------------------------------------------------------------
(* The RAM ledger. *)

(* Mutant: the frozen bytes are available too. *)
AvailableWithFrozen(a) == deposits[a].bytes

Available(a) == deposits[a].bytes - deposits[a].frozen_bytes

Fee(amount, ratio) == (amount * ratio) \div RatioPrecision

(* RAM arrives from owner; the fee goes on to RAMFEES_EOS. *)
DepositRam(owner, amount) ==
    LET kept == amount - Fee(amount, config.deposit_fee_ratio)
        after == [deposits EXCEPT ![owner].bytes = @ + kept]
    IN /\ amount > 0
       /\ ~ config.disabled_deposit
       /\ stat.deposited_bytes + amount <= config.max_deposit_limit
       /\ deposits' = after
       /\ TokenChange({owner}, after)
       /\ stat' = [stat EXCEPT !.deposited_bytes = @ + kept]
       /\ container' = container + kept
       /\ UNCHANGED <<config, borrows>>

(* Mutant: only the usage rate is looked at. *)
LiquidByRate(amount) ==
    \/ config.usage_limit_ratio = 0
    \/ stat.used_bytes * RatioPrecision
         < config.usage_limit_ratio * (stat.deposited_bytes - amount)

(* A withdrawal may neither touch lent RAM nor push the usage rate to the limit. *)
Liquid(amount) ==
    LET left == stat.deposited_bytes - amount IN
    /\ left >= stat.used_bytes
    /\ \/ config.usage_limit_ratio = 0
       \/ stat.used_bytes = 0
       \/ stat.used_bytes * RatioPrecision < config.usage_limit_ratio * left

Withdraw(owner, amount) ==
    LET after == [deposits EXCEPT ![owner].bytes = @ - amount] IN
    /\ amount > 0
    /\ ~ config.disabled_withdraw
    /\ Liquid(amount)
    /\ amount <= Available(owner)
    /\ deposits' = after
    /\ TokenChange({owner}, after)
    /\ stat' = [stat EXCEPT !.deposited_bytes = @ - amount]
    \* the fee to RAMFEES_EOS and the rest to owner
    /\ container' = container - amount
    /\ UNCHANGED <<config, borrows>>

Borrow(account, amount) ==
    /\ amount > 0
    /\ stat.used_bytes + amount <= stat.deposited_bytes
    /\ borrows' = [borrows EXCEPT ![account] = @ + amount]
    /\ stat' = [stat EXCEPT !.used_bytes = @ + amount]
    /\ container' = container - amount
    /\ UNCHANGED <<config, deposits, rewardVars>>

(* RAM arrives with memo "repay,<account>"; what exceeds the loan is refunded. *)
RepayRam(account, amount) ==
    LET repaid == IF amount > borrows[account] THEN borrows[account] ELSE amount IN
    /\ amount > 0
    /\ borrows[account] > 0
    /\ borrows' = [borrows EXCEPT ![account] = @ - repaid]
    /\ stat' = [stat EXCEPT !.used_bytes = @ - repaid]
    /\ container' = container + repaid
    /\ UNCHANGED <<config, deposits, rewardVars>>

(* Mutant: the receiver's row is written as if it did not exist. *)
MovedOver(from, to, amount) ==
    [deposits EXCEPT ![from].bytes = @ - amount, ![to].bytes = amount]

Moved(from, to, amount) ==
    [deposits EXCEPT ![from].bytes = @ - amount, ![to].bytes = @ + amount]

(* The body of transfer, whoever authorises it. *)
MoveBytes(from, to, amount) ==
    /\ from # to
    /\ amount > 0
    /\ amount <= Available(from)
    /\ deposits' = Moved(from, to, amount)
    /\ TokenChange({from, to}, Moved(from, to, amount))
    /\ UNCHANGED <<config, stat, borrows, container>>

(* disabled_transfer is a binary_extension: reading it aborts until some
   setter has written the config. *)
Transfer(from, to, amount) ==
    /\ config.exists /\ ~ config.disabled_transfer
    /\ MoveBytes(from, to, amount)

(* Mutants: any amount can be unfrozen; a second freeze replaces the first. *)
CanUnfreezeAny(owner, amount) == amount > 0
FrozenReplacing(owner, amount) == [deposits EXCEPT ![owner].frozen_bytes = amount]

(* Called by ramx.eos only. *)
CanFreeze(owner, amount)   == amount > 0 /\ amount <= Available(owner)
CanUnfreeze(owner, amount) == amount > 0 /\ amount <= deposits[owner].frozen_bytes
Frozen(owner, amount)   == [deposits EXCEPT ![owner].frozen_bytes = @ + amount]
Unfrozen(owner, amount) == [deposits EXCEPT ![owner].frozen_bytes = @ - amount]

Freeze(owner, amount) ==
    /\ CanFreeze(owner, amount)
    /\ deposits' = Frozen(owner, amount)
    /\ UNCHANGED <<config, stat, borrows, container, rewardVars>>

Unfreeze(owner, amount) ==
    /\ CanUnfreeze(owner, amount)
    /\ deposits' = Unfrozen(owner, amount)
    /\ UNCHANGED <<config, stat, borrows, container, rewardVars>>

-----------------------------------------------------------------------------
(* The actions that need no call from the exchange, and all of them. *)

AdminNext ==
    \/ \E t \in Tokens : AddRentToken(t)
    \/ \E t \in Tokens, enabled \in BOOLEAN : TokenStatus(t, enabled)
    \/ \E limit \in DepositLimits : MaxDeposit(limit)
    \/ \E noDeposit, noWithdraw \in BOOLEAN : UpdateStatus(noDeposit, noWithdraw)
    \/ \E df, wf \in FeeRatios, dao \in DaoRatios, usage \in UsageLimits :
         UpdateRatio(df, wf, dao, usage)
    \/ \E disabled \in BOOLEAN : TransStatus(disabled)

LedgerNext ==
    \/ \E a \in Accounts, n \in Amounts : DepositRam(a, n)
    \/ \E a \in Accounts, n \in Amounts : Withdraw(a, n)
    \/ \E a \in Accounts, n \in Amounts : Borrow(a, n)
    \/ \E a \in Accounts, n \in Amounts : RepayRam(a, n)
    \/ \E a, b \in Accounts, n \in Amounts : Transfer(a, b, n)
    \/ \E t \in Tokens, a \in Accounts, n \in Rents :
         /\ rentTokens[t].total_rent_received + n <= MaxRent
         /\ DepositRent(t, a, n)

(* ramx.eos, or an environment with its authority, freezes and unfreezes and
   moves bytes without regard to the transfer status. *)
RamxNext ==
    \/ \E a \in Accounts, n \in Amounts : Freeze(a, n)
    \/ \E a \in Accounts, n \in Amounts : Unfreeze(a, n)
    \/ \E a, b \in Accounts, n \in Amounts : MoveBytes(a, b, n)

Next == AdminNext \/ LedgerNext \/ RamxNext

Spec == Init /\ [][Next]_bankVars

-----------------------------------------------------------------------------
(* Properties. *)

DepositBytes == [a \in Accounts |-> deposits[a].bytes]

(* The totals in stat are the sums over the tables they summarise, and the RAM
   container holds what was deposited and is not lent: do_deposit_ram, withdraw,
   borrow, do_repay_ram and transfer keep three tables and an account in step. *)
LedgerBalanced ==
    /\ SumFunctionOnSet(DepositBytes, Accounts) = stat.deposited_bytes
    /\ SumFunctionOnSet(borrows, Accounts) = stat.used_bytes
    /\ container = stat.deposited_bytes - stat.used_bytes

(* No more RAM is lent than is deposited, whatever the order of withdrawals and
   loans: the container can serve every transfer that the checks let through. *)
LoansCovered == stat.used_bytes <= stat.deposited_bytes

(* Bytes frozen for sell orders stay in the account: neither withdraw nor
   transfer takes them, so bytes - frozen_bytes never wraps around. *)
FrozenCovered == \A a \in Accounts : deposits[a].frozen_bytes <= deposits[a].bytes

(* A user's debt never exceeds the share of the bytes held, so the unsigned
   subtraction in update_user_reward never wraps around. *)
DebtCovered ==
    \A t \in Tokens, a \in Accounts :
        userRewards[t][a].debt <= Share(deposits[a].bytes, rentTokens[t].acc_per_share)

(* total_rent_received of a token is the sum of its borrowers' rents rows. *)
RentsTotalled ==
    \A t \in Tokens :
        SumFunctionOnSet(rents[t], Accounts) = rentTokens[t].total_rent_received

(* Every token swept from the pool into the contract is booked as reward:
   reward_balance follows the contract's own balance.  It holds as long as a
   swept balance fits the int of update_reward. *)
RewardBooked == \A t \in Tokens : balance[t] = rentTokens[t].reward_balance

(* What an account could claim of a token if it were settled now. *)
Entitled(t, a) ==
    userRewards[t][a].unclaimed
      + Share(deposits[a].bytes, rentTokens[t].acc_per_share) - userRewards[t][a].debt

(* Those who share a reward. *)
Depositors == {a \in Accounts : deposits[a].bytes > 0}

(* The only thing that changes what an account is entitled to is a rise of
   acc_per_share, and it pays on the bytes the account held before the step:
   depositing, withdrawing, transferring or trading in the transaction that
   sweeps a reward neither gains nor loses a part of it. *)
PaidOnBytesHeld ==
    [][\A t \in Tokens, a \in Accounts :
          Entitled(t, a)' = Entitled(t, a)
            + Share(deposits[a].bytes, rentTokens'[t].acc_per_share)
            - Share(deposits[a].bytes, rentTokens[t].acc_per_share)]_bankVars

(* Each settlement rounds a share down on its own, whatever the total: a reward that
   is distributed promises the depositors as much, save for less than one unit each
   either way and what a remainder below one unit per PrecisionFactor bytes leaves
   in the accumulator; and nobody is promised anything unless a reward came. *)
RewardsShared ==
    [][\A t \in Tokens :
         LET promised == SumFunctionOnSet([a \in Accounts |-> Entitled(t, a)' - Entitled(t, a)],
                                          Accounts)
             received == rentTokens'[t].reward_balance - rentTokens[t].reward_balance
             rounding == Cardinality(Depositors) * (PrecisionFactor - 1)
         IN IF received = 0 THEN promised = 0
            ELSE PrecisionFactor * promised
                   \in (PrecisionFactor * received - rounding - (stat.deposited_bytes - 1))
                         ..(PrecisionFactor * received + rounding)]_bankVars

=============================================================================
