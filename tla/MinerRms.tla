-------------------------------- MODULE MinerRms --------------------------------
(***************************************************************************)
(* The mining contract miner.rms, composed with stake.rms: pools that pay  *)
(* a reward per block to the stakers of V.                                 *)
(*                                                                         *)
(* Every change of a stake ends with stake.rms calling stakechange, so one *)
(* transaction of stake.rms changes the tables of both contracts in one    *)
(* step.  A pool learns about the stakes that exist when it is added from  *)
(* initusers, which reads them in batches while stakes go on changing.     *)
(***************************************************************************)
EXTENDS StakeRms

CONSTANTS
    NameOrder,       \* the value of each account name, the order of the tables
    RewardTokens,    \* token contracts pools pay with
    MinerPrecision,  \* PRECISION_FACTOR of miner.rms, the scale of acc_reward_per_share
    \* Bounds of the instance: ids of pools, rewards per block, batch limits,
    \* the height of the chain, transfers to the contract.
    MaxPools, Rates, Limits, MaxBlock, Fundings, MaxFunding

PoolIds == 0..(MaxPools - 1)

ASSUME MinerAssumption ==
    /\ NameOrder \in [Accounts -> Nat]
    /\ \A a, b \in Accounts : NameOrder[a] = NameOrder[b] => a = b
    /\ MinerPrecision \in Nat \ {0}
    /\ MaxPools \in Nat /\ MaxBlock \in Nat /\ MaxFunding \in Nat
    /\ Rates \subseteq Nat /\ Limits \subseteq Nat /\ Fundings \subseteq Nat \ {0}

VARIABLES
    pools,         \* the poolinfo table
    users,         \* the userinfo table, by pool and account
    minerStat,     \* the stat singleton of miner.rms; "exists" once it was set
    minerBalance,  \* reward tokens held by miner.rms
    minerIgnored,  \* reward tokens received with memo "ignore"
    block          \* current_block_number()

minerVars == <<pools, users, minerStat, minerBalance, minerIgnored, block>>
allVars   == <<vars, minerVars>>

-----------------------------------------------------------------------------

PoolRow == [exists : BOOLEAN, reward_token : RewardTokens, reward_per_block : Nat,
            last_reward_block : Nat, acc_reward_per_share : Nat,
            total_distributed_reward : Nat, total_claimed_reward : Nat,
            initialized : BOOLEAN]
UserRow == [exists : BOOLEAN, stake_amount : Nat, unclaimed : Nat, claimed : Nat, debt : Nat]

NoPool(token) ==
    [exists |-> FALSE, reward_token |-> token, reward_per_block |-> 0,
     last_reward_block |-> 0, acc_reward_per_share |-> 0, total_distributed_reward |-> 0,
     total_claimed_reward |-> 0, initialized |-> FALSE]
NoUser == [exists |-> FALSE, stake_amount |-> 0, unclaimed |-> 0, claimed |-> 0, debt |-> 0]

MinerShare(amount, acc) == (amount * acc) \div MinerPrecision

(* Every table holds rows of its type; the debt of a record never exceeds the
   share of its stake, so that pending_reward - debt never wraps; a pool never
   pays more than was sent to it. *)
MinerTypeOK ==
    /\ pools \in [PoolIds -> PoolRow]
    /\ users \in [PoolIds -> [Accounts -> UserRow]]
    /\ minerStat \in [exists : BOOLEAN, last_stake_amount : Nat]
    /\ minerBalance \in [RewardTokens -> Nat] /\ minerIgnored \in [RewardTokens -> Nat]
    /\ block \in Nat
    /\ \A p \in PoolIds :
         /\ pools[p].last_reward_block <= block
         /\ pools[p].total_claimed_reward <= pools[p].total_distributed_reward
         /\ \A a \in Accounts : users[p][a].debt <=
              MinerShare(users[p][a].stake_amount, pools[p].acc_reward_per_share)

MinerInit ==
    /\ Init
    /\ \E token \in RewardTokens : pools = [p \in PoolIds |-> NoPool(token)]
    /\ users = [p \in PoolIds |-> [a \in Accounts |-> NoUser]]
    /\ minerStat = [exists |-> FALSE, last_stake_amount |-> 0]
    /\ minerBalance = [t \in RewardTokens |-> 0] /\ minerIgnored = [t \in RewardTokens |-> 0]
    /\ block = 0

-----------------------------------------------------------------------------
(* Rewards of a pool accrue when something happens to it, for all the blocks
   since the last time, and are divided by the total stake of the last
   notification. *)

Accrued(row) ==
    (row.reward_per_block * (block - row.last_reward_block) * MinerPrecision)
      \div minerStat.last_stake_amount

Earning(row) == row.reward_per_block > 0 /\ minerStat.last_stake_amount > 0

(* updatepool: the total stake can be 0 although a comment says "This situation
   is impossible to occur". *)
UpdatedPool(row) ==
    IF row.initialized /\ Earning(row)
    THEN [row EXCEPT !.acc_reward_per_share = @ + Accrued(row), !.last_reward_block = block]
    ELSE [row EXCEPT !.last_reward_block = block]

(* Mutant: the debt is that of the old stake. *)
SettledUserOldDebt(u, acc, stake) ==
    LET pending == MinerShare(u.stake_amount, acc) IN
    IF ~ u.exists /\ stake = 0 THEN u
    ELSE [u EXCEPT !.exists = TRUE, !.stake_amount = stake, !.debt = pending,
                   !.unclaimed = @ + IF pending > u.debt THEN pending - u.debt ELSE 0]

(* update_user_rewards on a record, which is made for a staker who has none. *)
SettledUser(u, acc, stake) ==
    LET pending == MinerShare(u.stake_amount, acc) IN
    IF ~ u.exists /\ stake = 0 THEN u
    ELSE [u EXCEPT !.exists = TRUE, !.stake_amount = stake, !.debt = MinerShare(stake, acc),
                   !.unclaimed = @ + IF pending > u.debt THEN pending - u.debt ELSE 0]

-----------------------------------------------------------------------------
(* The notification of stake.rms. *)

(* Mutant: a pool hears of the change whether it is initialized or not. *)
NotifiedPoolsAll == {p \in PoolIds : pools[p].exists}

NotifiedPools == {p \in PoolIds : pools[p].initialized}

(* Mutant: the total of before the change. *)
NotifiedStatBefore == [exists |-> TRUE, last_stake_amount |-> stat.stake_amount]

(* update_last_stake_amount. *)
NotifiedStat == [exists |-> TRUE, last_stake_amount |-> stat'.stake_amount]

(* stakechange for each account of S, after stake.rms changed its tables.  A
   second call in the same block finds the pools up to date. *)
StakeChanged(S) ==
    /\ pools' = [p \in PoolIds |->
         IF p \in NotifiedPools THEN UpdatedPool(pools[p]) ELSE pools[p]]
    /\ users' = [p \in PoolIds |-> [a \in Accounts |->
         IF p \in NotifiedPools /\ a \in S
         THEN SettledUser(users[p][a], pools'[p].acc_reward_per_share, stakes'[a].amount)
         ELSE users[p][a]]]
    /\ minerStat' = NotifiedStat
    /\ UNCHANGED <<minerBalance, minerIgnored, block>>

-----------------------------------------------------------------------------
(* The contract's own account. *)

AddPool(p, token, rate) ==
    /\ \A q \in PoolIds : pools[q].exists <=> q < p
    /\ pools' = [pools EXCEPT ![p] = [NoPool(token) EXCEPT
         !.exists = TRUE, !.reward_per_block = rate, !.last_reward_block = block]]
    /\ UNCHANGED <<vars, users, minerStat, minerBalance, minerIgnored, block>>

(* Mutant: the blocks since the last update are paid at the new rate. *)
RateChangedFirst(row, rate) ==
    LET new == [row EXCEPT !.reward_per_block = rate] IN
    [new EXCEPT
       !.acc_reward_per_share = @ + (IF Earning(new) THEN Accrued(new) ELSE 0),
       !.last_reward_block = block]

(* What setpool makes of a pool, whether initusers has finished with it or not. *)
RateChanged(row, rate) ==
    [row EXCEPT
       !.acc_reward_per_share = @ + (IF Earning(row) THEN Accrued(row) ELSE 0),
       !.last_reward_block = block,
       !.reward_per_block = rate]

(* _stat.get() aborts when nothing has set it. *)
SetPool(p, rate) ==
    /\ pools[p].exists
    /\ block > pools[p].last_reward_block /\ pools[p].reward_per_block > 0 => minerStat.exists
    /\ pools' = [pools EXCEPT ![p] = RateChanged(@, rate)]
    /\ UNCHANGED <<vars, users, minerStat, minerBalance, minerIgnored, block>>

Recorded(p) == {a \in Accounts : users[p][a].exists}

(* Mutant: a call starts with the staker the last one ended with. *)
AheadFromLast(p) ==
    {a \in Accounts : stakes[a].exists /\ \A u \in Recorded(p) : NameOrder[u] <= NameOrder[a]}

(* The stakers initusers has not passed: those after the last record. *)
Ahead(p) ==
    {a \in Accounts : stakes[a].exists /\ \A u \in Recorded(p) : NameOrder[u] < NameOrder[a]}

(* The first stakers ahead that hold a stake, at most limit of them. *)
IsBatch(p, S, limit) ==
    LET staking == {a \in Ahead(p) : stakes[a].amount > 0} IN
    /\ S \subseteq staking
    /\ Cardinality(S) <= limit
    /\ S = staking \/ Cardinality(S) = limit
    /\ \A a \in S, b \in staking \ S : NameOrder[a] < NameOrder[b]

(* The walk has left the table: it was not stopped by the limit, or nothing
   comes after the last staker it added. *)
ReachesEnd(p, S, limit) ==
    \/ Cardinality(S) < limit
    \/ \A b \in Ahead(p) : \E a \in S : NameOrder[b] <= NameOrder[a]

InitUsers(p, limit) ==
    /\ pools[p].exists
    /\ ~ pools[p].initialized
    /\ pools[p].acc_reward_per_share = 0
    /\ \E S \in SUBSET Ahead(p) :
         LET done == ReachesEnd(p, S, limit) IN
         /\ IsBatch(p, S, limit)
         /\ users' = [users EXCEPT ![p] = [a \in Accounts |->
              IF a \in S THEN [NoUser EXCEPT !.exists = TRUE, !.stake_amount = stakes[a].amount]
              ELSE @[a]]]
         /\ pools' = [pools EXCEPT ![p].last_reward_block = block, ![p].initialized = done]
         /\ minerStat' = IF done /\ minerStat.last_stake_amount = 0
                         THEN [exists |-> TRUE, last_stake_amount |-> stat.stake_amount]
                         ELSE minerStat
    /\ UNCHANGED <<vars, minerBalance, minerIgnored, block>>

(* syncuser writes the stake and its debt; what the record had earned since it
   was last settled is not added to unclaimed. *)
Synced(u, acc, stake) ==
    [u EXCEPT !.exists = TRUE, !.stake_amount = stake, !.debt = MinerShare(stake, acc)]

SyncUser(p, a) ==
    LET pool == UpdatedPool(pools[p]) IN
    /\ pools[p].exists
    /\ users[p][a].exists \/ stakes[a].amount > 0
    /\ pools' = [pools EXCEPT ![p] = pool]
    /\ users' = [users EXCEPT ![p][a] = Synced(@, pool.acc_reward_per_share, stakes[a].amount)]
    /\ UNCHANGED <<vars, minerStat, minerBalance, minerIgnored, block>>

-----------------------------------------------------------------------------
(* Users and funding. *)

(* Mutant: the claim is not counted. *)
ClaimedOfUncounted(pool, amount) == pool

ClaimedOf(pool, amount) == [pool EXCEPT !.total_claimed_reward = @ + amount]

(* A claim that would take more than was sent to the pool aborts. *)
MinerClaim(p, a) ==
    LET pool  == UpdatedPool(pools[p])
        user  == SettledUser(users[p][a], pool.acc_reward_per_share, stakes[a].amount)
        token == pool.reward_token
    IN
    /\ pools[p].initialized
    /\ user.exists
    /\ user.unclaimed > 0
    /\ user.unclaimed <= minerBalance[token]
    /\ pool.total_claimed_reward + user.unclaimed <= pool.total_distributed_reward
    /\ pools' = [pools EXCEPT ![p] = ClaimedOf(pool, user.unclaimed)]
    /\ users' = [users EXCEPT ![p][a] =
                   [user EXCEPT !.claimed = @ + user.unclaimed, !.unclaimed = 0]]
    /\ minerBalance' = [minerBalance EXCEPT ![token] = @ - user.unclaimed]
    /\ UNCHANGED <<vars, minerStat, minerIgnored, block>>

(* A transfer whose memo is the id of a pool. *)
FundPool(p, amount) ==
    /\ pools[p].exists
    /\ pools' = [pools EXCEPT ![p].total_distributed_reward = @ + amount]
    /\ minerBalance' = [minerBalance EXCEPT ![pools[p].reward_token] = @ + amount]
    /\ UNCHANGED <<vars, users, minerStat, minerIgnored, block>>

IgnoredReward(t, amount) ==
    /\ minerBalance' = [minerBalance EXCEPT ![t] = @ + amount]
    /\ minerIgnored' = [minerIgnored EXCEPT ![t] = @ + amount]
    /\ UNCHANGED <<vars, pools, users, minerStat, block>>

NextBlock ==
    /\ block < MaxBlock
    /\ block' = block + 1
    /\ UNCHANGED <<vars, pools, users, minerStat, minerBalance, minerIgnored>>

-----------------------------------------------------------------------------

(* The actions of stake.rms that call batch_update_reward, with its notification. *)
NotifyingNext ==
    \/ \E a \in Accounts, n \in Amounts :
         vBalance + n <= MaxSupply /\ OnStake(a, n) /\ StakeChanged({a})
    \/ \E a \in Accounts, n \in Amounts \cup {0} : Unstake(a, n) /\ StakeChanged({a})
    \/ \E a \in Accounts, i \in UnstakeIds : Restake(a, i) /\ StakeChanged({a})
    \/ \E a \in Accounts, n \in Amounts : Rams2V(a, n) /\ StakeChanged({a, RamsDao})

(* Those that do not: init among them, although it writes the stake table. *)
SilentNext ==
    /\ \/ OwnNext
       \/ \E a \in Accounts : Withdraw(a)
       \/ \E a \in Accounts, n \in Amounts : RepayRam(a, n)
       \/ \E n \in Amounts : vBalance + n <= MaxSupply /\ IgnoredV(n)
       \/ RentNext
       \/ Tick
    /\ UNCHANGED minerVars

PoolNext ==
    \/ \E p \in PoolIds, t \in RewardTokens, r \in Rates : AddPool(p, t, r)
    \/ \E p \in PoolIds, r \in Rates : SetPool(p, r)
    \/ \E p \in PoolIds, n \in Limits : InitUsers(p, n)
    \/ \E p \in PoolIds, a \in Accounts : SyncUser(p, a)
    \/ \E p \in PoolIds, a \in Accounts : MinerClaim(p, a)
    \/ \E p \in PoolIds, n \in Fundings :
         pools[p].total_distributed_reward + n <= MaxFunding /\ FundPool(p, n)
    \/ \E t \in RewardTokens, n \in Fundings :
         minerIgnored[t] + n <= MaxFunding /\ IgnoredReward(t, n)
    \/ NextBlock

MinerNext == NotifyingNext \/ SilentNext \/ PoolNext

MinerSpec == MinerInit /\ [][MinerNext]_allVars

-----------------------------------------------------------------------------
(* Properties. *)

(* The total stake pools divide by is that of stake.rms, from the first
   initialized pool or the first notification on. *)
TotalTracked ==
    minerStat.exists => minerStat.last_stake_amount = stat.stake_amount

(* The tokens held are what was sent to the pools and not claimed, save those
   sent with memo "ignore", also when pools share a token; what a pool counts as
   claimed is what its users were paid. *)
PoolsFunded ==
    /\ \A p \in PoolIds : pools[p].total_claimed_reward =
         SumFunctionOnSet([a \in Accounts |-> users[p][a].claimed], Accounts)
    /\ \A t \in RewardTokens :
         minerBalance[t] = minerIgnored[t] + SumFunctionOnSet(
           [p \in PoolIds |->
              pools[p].total_distributed_reward - pools[p].total_claimed_reward],
           {p \in PoolIds : pools[p].reward_token = t})

(* initusers has gone past the place of the account in the stake table. *)
Passed(p, a) == \E u \in Recorded(p) : NameOrder[u] >= NameOrder[a]

(* The record of an account is its stake, or initusers has still to read it. *)
Tracked(p, a) ==
    \/ users[p][a].stake_amount = stakes[a].amount
    \/ ~ pools[p].initialized /\ ~ Passed(p, a)

(* Whatever is staked, unstaked, restaked or swapped between the batches of
   initusers and after the last one, a pool loses track of a stake in two ways
   only: it changes after initusers passed it and before the pool is
   initialized, or syncuser adds a later account over which initusers skips.
   Neither loss lasts: once the pool is initialized the next change of that stake
   records it, whether there was a record or not, and so does syncuser. *)
TracksStakes ==
    [][\A p \in PoolIds, a \in Accounts : config'.init_done = config.init_done =>
         /\ Tracked(p, a) =>
              \/ Tracked(p, a)'
              \/ /\ ~ pools'[p].initialized
                 /\ \/ Passed(p, a) /\ stakes'[a].amount # stakes[a].amount
                    \/ \E u \in Accounts : NameOrder[u] > NameOrder[a] /\ SyncUser(p, u)
         /\ \/ pools[p].initialized /\ stakes'[a].amount # stakes[a].amount
            \/ SyncUser(p, a)
            => users'[p][a].stake_amount = stakes'[a].amount]_allVars

(* What a user has been paid of a pool or can claim in this block. *)
Mined(p, a) ==
    users[p][a].claimed + users[p][a].unclaimed - users[p][a].debt
      + MinerShare(users[p][a].stake_amount, UpdatedPool(pools[p]).acc_reward_per_share)

(* Rewards are settled lazily, yet each user earns block by block: a new block
   gives a user its part of reward_per_block for its recorded stake, save less
   than one token for the rounding of its share and one more for every
   MinerPrecision of its stake for that of the accumulator; no other step changes
   what anybody can claim, whatever stakes and rates change. Only syncuser takes
   something away, from the user it syncs: all that was not yet credited to its
   record, and nothing of what was credited or paid. *)
PaidPerBlock ==
    [][\A p \in PoolIds, a \in Accounts : pools[p].initialized =>
         LET gain  == Mined(p, a)' - Mined(p, a)
             total == minerStat.last_stake_amount
             stake == users[p][a].stake_amount
             part  == pools[p].reward_per_block * stake * MinerPrecision
             slack == (stake + MinerPrecision) * total
         IN IF block' > block /\ total > 0
            THEN gain * total * MinerPrecision \in (part - slack + 1)..(part + slack - 1)
            ELSE \/ gain = 0
                 \/ /\ SyncUser(p, a) /\ gain < 0
                    /\ Mined(p, a)' = users[p][a].claimed + users[p][a].unclaimed]_allVars

(* The action that is repeated "until it no longer processes users". *)
InitFairness ==
    \A p \in PoolIds : WF_allVars(\E n \in Limits \ {0} : InitUsers(p, n))

FairMinerSpec == MinerSpec /\ InitFairness

(* Repeating initusers initializes every pool, whatever stakers do meanwhile,
   unless setpool gives the pool rewards first. *)
PoolsStart ==
    \A p \in PoolIds : pools[p].exists
      ~> pools[p].initialized \/ pools[p].acc_reward_per_share > 0

=============================================================================
