---------------------------- MODULE MinerRmsProofs ----------------------------
(***************************************************************************)
(* Proofs about miner.rms composed with stake.rms: the total that pools    *)
(* divide by is the total stake, a pool pays what was sent to it and no    *)
(* more, users earn block by block whatever happens in between, and a pool *)
(* loses track of a stake in two ways only, for any number of pools,       *)
(* stakers and blocks.                                                     *)
(***************************************************************************)
EXTENDS MinerRms, StakeRmsProofs

(* The rows of the miner's tables, without what relates them. *)
MinerTypes ==
    /\ pools \in [PoolIds -> PoolRow]
    /\ users \in [PoolIds -> [Accounts -> UserRow]]
    /\ minerStat \in [exists : BOOLEAN, last_stake_amount : Nat]
    /\ minerBalance \in [RewardTokens -> Nat] /\ minerIgnored \in [RewardTokens -> Nat]
    /\ block \in Nat

(* A pool is settled in no block to come, and has paid what was sent to it. *)
PoolSound(p) ==
    /\ pools[p].last_reward_block <= block
    /\ pools[p].total_claimed_reward <= pools[p].total_distributed_reward

(* The unsigned subtraction of the debt does not wrap. *)
UserSound(p, a) ==
    users[p][a].debt <= MinerShare(users[p][a].stake_amount, pools[p].acc_reward_per_share)

(* What is not in the tables yet is nothing: a pool that was not added has no
   users and no rewards, whatever token it will pay with, and initusers makes
   only records that were not there. *)
Unmade ==
    /\ \A p \in PoolIds : ~ pools[p].exists =>
         /\ ~ pools[p].initialized
         /\ pools[p].total_distributed_reward = 0 /\ pools[p].total_claimed_reward = 0
         /\ \A a \in Accounts : ~ users[p][a].exists
    /\ \A p \in PoolIds, a \in Accounts : ~ users[p][a].exists => users[p][a] = NoUser

(* A pool that pays divides by a total that was set: no later batch of another
   pool gives it a total for blocks that have passed. *)
TotalSet ==
    /\ ~ minerStat.exists => minerStat.last_stake_amount = 0
    /\ \A p \in PoolIds : pools[p].initialized => minerStat.exists

MinerInv == IndInv /\ MinerTypeOK /\ TotalTracked /\ PoolsFunded /\ Unmade /\ TotalSet

-----------------------------------------------------------------------------
(* Rows. *)

LEMMA PoolRowFields ==
    ASSUME NEW row \in PoolRow
    PROVE  /\ row.exists \in BOOLEAN /\ row.reward_token \in RewardTokens
           /\ row.reward_per_block \in Nat /\ row.last_reward_block \in Nat
           /\ row.acc_reward_per_share \in Nat /\ row.total_distributed_reward \in Nat
           /\ row.total_claimed_reward \in Nat /\ row.initialized \in BOOLEAN
           /\ \A n, m, k \in Nat, e \in BOOLEAN :
                /\ [row EXCEPT !.acc_reward_per_share = n, !.last_reward_block = m] \in PoolRow
                /\ [row EXCEPT !.acc_reward_per_share = n, !.last_reward_block = m,
                               !.reward_per_block = k] \in PoolRow
                /\ [row EXCEPT !.last_reward_block = m] \in PoolRow
                /\ [row EXCEPT !.last_reward_block = m, !.initialized = e] \in PoolRow
                /\ [row EXCEPT !.total_claimed_reward = n] \in PoolRow
                /\ [row EXCEPT !.total_distributed_reward = n] \in PoolRow
  BY Zenon DEF PoolRow

LEMMA UserRowFields ==
    ASSUME NEW row \in UserRow
    PROVE  /\ row.exists \in BOOLEAN /\ row.stake_amount \in Nat /\ row.unclaimed \in Nat
           /\ row.claimed \in Nat /\ row.debt \in Nat
           /\ \A n, m, k \in Nat, e \in BOOLEAN :
                /\ [row EXCEPT !.exists = e, !.stake_amount = n, !.debt = m,
                               !.unclaimed = k] \in UserRow
                /\ [row EXCEPT !.exists = e, !.stake_amount = n, !.debt = m] \in UserRow
                /\ [row EXCEPT !.exists = e, !.stake_amount = n] \in UserRow
                /\ [row EXCEPT !.claimed = n, !.unclaimed = m] \in UserRow
  BY Zenon DEF UserRow

(* An empty record holds nothing. *)
LEMMA NoUserRow == NoUser \in UserRow /\ MinerShare(NoUser.stake_amount, 0) \in Nat
  BY MinerAssumption DEF NoUser, UserRow, MinerShare

(* Shares are natural numbers and grow with the accumulator. *)
LEMMA MinerShareFacts ==
    ASSUME NEW amount \in Nat, NEW acc \in Nat
    PROVE  /\ MinerShare(amount, acc) \in Nat
           /\ MinerShare(0, acc) = 0
           /\ \A more \in Nat : acc <= more => MinerShare(amount, acc) <= MinerShare(amount, more)
<1>1. MinerPrecision \in Nat \ {0} /\ amount * acc \in Nat
  BY MinerAssumption, ProductNat
<1>2. (amount * acc) \div MinerPrecision \in Nat
  BY <1>1, Division
<1>3. ASSUME NEW more \in Nat, acc <= more
      PROVE  MinerShare(amount, acc) <= MinerShare(amount, more)
  <2>1. amount * more \in Nat /\ amount * acc <= amount * more
    BY <1>3, ProductNat, ProductMonotone
  <2> QED BY <1>1, <2>1, DivMonotone DEF MinerShare
<1>4. MinerShare(0, acc) = 0
  <2>1. 0 * acc = 0 /\ 0 \div MinerPrecision = 0
    BY <1>1
  <2> QED BY <2>1 DEF MinerShare
<1> QED BY <1>2, <1>3, <1>4 DEF MinerShare

(* What accrues is natural, and nothing in the block of the last settlement. *)
LEMMA AccruedFacts ==
    ASSUME NEW row \in PoolRow, row.last_reward_block <= block, block \in Nat,
           minerStat.last_stake_amount \in Nat \ {0}
    PROVE  /\ Accrued(row) \in Nat
           /\ row.last_reward_block = block => Accrued(row) = 0
<1>0. row.reward_per_block \in Nat /\ row.last_reward_block \in Nat
  BY PoolRowFields
<1>1. /\ row.reward_per_block \in Nat /\ block - row.last_reward_block \in Nat
      /\ MinerPrecision \in Nat
  BY <1>0, MinerAssumption
<1> DEFINE span == block - row.last_reward_block
           total == minerStat.last_stake_amount
           n == row.reward_per_block * span * MinerPrecision
<1>2. n \in Nat
  <2> HIDE DEF span
  <2>1. row.reward_per_block * span \in Nat
    BY <1>1, ProductNat DEF span
  <2> QED BY <1>1, <2>1, ProductNat
<1>3. n \div total \in Nat
  <2> HIDE DEF n
  <2> QED BY <1>2, Division
<1>4. ASSUME span = 0 PROVE n \div total = 0
  <2>1. row.reward_per_block * 0 = 0 /\ 0 * MinerPrecision = 0 /\ 0 \div total = 0
    BY <1>1
  <2>2. n = 0
    BY <1>4, <2>1
  <2> QED BY <2>1, <2>2
<1> QED BY <1>1, <1>3, <1>4 DEF Accrued

(* A pool brought up to date. *)
LEMMA UpdatedPoolFacts ==
    ASSUME NEW row \in PoolRow, row.last_reward_block <= block, block \in Nat,
           minerStat \in [exists : BOOLEAN, last_stake_amount : Nat]
    PROVE  LET new == UpdatedPool(row) IN
           /\ new \in PoolRow
           /\ new.last_reward_block = block
           /\ row.acc_reward_per_share <= new.acc_reward_per_share
           /\ new.exists = row.exists /\ new.initialized = row.initialized
           /\ new.reward_token = row.reward_token
           /\ new.reward_per_block = row.reward_per_block
           /\ new.total_distributed_reward = row.total_distributed_reward
           /\ new.total_claimed_reward = row.total_claimed_reward
<1>1. row.acc_reward_per_share \in Nat
  BY PoolRowFields
<1>2. CASE row.initialized /\ Earning(row)
  <2> DEFINE more == Accrued(row)
             acc  == row.acc_reward_per_share + more
  <2>1. more \in Nat
    BY <1>2, AccruedFacts DEF Earning
  <2>2. UpdatedPool(row) = [row EXCEPT !.acc_reward_per_share = acc,
                                       !.last_reward_block = block]
    BY <1>2 DEF UpdatedPool, PoolRow
  <2>3. acc \in Nat /\ row.acc_reward_per_share <= acc
    <3> HIDE DEF more
    <3> QED BY <1>1, <2>1
  <2> HIDE DEF acc
  <2>4. UpdatedPool(row) \in PoolRow
    BY <2>2, <2>3 DEF PoolRow
  <2> QED BY <2>2, <2>3, <2>4 DEF PoolRow
<1>3. CASE ~ (row.initialized /\ Earning(row))
  <2>1. UpdatedPool(row) = [row EXCEPT !.last_reward_block = block]
    BY <1>3 DEF UpdatedPool
  <2>2. UpdatedPool(row) \in PoolRow
    BY <2>1 DEF PoolRow
  <2> QED BY <1>1, <2>1, <2>2 DEF PoolRow
<1> QED BY <1>2, <1>3

(* A pool whose rate changes is settled as updatepool does, if it is initialized. *)
LEMMA RateChangedFacts ==
    ASSUME NEW row \in PoolRow, row.last_reward_block <= block, block \in Nat,
           minerStat \in [exists : BOOLEAN, last_stake_amount : Nat], NEW rate \in Nat
    PROVE  LET new == RateChanged(row, rate) IN
           /\ new \in PoolRow
           /\ new.last_reward_block = block
           /\ row.acc_reward_per_share <= new.acc_reward_per_share
           /\ row.initialized =>
                new.acc_reward_per_share = UpdatedPool(row).acc_reward_per_share
           /\ new.exists = row.exists /\ new.initialized = row.initialized
           /\ new.reward_token = row.reward_token
           /\ new.total_distributed_reward = row.total_distributed_reward
           /\ new.total_claimed_reward = row.total_claimed_reward
<1>1. row.acc_reward_per_share \in Nat
  BY PoolRowFields
<1> DEFINE more == IF Earning(row) THEN Accrued(row) ELSE 0
           acc  == row.acc_reward_per_share + more
<1>2. more \in Nat
  BY AccruedFacts DEF Earning
<1>3. acc \in Nat /\ row.acc_reward_per_share <= acc
  <2> HIDE DEF more
  <2> QED BY <1>1, <1>2
<1>4. RateChanged(row, rate) = [row EXCEPT !.acc_reward_per_share = acc,
                                  !.last_reward_block = block, !.reward_per_block = rate]
  BY DEF RateChanged, PoolRow
<1>5. row.initialized => acc = UpdatedPool(row).acc_reward_per_share
  BY <1>1 DEF UpdatedPool, PoolRow
<1> HIDE DEF acc
<1>6. RateChanged(row, rate) \in PoolRow
  BY <1>3, <1>4 DEF PoolRow
<1> QED BY <1>3, <1>4, <1>5, <1>6 DEF PoolRow

(* All a user was or can be paid at the accumulator acc. *)
MinedAt(u, acc) ==
    u.claimed + u.unclaimed - u.debt + MinerShare(u.stake_amount, acc)

(* update_user_rewards gains and loses nothing. *)
LEMMA SettledUserFacts ==
    ASSUME NEW u \in UserRow, NEW acc \in Nat, NEW stake \in Nat,
           u.debt <= MinerShare(u.stake_amount, acc), ~ u.exists => u = NoUser
    PROVE  LET new == SettledUser(u, acc, stake) IN
           /\ new \in UserRow
           /\ new.claimed = u.claimed
           /\ new.stake_amount = stake
           /\ new.debt <= MinerShare(stake, acc)
           /\ u.exists => new.exists
           /\ ~ new.exists => new = NoUser
           /\ MinedAt(new, acc) = MinedAt(u, acc)
<1>1. /\ u.stake_amount \in Nat /\ u.unclaimed \in Nat /\ u.claimed \in Nat /\ u.debt \in Nat
      /\ MinerShare(u.stake_amount, acc) \in Nat /\ MinerShare(stake, acc) \in Nat
  BY UserRowFields, MinerShareFacts
<1>2. CASE ~ u.exists /\ stake = 0
  <2>1. SettledUser(u, acc, stake) = u
    BY <1>2 DEF SettledUser
  <2> QED BY <1>1, <1>2, <2>1 DEF NoUser
<1>3. CASE ~ (~ u.exists /\ stake = 0)
  <2> DEFINE pending == MinerShare(u.stake_amount, acc)
             debt == MinerShare(stake, acc)
             unclaimed == u.unclaimed + (IF pending > u.debt THEN pending - u.debt ELSE 0)
  <2>1. unclaimed \in Nat /\ unclaimed = u.unclaimed + pending - u.debt
    <3> HIDE DEF pending
    <3> QED BY <1>1 DEF pending
  <2>2. SettledUser(u, acc, stake)
          = [u EXCEPT !.exists = TRUE, !.stake_amount = stake, !.debt = debt,
                      !.unclaimed = unclaimed]
    BY <1>3 DEF SettledUser, UserRow
  <2> HIDE DEF unclaimed, debt
  <2>3. SettledUser(u, acc, stake) \in UserRow
    BY <1>1, <2>1, <2>2 DEF debt, UserRow
  <2> DEFINE new == SettledUser(u, acc, stake)
  <2>4. /\ new.claimed = u.claimed /\ new.stake_amount = stake /\ new.debt = debt
        /\ new.exists /\ new.unclaimed = unclaimed
    BY <2>2 DEF UserRow
  <2> HIDE DEF new
  <2>5. MinedAt(new, acc) = MinedAt(u, acc)
    BY <1>1, <2>1, <2>4 DEF MinedAt, debt
  <2> QED BY <1>1, <2>3, <2>4, <2>5 DEF debt, new
<1> QED BY <1>2, <1>3

-----------------------------------------------------------------------------
(* The steps of stake.rms in the composed system. *)

(* Only accounts of S change their stake, and init has not run. *)
StakesChangeIn(S) ==
    /\ config'.init_done = config.init_done
    /\ \A b \in Accounts \ S : stakes'[b].amount = stakes[b].amount

(* Every change of a stake is notified, for the accounts whose stake changes. *)
LEMMA NotifyingFacts ==
    ASSUME IndInv, NotifyingNext
    PROVE  /\ IndInv'
           /\ \E S \in SUBSET Accounts : StakesChangeIn(S) /\ StakeChanged(S)
<1>1. /\ \A n \in Amounts \cup {0} : n \in Nat
      /\ RamsDao \in Accounts
      /\ stakes \in [Accounts -> StakeRow]
  BY StakeAssumption DEF IndInv, VaultInv, VaultTypes
<1>2. CASE \E a \in Accounts, n \in Amounts :
             vBalance + n <= MaxSupply /\ OnStake(a, n) /\ StakeChanged({a})
  <2>1. PICK a \in Accounts, n \in Amounts : OnStake(a, n) /\ StakeChanged({a})
    BY <1>2
  <2>2. SafeStep
    BY <1>1, <2>1, StakerSafe
  <2>3. StakesChangeIn({a})
    BY <1>1, <2>1 DEF OnStake, Credited, StakesChangeIn
  <2> QED BY <2>1, <2>2, <2>3 DEF SafeStep
<1>3. CASE \E a \in Accounts, n \in Amounts \cup {0} : Unstake(a, n) /\ StakeChanged({a})
  <2>1. PICK a \in Accounts, n \in Amounts \cup {0} : Unstake(a, n) /\ StakeChanged({a})
    BY <1>3
  <2>2. SafeStep
    BY <1>1, <2>1, StakerSafe
  <2>3. StakesChangeIn({a})
    BY <1>1, <2>1 DEF Unstake, StakesChangeIn
  <2> QED BY <2>1, <2>2, <2>3 DEF SafeStep
<1>4. CASE \E a \in Accounts, i \in UnstakeIds : Restake(a, i) /\ StakeChanged({a})
  <2>1. PICK a \in Accounts, i \in UnstakeIds : Restake(a, i) /\ StakeChanged({a})
    BY <1>4
  <2>2. SafeStep
    <3>1. 0 \in Nat
      OBVIOUS
    <3> QED BY <2>1, <3>1, StakerSafe
  <2>3. StakesChangeIn({a})
    BY <1>1, <2>1 DEF Restake, StakesChangeIn
  <2> QED BY <2>1, <2>2, <2>3 DEF SafeStep
<1>5. CASE \E a \in Accounts, n \in Amounts : Rams2V(a, n) /\ StakeChanged({a, RamsDao})
  <2>1. PICK a \in Accounts, n \in Amounts : Rams2V(a, n) /\ StakeChanged({a, RamsDao})
    BY <1>5
  <2>2. SafeStep
    BY <1>1, <2>1, StakerSafe
  <2>3. StakesChangeIn({a, RamsDao})
    BY <1>1, <2>1 DEF Rams2V, Swapped, Credited, StakesChangeIn
  <2> QED BY <1>1, <2>1, <2>2, <2>3 DEF SafeStep
<1> QED BY <1>2, <1>3, <1>4, <1>5 DEF NotifyingNext

(* The other steps leave the total stake and, apart from init, the stakes alone. *)
LEMMA SilentFacts ==
    ASSUME IndInv, SilentNext
    PROVE  /\ IndInv'
           /\ stat'.stake_amount = stat.stake_amount
           /\ config'.init_done = config.init_done => StakesChangeIn({})
<1>1. /\ \A n \in Amounts : n \in Nat
      /\ stat \in [stake_amount : Nat, used_amount : Nat]
      /\ config \in ConfigRow /\ stakes \in [Accounts -> StakeRow]
  BY StakeAssumption DEF IndInv, VaultInv, VaultTypes
<1>2. CASE OwnNext
  <2>1. IndInv'
    BY <1>2, OwnSafe DEF SafeStep
  <2>2. stat'.stake_amount = stat.stake_amount
    BY <1>1, <1>2 DEF OwnNext, Initialize, Config, AddRentToken, Borrow, stakeVars
  <2>3. config'.init_done = config.init_done => UNCHANGED stakes
    BY <1>1, <1>2 DEF OwnNext, Initialize, Config, AddRentToken, Borrow, stakeVars, ConfigRow
  <2> QED BY <2>1, <2>2, <2>3 DEF StakesChangeIn
<1>3. CASE \E a \in Accounts : Withdraw(a)
  <2>1. PICK a \in Accounts : Withdraw(a)
    BY <1>3
  <2>2. IndInv'
    <3>1. 0 \in Nat
      OBVIOUS
    <3> QED BY <2>1, <3>1, StakerSafe DEF SafeStep
  <2>3. UNCHANGED <<config, stat>> /\ \A b \in Accounts : stakes'[b].amount = stakes[b].amount
    BY <1>1, <2>1 DEF Withdraw, Released
  <2> QED BY <2>2, <2>3 DEF StakesChangeIn
<1>4. CASE \E a \in Accounts, n \in Amounts : RepayRam(a, n)
  <2>1. IndInv'
    BY <1>1, <1>4, SentSafe DEF SafeStep
  <2>2. UNCHANGED <<config, stakes>> /\ stat'.stake_amount = stat.stake_amount
    BY <1>1, <1>4 DEF RepayRam
  <2> QED BY <2>1, <2>2 DEF StakesChangeIn
<1>5. CASE \E n \in Amounts : vBalance + n <= MaxSupply /\ IgnoredV(n)
  <2>1. IndInv'
    BY <1>1, <1>5, SentSafe DEF SafeStep
  <2>2. UNCHANGED <<config, stat, stakes>>
    BY <1>5 DEF IgnoredV
  <2> QED BY <2>1, <2>2 DEF StakesChangeIn
<1>6. CASE RentNext
  <2>1. IndInv'
    BY <1>6, RentSafe DEF SafeStep
  <2>2. UNCHANGED <<config, stat, stakes>>
    BY <1>6 DEF RentNext, Rent, Claim, IgnoredToken, stakeVars
  <2> QED BY <2>1, <2>2 DEF StakesChangeIn
<1>7. CASE Tick
  <2>1. IndInv'
    BY <1>7, IdleSafe DEF SafeStep
  <2>2. UNCHANGED <<config, stat, stakes>>
    BY <1>7 DEF Tick, stakeVars
  <2> QED BY <2>1, <2>2 DEF StakesChangeIn
<1> QED BY <1>2, <1>3, <1>4, <1>5, <1>6, <1>7 DEF SilentNext

(* A step of miner.rms alone. *)
LEMMA OwnTablesFacts ==
    ASSUME IndInv, UNCHANGED vars
    PROVE  /\ IndInv'
           /\ UNCHANGED <<stat, stakes, config>>
<1>1. IndInv'
  BY IdleSafe DEF SafeStep
<1> QED BY <1>1 DEF vars, stakeVars

-----------------------------------------------------------------------------
(* Sums over the tables of the miner. *)

(* What is still held for the pools that pay with token t. *)
Left(p)   == pools[p].total_distributed_reward - pools[p].total_claimed_reward
Held(t)   == SumFunctionOnSet([p \in PoolIds |-> Left(p)],
                              {p \in PoolIds : pools[p].reward_token = t})
PaidBy(p) == SumFunctionOnSet([a \in Accounts |-> users[p][a].claimed], Accounts)

LEMMA FundedParts ==
    PoolsFunded <=> /\ \A p \in PoolIds : pools[p].total_claimed_reward = PaidBy(p)
                    /\ \A t \in RewardTokens : minerBalance[t] = minerIgnored[t] + Held(t)
  BY DEF PoolsFunded, PaidBy, Held, Left

LEMMA PoolIdsFinite == IsFiniteSet(PoolIds)
  BY FS_Interval, MinerAssumption DEF PoolIds

(* The pools of a token, as a sum over all pools. *)
LEMMA SumOverToken ==
    ASSUME NEW table \in [PoolIds -> PoolRow], NEW t
    PROVE  LET left(p) == table[p].total_distributed_reward - table[p].total_claimed_reward IN
           /\ SumFunctionOnSet([p \in PoolIds |-> left(p)],
                               {p \in PoolIds : table[p].reward_token = t})
                = SumFunctionOnSet(
                    [p \in PoolIds |-> IF table[p].reward_token = t THEN left(p) ELSE 0], PoolIds)
           /\ \A p \in PoolIds : left(p) \in Int
<1> DEFINE left(p) == table[p].total_distributed_reward - table[p].total_claimed_reward
           T == {p \in PoolIds : table[p].reward_token = t}
           f == [p \in PoolIds |-> left(p)]
           g == [p \in PoolIds |-> IF table[p].reward_token = t THEN left(p) ELSE 0]
<1>1. \A p \in PoolIds : left(p) \in Int
  BY DEF PoolRow
<1>2. /\ T \in SUBSET PoolIds
      /\ \A p \in T : f[p] \in Int
      /\ \A p \in PoolIds : g[p] = IF p \in T THEN f[p] ELSE 0
  BY <1>1
<1>3. SumFunctionOnSet(g, PoolIds) = SumFunctionOnSet(f, T)
  <2> HIDE DEF T, f, g
  <2> QED BY <1>2, PoolIdsFinite, SumFilter
<1> QED BY <1>1, <1>3

LEMMA HeldOverAll ==
    ASSUME pools \in [PoolIds -> PoolRow], pools' \in [PoolIds -> PoolRow], NEW t
    PROVE  /\ Held(t) = SumFunctionOnSet(
                [p \in PoolIds |-> IF pools[p].reward_token = t THEN Left(p) ELSE 0], PoolIds)
           /\ Held(t)' = SumFunctionOnSet(
                [p \in PoolIds |-> IF pools'[p].reward_token = t THEN Left(p)' ELSE 0], PoolIds)
           /\ \A p \in PoolIds : Left(p) \in Int /\ Left(p)' \in Int
  BY SumOverToken DEF Held, Left

(* Nothing is sent to a pool or paid by one: a pool can change its token as long
   as nothing was sent to it. *)
LEMMA FundsSame ==
    ASSUME MinerTypes, PoolsFunded, pools' \in [PoolIds -> PoolRow],
           \A p \in PoolIds :
             /\ pools'[p].total_distributed_reward = pools[p].total_distributed_reward
             /\ pools'[p].total_claimed_reward = pools[p].total_claimed_reward
             /\ \/ pools'[p].reward_token = pools[p].reward_token
                \/ /\ pools[p].total_distributed_reward = 0
                   /\ pools[p].total_claimed_reward = 0,
           \A p \in PoolIds, a \in Accounts : users'[p][a].claimed = users[p][a].claimed,
           UNCHANGED <<minerBalance, minerIgnored>>
    PROVE  PoolsFunded'
<1>1. ASSUME NEW p \in PoolIds PROVE pools'[p].total_claimed_reward = PaidBy(p)'
  <2> DEFINE f == [a \in Accounts |-> users[p][a].claimed]
             g == [a \in Accounts |-> users'[p][a].claimed]
  <2>1. \A a \in Accounts : f[a] \in Int /\ g[a] = f[a]
    BY DEF MinerTypes, UserRow
  <2>2. SumFunctionOnSet(g, Accounts) = SumFunctionOnSet(f, Accounts)
    <3> HIDE DEF f, g
    <3> QED BY <2>1, StakeAssumption, SumSame
  <2> QED BY <2>2, FundedParts DEF PaidBy
<1>2. ASSUME NEW t \in RewardTokens PROVE Held(t)' = Held(t)
  <2> DEFINE f == [p \in PoolIds |-> IF pools[p].reward_token = t THEN Left(p) ELSE 0]
             g == [p \in PoolIds |-> IF pools'[p].reward_token = t THEN Left(p)' ELSE 0]
  <2>1. \A p \in PoolIds : Left(p) \in Int
    BY HeldOverAll DEF MinerTypes
  <2>2. \A p \in PoolIds : Left(p)' = Left(p)
    BY DEF Left
  <2>3. ASSUME NEW p \in PoolIds, pools'[p].reward_token # pools[p].reward_token
        PROVE  Left(p) = 0
    BY <2>3 DEF Left
  <2>4. \A p \in PoolIds : f[p] \in Int /\ g[p] = f[p]
    BY <2>1, <2>2, <2>3
  <2>5. SumFunctionOnSet(g, PoolIds) = SumFunctionOnSet(f, PoolIds)
    <3> HIDE DEF f, g
    <3> QED BY <2>4, PoolIdsFinite, SumSame
  <2>6. /\ Held(t) = SumFunctionOnSet(f, PoolIds)
        /\ Held(t)' = SumFunctionOnSet(g, PoolIds)
    BY HeldOverAll DEF MinerTypes
  <2> QED BY <2>5, <2>6
<1>3. \A t \in RewardTokens : minerBalance[t] = minerIgnored[t] + Held(t)
  BY FundedParts
<1>4. \A t \in RewardTokens : minerBalance'[t] = minerIgnored'[t] + Held(t)'
  BY <1>2, <1>3
<1> QED BY <1>1, <1>4 DEF PoolsFunded, PaidBy, Held, Left

(* d tokens are sent to pool p, and c are paid by it to its user a. *)
FundsMove(p, a, d, c) ==
    /\ pools'[p].total_distributed_reward = pools[p].total_distributed_reward + d
    /\ pools'[p].total_claimed_reward = pools[p].total_claimed_reward + c
    /\ \A q \in PoolIds : pools'[q].reward_token = pools[q].reward_token
    /\ \A q \in PoolIds \ {p} :
         /\ pools'[q].total_distributed_reward = pools[q].total_distributed_reward
         /\ pools'[q].total_claimed_reward = pools[q].total_claimed_reward
    /\ users'[p][a].claimed = users[p][a].claimed + c
    /\ \A q \in PoolIds, b \in Accounts :
         q # p \/ b # a => users'[q][b].claimed = users[q][b].claimed
    /\ minerIgnored' = minerIgnored
    /\ minerBalance'[pools[p].reward_token] = minerBalance[pools[p].reward_token] + d - c
    /\ \A t \in RewardTokens \ {pools[p].reward_token} : minerBalance'[t] = minerBalance[t]

LEMMA FundsMoved ==
    ASSUME MinerTypes, PoolsFunded, pools' \in [PoolIds -> PoolRow],
           users' \in [PoolIds -> [Accounts -> UserRow]],
           NEW p \in PoolIds, NEW a \in Accounts, NEW d \in Nat, NEW c \in Nat,
           FundsMove(p, a, d, c)
    PROVE  PoolsFunded'
<1>1. /\ \A q \in PoolIds : pools[q].total_claimed_reward = PaidBy(q)
      /\ \A t \in RewardTokens : minerBalance[t] = minerIgnored[t] + Held(t)
  BY FundedParts
<1>2. /\ pools[p].total_distributed_reward \in Nat /\ pools[p].total_claimed_reward \in Nat
      /\ pools[p].reward_token \in RewardTokens
      /\ \A q \in PoolIds, b \in Accounts :
           users[q][b].claimed \in Int /\ users'[q][b].claimed \in Int
  BY DEF MinerTypes, PoolRow, UserRow
<1>3. ASSUME NEW q \in PoolIds PROVE pools'[q].total_claimed_reward = PaidBy(q)'
  <2> DEFINE f == [b \in Accounts |-> users[q][b].claimed]
             g == [b \in Accounts |-> users'[q][b].claimed]
  <2>1. \A b \in Accounts : f[b] \in Int /\ g[b] \in Int
    BY <1>2
  <2>2. SumFunctionOnSet(f, Accounts) \in Int
    <3> HIDE DEF f
    <3> QED BY <2>1, StakeAssumption, SumInt
  <2>3. CASE q = p
    <3>1. (\A b \in Accounts : b # a => g[b] = f[b]) /\ g[a] = f[a] + c
      BY <2>3 DEF FundsMove
    <3>2. SumFunctionOnSet(g, Accounts) = SumFunctionOnSet(f, Accounts) + c
      <4> HIDE DEF f, g
      <4>1. SumFunctionOnSet(g, Accounts) = SumFunctionOnSet(f, Accounts) + g[a] - f[a]
        BY <2>1, <3>1, StakeAssumption, SumUpdate
      <4>2. f[a] \in Int /\ SumFunctionOnSet(f, Accounts) \in Int
        BY <2>1, <2>2
      <4> QED BY <3>1, <4>1, <4>2
    <3> QED BY <1>1, <2>3, <3>2 DEF PaidBy, FundsMove
  <2>4. CASE q # p
    <3>1. \A b \in Accounts : f[b] \in Int /\ g[b] = f[b]
      BY <2>1, <2>4 DEF FundsMove
    <3>2. SumFunctionOnSet(g, Accounts) = SumFunctionOnSet(f, Accounts)
      <4> HIDE DEF f, g
      <4> QED BY <3>1, StakeAssumption, SumSame
    <3> QED BY <1>1, <2>4, <3>2 DEF PaidBy, FundsMove
  <2> QED BY <2>3, <2>4
<1>4. ASSUME NEW t \in RewardTokens PROVE minerBalance'[t] = minerIgnored'[t] + Held(t)'
  <2> DEFINE f == [q \in PoolIds |-> IF pools[q].reward_token = t THEN Left(q) ELSE 0]
             g == [q \in PoolIds |-> IF pools'[q].reward_token = t THEN Left(q)' ELSE 0]
  <2>1. \A q \in PoolIds : Left(q) \in Int /\ Left(q)' \in Int
    BY HeldOverAll DEF MinerTypes
  <2>2. \A q \in PoolIds : f[q] \in Int /\ g[q] \in Int
    BY <2>1
  <2>3. \A q \in PoolIds : q # p => g[q] = f[q]
    <3>1. \A q \in PoolIds : q # p => Left(q)' = Left(q)
      BY DEF Left, FundsMove
    <3> QED BY <3>1 DEF FundsMove
  <2>4. Left(p)' = Left(p) + d - c
    BY <1>2 DEF Left, FundsMove
  <2>5. Held(t) = SumFunctionOnSet(f, PoolIds) /\ Held(t)' = SumFunctionOnSet(g, PoolIds)
    BY HeldOverAll DEF MinerTypes
  <2>6. /\ pools[p].reward_token = t => g[p] = f[p] + d - c
        /\ pools[p].reward_token # t => g[p] = f[p]
    BY <2>4 DEF FundsMove
  <2> HIDE DEF f, g
  <2>7. SumFunctionOnSet(g, PoolIds) = SumFunctionOnSet(f, PoolIds) + g[p] - f[p]
    BY <2>2, <2>3, PoolIdsFinite, SumUpdate
  <2>8. SumFunctionOnSet(f, PoolIds) \in Int /\ f[p] \in Int
    BY <2>2, PoolIdsFinite, SumInt
  <2>9. minerBalance[t] = minerIgnored[t] + Held(t) /\ minerIgnored[t] \in Nat
    BY <1>1 DEF MinerTypes
  <2>10. CASE pools[p].reward_token = t
    <3>1. Held(t)' = Held(t) + d - c
      BY <2>5, <2>6, <2>7, <2>8, <2>10
    <3>2. Held(t) \in Int
      BY <2>5, <2>8
    <3>3. minerBalance'[t] = minerBalance[t] + d - c
      BY <2>10 DEF FundsMove
    <3> QED BY <2>9, <3>1, <3>2, <3>3 DEF FundsMove
  <2>11. CASE pools[p].reward_token # t
    <3>1. Held(t)' = Held(t)
      BY <2>5, <2>6, <2>7, <2>8, <2>11
    <3> QED BY <2>9, <2>11, <3>1 DEF FundsMove
  <2> QED BY <2>10, <2>11
<1> QED BY <1>3, <1>4 DEF PoolsFunded, PaidBy, Held, Left

(* Tokens with memo "ignore" are held for no pool. *)
LEMMA FundsIgnored ==
    ASSUME MinerTypes, PoolsFunded, NEW t \in RewardTokens, NEW n \in Nat,
           UNCHANGED <<pools, users>>,
           minerBalance' = [minerBalance EXCEPT ![t] = @ + n],
           minerIgnored' = [minerIgnored EXCEPT ![t] = @ + n]
    PROVE  PoolsFunded'
<1>1. /\ \A q \in PoolIds : pools[q].total_claimed_reward = PaidBy(q)
      /\ \A u \in RewardTokens : minerBalance[u] = minerIgnored[u] + Held(u)
  BY FundedParts
<1>2. /\ \A q \in PoolIds : PaidBy(q)' = PaidBy(q)
      /\ \A u \in RewardTokens : Held(u)' = Held(u)
  BY DEF PaidBy, Held, Left
<1>3. ASSUME NEW u \in RewardTokens PROVE Held(u) \in Int
  <2> DEFINE h == Held(u)
  <2>1. \A q \in PoolIds : Left(q) \in Int
    BY DEF Left, MinerTypes, PoolRow
  <2>2. IsFiniteSet({p \in PoolIds : pools[p].reward_token = u})
    BY PoolIdsFinite, FS_Subset
  <2>3. \A x \in {p \in PoolIds : pools[p].reward_token = u} :
          [p \in PoolIds |-> Left(p)][x] \in Int
    BY <2>1
  <2> QED BY <2>2, <2>3, SumInt DEF Held
<1>4. ASSUME NEW u \in RewardTokens PROVE minerBalance'[u] = minerIgnored'[u] + Held(u)'
  <2>1. /\ minerBalance[u] \in Nat /\ minerIgnored[u] \in Nat
        /\ minerBalance'[u] = IF u = t THEN minerBalance[u] + n ELSE minerBalance[u]
        /\ minerIgnored'[u] = IF u = t THEN minerIgnored[u] + n ELSE minerIgnored[u]
    BY DEF MinerTypes
  <2> QED BY <1>1, <1>2, <1>3, <2>1
<1> QED BY <1>1, <1>2, <1>4 DEF PoolsFunded, PaidBy, Held, Left

-----------------------------------------------------------------------------
(* Preservation of the invariant. *)

(* What the invariant says of the rows. *)
LEMMA RowFactsOf ==
    ASSUME MinerInv
    PROVE  /\ MinerTypes
           /\ minerStat \in [exists : BOOLEAN, last_stake_amount : Nat] /\ block \in Nat
           /\ \A p \in PoolIds :
                /\ pools[p] \in PoolRow /\ PoolSound(p)
                /\ pools[p].last_reward_block <= block
                /\ pools[p].acc_reward_per_share \in Nat
                /\ pools[p].initialized => pools[p].exists
           /\ \A p \in PoolIds, a \in Accounts :
                /\ users[p][a] \in UserRow /\ UserSound(p, a)
                /\ ~ users[p][a].exists => users[p][a] = NoUser
                /\ users[p][a].exists => pools[p].exists
           /\ \A a \in Accounts : stakes[a].amount \in Nat
           /\ stat.stake_amount \in Nat
<1>1. MinerTypes
  BY DEF MinerInv, MinerTypeOK, MinerTypes
<1>2. /\ \A p \in PoolIds : pools[p] \in PoolRow /\ pools[p].acc_reward_per_share \in Nat
      /\ \A p \in PoolIds, a \in Accounts : users[p][a] \in UserRow
      /\ minerStat \in [exists : BOOLEAN, last_stake_amount : Nat] /\ block \in Nat
  BY <1>1 DEF MinerTypes, PoolRow
<1>3. /\ \A p \in PoolIds : PoolSound(p)
      /\ \A p \in PoolIds, a \in Accounts : UserSound(p, a)
  BY DEF MinerInv, MinerTypeOK, PoolSound, UserSound
<1>4. /\ \A a \in Accounts : stakes[a].amount \in Nat
      /\ stat.stake_amount \in Nat
  BY DEF MinerInv, IndInv, VaultInv, VaultTypes, StakeRow
<1>5. /\ \A p \in PoolIds : pools[p].initialized => pools[p].exists
      /\ \A p \in PoolIds, a \in Accounts :
           /\ ~ users[p][a].exists => users[p][a] = NoUser
           /\ users[p][a].exists => pools[p].exists
  BY DEF MinerInv, Unmade
<1>6. \A p \in PoolIds : pools[p].last_reward_block <= block
  BY <1>3 DEF PoolSound
<1> QED BY <1>1, <1>2, <1>3, <1>4, <1>5, <1>6

(* The step neither sends rewards nor pays any. *)
TablesKept ==
    /\ pools' \in [PoolIds -> PoolRow] /\ users' \in [PoolIds -> [Accounts -> UserRow]]
    /\ \A p \in PoolIds :
         /\ pools'[p].last_reward_block <= block'
         /\ pools'[p].total_distributed_reward = pools[p].total_distributed_reward
         /\ pools'[p].total_claimed_reward = pools[p].total_claimed_reward
         /\ pools'[p].reward_token = pools[p].reward_token \/ ~ pools[p].exists
         /\ ~ pools'[p].exists => /\ ~ pools[p].exists /\ ~ pools'[p].initialized
                                  /\ \A a \in Accounts : ~ users'[p][a].exists
    /\ \A p \in PoolIds, a \in Accounts :
         /\ users'[p][a].claimed = users[p][a].claimed
         /\ UserSound(p, a)'
         /\ ~ users'[p][a].exists => users'[p][a] = NoUser

LEMMA KeptStep ==
    ASSUME MinerInv, IndInv', TablesKept, UNCHANGED <<minerBalance, minerIgnored>>,
           block' \in Nat, minerStat' \in [exists : BOOLEAN, last_stake_amount : Nat],
           TotalTracked', TotalSet'
    PROVE  MinerInv'
<1>1. MinerTypes /\ MinerTypes'
  <2>1. MinerTypes
    BY RowFactsOf
  <2> QED BY <2>1 DEF MinerTypes, TablesKept
<1>2. \A p \in PoolIds : PoolSound(p)'
  <2>1. \A p \in PoolIds : PoolSound(p)
    BY RowFactsOf
  <2> QED BY <2>1 DEF PoolSound, TablesKept
<1>3. \A p \in PoolIds, a \in Accounts : UserSound(p, a)'
  BY DEF TablesKept
<1>4. \A p \in PoolIds : ~ pools[p].exists =>
         pools[p].total_distributed_reward = 0 /\ pools[p].total_claimed_reward = 0
  BY DEF MinerInv, Unmade
<1>5. PoolsFunded'
  <2>1. \A p \in PoolIds :
             /\ pools'[p].total_distributed_reward = pools[p].total_distributed_reward
             /\ pools'[p].total_claimed_reward = pools[p].total_claimed_reward
             /\ \/ pools'[p].reward_token = pools[p].reward_token
                \/ /\ pools[p].total_distributed_reward = 0
                   /\ pools[p].total_claimed_reward = 0
    BY <1>4 DEF TablesKept
  <2>2. /\ \A p \in PoolIds, a \in Accounts : users'[p][a].claimed = users[p][a].claimed
        /\ pools' \in [PoolIds -> PoolRow] /\ PoolsFunded
    BY DEF TablesKept, MinerInv
  <2> QED BY <1>1, <2>1, <2>2, FundsSame
<1>6. Unmade'
  <2>1. \A p \in PoolIds : ~ pools'[p].exists =>
         /\ ~ pools'[p].initialized
         /\ pools'[p].total_distributed_reward = 0 /\ pools'[p].total_claimed_reward = 0
         /\ \A a \in Accounts : ~ users'[p][a].exists
    BY <1>4 DEF TablesKept
  <2>2. \A p \in PoolIds, a \in Accounts : ~ users'[p][a].exists => users'[p][a] = NoUser
    BY DEF TablesKept
  <2> QED BY <2>1, <2>2 DEF Unmade
<1>7. MinerTypeOK'
  BY <1>1, <1>2, <1>3 DEF MinerTypes, MinerTypeOK, PoolSound, UserSound
<1> QED BY <1>5, <1>6, <1>7 DEF MinerInv

(* A user whose record a step leaves alone, of a pool whose accumulator grows. *)
LEMMA StaysSound ==
    ASSUME MinerInv, NEW p \in PoolIds, NEW a \in Accounts, users'[p][a] = users[p][a],
           pools'[p].acc_reward_per_share \in Nat,
           pools[p].acc_reward_per_share <= pools'[p].acc_reward_per_share
    PROVE  UserSound(p, a)'
<1> DEFINE stake == users[p][a].stake_amount
           debt  == users[p][a].debt
           acc   == pools[p].acc_reward_per_share
           new   == pools'[p].acc_reward_per_share
<1>1. stake \in Nat /\ debt \in Nat /\ acc \in Nat /\ new \in Nat /\ acc <= new
  BY RowFactsOf, UserRowFields
<1>2. debt <= MinerShare(stake, acc)
  BY RowFactsOf DEF UserSound
<1>3. /\ MinerShare(stake, acc) <= MinerShare(stake, new)
      /\ MinerShare(stake, acc) \in Nat /\ MinerShare(stake, new) \in Nat
  <2> HIDE DEF stake, acc, new
  <2> QED BY <1>1, MinerShareFacts
<1>4. debt <= MinerShare(stake, new)
  <2> HIDE DEF stake, acc, new, debt
  <2> QED BY <1>1, <1>2, <1>3
<1> QED BY <1>4 DEF UserSound

(* stakechange: a pool that pays is brought up to date, and the users of S are
   settled with their new stake. *)
LEMMA NotifiedRows ==
    ASSUME MinerInv, IndInv', NEW S \in SUBSET Accounts, StakeChanged(S)
    PROVE  /\ \A p \in PoolIds : pools'[p] =
                IF pools[p].initialized THEN UpdatedPool(pools[p]) ELSE pools[p]
           /\ \A p \in PoolIds, a \in Accounts : users'[p][a] =
                IF pools[p].initialized /\ a \in S
                THEN SettledUser(users[p][a], UpdatedPool(pools[p]).acc_reward_per_share,
                                 stakes'[a].amount)
                ELSE users[p][a]
           /\ \A p \in PoolIds, a \in Accounts :
                /\ users[p][a].debt <= MinerShare(users[p][a].stake_amount,
                                                  UpdatedPool(pools[p]).acc_reward_per_share)
                /\ UpdatedPool(pools[p]).acc_reward_per_share \in Nat
                /\ stakes'[a].amount \in Nat
<1>1. \A p \in PoolIds : pools'[p] =
        IF pools[p].initialized THEN UpdatedPool(pools[p]) ELSE pools[p]
  BY DEF StakeChanged, NotifiedPools
<1>2. ASSUME NEW p \in PoolIds, NEW a \in Accounts
      PROVE  users'[p][a] = IF pools[p].initialized /\ a \in S
                THEN SettledUser(users[p][a], UpdatedPool(pools[p]).acc_reward_per_share,
                                 stakes'[a].amount)
                ELSE users[p][a]
  BY <1>1 DEF StakeChanged, NotifiedPools
<1>3. ASSUME NEW p \in PoolIds, NEW a \in Accounts
      PROVE  /\ users[p][a].debt <= MinerShare(users[p][a].stake_amount,
                                               UpdatedPool(pools[p]).acc_reward_per_share)
             /\ UpdatedPool(pools[p]).acc_reward_per_share \in Nat
  <2> DEFINE acc == pools[p].acc_reward_per_share
             new == UpdatedPool(pools[p]).acc_reward_per_share
             stake == users[p][a].stake_amount
             debt  == users[p][a].debt
  <2>1. /\ stake \in Nat /\ debt \in Nat /\ acc \in Nat
        /\ debt <= MinerShare(stake, acc)
    BY RowFactsOf, UserRowFields DEF UserSound
  <2>2. UpdatedPool(pools[p]) \in PoolRow /\ acc <= new
    BY RowFactsOf, UpdatedPoolFacts
  <2>3. new \in Nat
    BY <2>2, PoolRowFields
  <2> HIDE DEF acc, new, stake, debt
  <2>4. MinerShare(stake, acc) <= MinerShare(stake, new)
        /\ MinerShare(stake, acc) \in Nat /\ MinerShare(stake, new) \in Nat
    BY <2>1, <2>2, <2>3, MinerShareFacts
  <2>5. debt <= MinerShare(stake, new)
    BY <2>1, <2>4
  <2> QED BY <2>3, <2>5 DEF acc, new, stake, debt
<1>4. \A a \in Accounts : stakes'[a].amount \in Nat
  BY DEF IndInv, VaultInv, VaultTypes, StakeRow
<1> QED BY <1>1, <1>2, <1>3, <1>4

LEMMA NotifiedKeeps ==
    ASSUME MinerInv, IndInv', NEW S \in SUBSET Accounts, StakeChanged(S)
    PROVE  MinerInv'
<1>1. /\ \A p \in PoolIds :
           /\ pools'[p] \in PoolRow
           /\ pools'[p].last_reward_block <= block
           /\ pools[p].acc_reward_per_share <= pools'[p].acc_reward_per_share
           /\ pools'[p].total_distributed_reward = pools[p].total_distributed_reward
           /\ pools'[p].total_claimed_reward = pools[p].total_claimed_reward
           /\ pools'[p].reward_token = pools[p].reward_token
           /\ pools'[p].exists = pools[p].exists
           /\ pools'[p].initialized = pools[p].initialized
  <2> SUFFICES ASSUME NEW p \in PoolIds
      PROVE  /\ pools'[p] \in PoolRow
             /\ pools'[p].last_reward_block <= block
             /\ pools[p].acc_reward_per_share <= pools'[p].acc_reward_per_share
             /\ pools'[p].total_distributed_reward = pools[p].total_distributed_reward
             /\ pools'[p].total_claimed_reward = pools[p].total_claimed_reward
             /\ pools'[p].reward_token = pools[p].reward_token
             /\ pools'[p].exists = pools[p].exists
             /\ pools'[p].initialized = pools[p].initialized
    OBVIOUS
  <2>1. /\ pools[p] \in PoolRow /\ pools[p].last_reward_block <= block
        /\ minerStat \in [exists : BOOLEAN, last_stake_amount : Nat] /\ block \in Nat
        /\ pools[p].acc_reward_per_share \in Nat
    BY RowFactsOf
  <2>2. CASE pools[p].initialized
    <3>1. pools'[p] = UpdatedPool(pools[p])
      BY <2>2, NotifiedRows
    <3> QED BY <2>1, <3>1, UpdatedPoolFacts
  <2>3. CASE ~ pools[p].initialized
    <3>1. pools'[p] = pools[p]
      BY <2>3, NotifiedRows
    <3> QED BY <2>1, <3>1
  <2> QED BY <2>2, <2>3
<1>2. ASSUME NEW p \in PoolIds, NEW a \in Accounts
      PROVE  /\ users'[p][a] \in UserRow
             /\ users'[p][a].claimed = users[p][a].claimed
             /\ UserSound(p, a)'
             /\ users'[p][a].exists => users[p][a].exists \/ pools[p].initialized
             /\ ~ users'[p][a].exists => users'[p][a] = NoUser
  <2>1. /\ users[p][a] \in UserRow /\ (~ users[p][a].exists => users[p][a] = NoUser)
        /\ stakes'[a].amount \in Nat /\ pools'[p].acc_reward_per_share \in Nat
    <3>1. users[p][a] \in UserRow /\ (~ users[p][a].exists => users[p][a] = NoUser)
      BY RowFactsOf
    <3>2. stakes'[a].amount \in Nat
      BY NotifiedRows
    <3>3. pools'[p].acc_reward_per_share \in Nat
      BY <1>1, PoolRowFields
    <3> QED BY <3>1, <3>2, <3>3
  <2>2. CASE pools[p].initialized /\ a \in S
    <3> DEFINE acc == pools'[p].acc_reward_per_share
    <3>1. acc = UpdatedPool(pools[p]).acc_reward_per_share
      BY <2>2, NotifiedRows
    <3>2. /\ users'[p][a] = SettledUser(users[p][a], acc, stakes'[a].amount)
          /\ users[p][a].debt <= MinerShare(users[p][a].stake_amount, acc)
      BY <2>2, <3>1, NotifiedRows
    <3> HIDE DEF acc
    <3>3. /\ users'[p][a] \in UserRow /\ users'[p][a].claimed = users[p][a].claimed
          /\ users'[p][a].stake_amount = stakes'[a].amount
          /\ users'[p][a].debt <= MinerShare(stakes'[a].amount, acc)
          /\ ~ users'[p][a].exists => users'[p][a] = NoUser
      BY <2>1, <3>2, SettledUserFacts DEF acc
    <3> QED BY <2>2, <3>3 DEF UserSound, acc
  <2>3. CASE ~ (pools[p].initialized /\ a \in S)
    <3>1. users'[p][a] = users[p][a]
      BY <2>3, NotifiedRows
    <3>2. UserSound(p, a)'
      BY <1>1, <2>1, <3>1, StaysSound
    <3> QED BY <2>1, <3>1, <3>2
  <2> QED BY <2>2, <2>3
<1>3. pools' \in [PoolIds -> PoolRow]
  <2>1. pools' = [p \in PoolIds |-> pools'[p]]
    BY DEF StakeChanged
  <2> QED BY <1>1, <2>1
<1>4. users' \in [PoolIds -> [Accounts -> UserRow]]
  <2>1. users' = [p \in PoolIds |-> [a \in Accounts |-> users'[p][a]]]
    BY DEF StakeChanged
  <2> QED BY <1>2, <2>1
<1>5. UNCHANGED <<minerBalance, minerIgnored, block>>
  BY DEF StakeChanged
<1>6. \A p \in PoolIds : /\ pools[p].initialized => pools[p].exists
                         /\ \A a \in Accounts : users[p][a].exists => pools[p].exists
  BY RowFactsOf
<1>7. TablesKept
  BY <1>1, <1>2, <1>3, <1>4, <1>5, <1>6 DEF TablesKept
<1>8. /\ minerStat' = [exists |-> TRUE, last_stake_amount |-> stat'.stake_amount]
      /\ stat'.stake_amount \in Nat
  BY DEF StakeChanged, NotifiedStat, IndInv, VaultInv, VaultTypes
<1>9. block \in Nat
  BY RowFactsOf
<1>10. /\ minerStat' \in [exists : BOOLEAN, last_stake_amount : Nat]
       /\ TotalTracked' /\ TotalSet'
  BY <1>8 DEF TotalTracked, TotalSet
<1> QED BY <1>5, <1>7, <1>9, <1>10, KeptStep

(* One pool and its users change; no rewards are sent or paid. *)
LEMMA OnePoolKeeps ==
    ASSUME MinerInv, UNCHANGED <<vars, minerBalance, minerIgnored, block>>,
           NEW p \in PoolIds, NEW row \in PoolRow, pools' = [pools EXCEPT ![p] = row],
           row.exists, row.last_reward_block <= block,
           row.total_distributed_reward = pools[p].total_distributed_reward,
           row.total_claimed_reward = pools[p].total_claimed_reward,
           row.reward_token = pools[p].reward_token \/ ~ pools[p].exists,
           users' \in [PoolIds -> [Accounts -> UserRow]],
           \A q \in PoolIds \ {p} : users'[q] = users[q],
           \A a \in Accounts : /\ users'[p][a].claimed = users[p][a].claimed
                               /\ UserSound(p, a)'
                               /\ ~ users'[p][a].exists => users'[p][a] = NoUser,
           minerStat' \in [exists : BOOLEAN, last_stake_amount : Nat],
           TotalTracked', TotalSet'
    PROVE  MinerInv'
<1>1. IndInv'
  BY OwnTablesFacts DEF MinerInv
<1>2. MinerTypes /\ block \in Nat
  BY RowFactsOf
<1>3. pools'[p] = row /\ \A q \in PoolIds \ {p} : pools'[q] = pools[q]
  BY <1>2 DEF MinerTypes
<1>4. ASSUME NEW q \in PoolIds
      PROVE  /\ pools'[q].last_reward_block <= block'
             /\ pools'[q].total_distributed_reward = pools[q].total_distributed_reward
             /\ pools'[q].total_claimed_reward = pools[q].total_claimed_reward
             /\ pools'[q].reward_token = pools[q].reward_token \/ ~ pools[q].exists
             /\ ~ pools'[q].exists => /\ ~ pools[q].exists /\ ~ pools'[q].initialized
                                      /\ \A a \in Accounts : ~ users'[q][a].exists
  <2>1. CASE q = p
    BY <1>3, <2>1
  <2>2. CASE q # p
    <3>1. /\ pools[q].last_reward_block <= block
          /\ pools[q].initialized => pools[q].exists
          /\ \A a \in Accounts : users[q][a].exists => pools[q].exists
      BY RowFactsOf
    <3> QED BY <1>3, <2>2, <3>1
  <2> QED BY <2>1, <2>2
<1>5. ASSUME NEW q \in PoolIds, NEW a \in Accounts
      PROVE  /\ users'[q][a].claimed = users[q][a].claimed
             /\ UserSound(q, a)'
             /\ ~ users'[q][a].exists => users'[q][a] = NoUser
  <2>1. CASE q = p
    BY <2>1
  <2>2. CASE q # p
    <3>1. /\ UserSound(q, a) /\ (~ users[q][a].exists => users[q][a] = NoUser)
          /\ users'[q][a] = users[q][a] /\ pools'[q] = pools[q]
      BY <1>3, <2>2, RowFactsOf
    <3> QED BY <3>1 DEF UserSound
  <2> QED BY <2>1, <2>2
<1>6. pools' \in [PoolIds -> PoolRow]
  BY <1>2 DEF MinerTypes
<1>7. TablesKept
  BY <1>4, <1>5, <1>6 DEF TablesKept
<1> QED BY <1>1, <1>2, <1>7, KeptStep

(* The total of the last notification, and who pays on it, stay. *)
LEMMA StatKept ==
    ASSUME MinerInv, UNCHANGED <<stat, minerStat>>,
           \A p \in PoolIds : pools'[p].initialized => pools[p].initialized
    PROVE  /\ TotalTracked' /\ TotalSet'
           /\ minerStat' \in [exists : BOOLEAN, last_stake_amount : Nat]
<1>1. minerStat \in [exists : BOOLEAN, last_stake_amount : Nat]
  BY RowFactsOf
<1> QED BY <1>1 DEF MinerInv, TotalTracked, TotalSet

LEMMA AddPoolKeeps ==
    ASSUME MinerInv, NEW p \in PoolIds, NEW t \in RewardTokens, NEW r \in Rates, AddPool(p, t, r)
    PROVE  MinerInv'
<1> DEFINE row == [NoPool(t) EXCEPT !.exists = TRUE, !.reward_per_block = r,
                                    !.last_reward_block = block]
<1>1. /\ MinerTypes /\ block \in Nat /\ r \in Nat
      /\ pools \in [PoolIds -> PoolRow] /\ users \in [PoolIds -> [Accounts -> UserRow]]
  BY RowFactsOf, MinerAssumption DEF MinerTypes
<1>2. /\ row \in PoolRow /\ row.exists /\ row.last_reward_block = block
      /\ row.total_distributed_reward = 0 /\ row.total_claimed_reward = 0
      /\ row.acc_reward_per_share = 0 /\ row.initialized = FALSE
  BY <1>1 DEF NoPool, PoolRow
<1>3. /\ pools' = [pools EXCEPT ![p] = row]
      /\ UNCHANGED <<vars, users, minerStat, minerBalance, minerIgnored, block>>
      /\ ~ pools[p].exists
  BY <1>1 DEF AddPool, PoolIds
<1>4. /\ pools[p].total_distributed_reward = 0 /\ pools[p].total_claimed_reward = 0
      /\ \A a \in Accounts : users[p][a] = NoUser
  BY <1>3 DEF MinerInv, Unmade
<1> HIDE DEF row
<1>5. \A a \in Accounts : UserSound(p, a)'
  <2>1. pools'[p].acc_reward_per_share = 0
    BY <1>1, <1>2, <1>3
  <2>2. MinerShare(0, 0) = 0
    BY MinerShareFacts
  <2> QED BY <1>3, <1>4, <2>1, <2>2 DEF UserSound, NoUser
<1>6. UNCHANGED stat
  BY <1>3 DEF vars, stakeVars
<1>7. \A q \in PoolIds : pools'[q].initialized => pools[q].initialized
  BY <1>1, <1>2, <1>3
<1>8. /\ TotalTracked' /\ TotalSet'
      /\ minerStat' \in [exists : BOOLEAN, last_stake_amount : Nat]
  BY <1>3, <1>6, <1>7, StatKept
<1>9. row.last_reward_block <= block
  BY <1>1, <1>2
<1> QED BY <1>1, <1>2, <1>3, <1>4, <1>5, <1>8, <1>9, OnePoolKeeps

(* A pool is brought up to date, whatever becomes of its rate. *)
LEMMA SetPoolKeeps ==
    ASSUME MinerInv, NEW p \in PoolIds, NEW r \in Rates, SetPool(p, r)
    PROVE  MinerInv'
<1> DEFINE row == RateChanged(pools[p], r)
<1>1. /\ MinerTypes /\ block \in Nat /\ r \in Nat
      /\ pools \in [PoolIds -> PoolRow] /\ users \in [PoolIds -> [Accounts -> UserRow]]
      /\ pools[p] \in PoolRow /\ pools[p].last_reward_block <= block
      /\ minerStat \in [exists : BOOLEAN, last_stake_amount : Nat]
  BY RowFactsOf, MinerAssumption DEF MinerTypes
<1>2. /\ pools' = [pools EXCEPT ![p] = row] /\ pools[p].exists
      /\ UNCHANGED <<vars, users, minerStat, minerBalance, minerIgnored, block>>
  BY DEF SetPool
<1>3. /\ row \in PoolRow /\ row.exists /\ row.last_reward_block = block
      /\ row.total_distributed_reward = pools[p].total_distributed_reward
      /\ row.total_claimed_reward = pools[p].total_claimed_reward
      /\ row.reward_token = pools[p].reward_token
      /\ row.initialized = pools[p].initialized
      /\ pools[p].acc_reward_per_share <= row.acc_reward_per_share
  BY <1>1, <1>2, RateChangedFacts
<1> HIDE DEF row
<1>4. pools'[p] = row /\ row.acc_reward_per_share \in Nat
  BY <1>1, <1>2, <1>3, PoolRowFields
<1>5. \A a \in Accounts : UserSound(p, a)'
  BY <1>2, <1>3, <1>4, StaysSound
<1>6. \A a \in Accounts : ~ users[p][a].exists => users[p][a] = NoUser
  BY RowFactsOf
<1>7. UNCHANGED stat
  BY <1>2 DEF vars, stakeVars
<1>8. \A q \in PoolIds : pools'[q].initialized => pools[q].initialized
  BY <1>1, <1>2, <1>3
<1>9. /\ TotalTracked' /\ TotalSet'
      /\ minerStat' \in [exists : BOOLEAN, last_stake_amount : Nat]
  BY <1>2, <1>7, <1>8, StatKept
<1>10. row.last_reward_block <= block
  BY <1>1, <1>3
<1> QED BY <1>1, <1>2, <1>3, <1>5, <1>6, <1>9, <1>10, OnePoolKeeps

(* A batch of initusers makes records only of stakers that have none. *)
LEMMA AheadUnrecorded ==
    ASSUME NEW p \in PoolIds, NEW a \in Ahead(p)
    PROVE  a \in Accounts /\ ~ users[p][a].exists /\ stakes[a].exists
<1>1. a \in Accounts /\ NameOrder[a] \in Nat
  BY MinerAssumption DEF Ahead
<1> QED BY <1>1 DEF Ahead, Recorded

LEMMA InitUsersKeeps ==
    ASSUME MinerInv, NEW p \in PoolIds, NEW limit \in Limits, InitUsers(p, limit)
    PROVE  MinerInv'
<1>1. PICK S \in SUBSET Ahead(p) :
        LET done == ReachesEnd(p, S, limit) IN
         /\ IsBatch(p, S, limit)
         /\ users' = [users EXCEPT ![p] = [a \in Accounts |->
              IF a \in S THEN [NoUser EXCEPT !.exists = TRUE, !.stake_amount = stakes[a].amount]
              ELSE @[a]]]
         /\ pools' = [pools EXCEPT ![p].last_reward_block = block, ![p].initialized = done]
         /\ minerStat' = IF done /\ minerStat.last_stake_amount = 0
                         THEN [exists |-> TRUE, last_stake_amount |-> stat.stake_amount]
                         ELSE minerStat
  BY DEF InitUsers
<1> DEFINE done == ReachesEnd(p, S, limit)
           row == [pools[p] EXCEPT !.last_reward_block = block, !.initialized = done]
           made(a) == [NoUser EXCEPT !.exists = TRUE, !.stake_amount = stakes[a].amount]
<1>2. /\ MinerTypes /\ block \in Nat
      /\ pools \in [PoolIds -> PoolRow] /\ users \in [PoolIds -> [Accounts -> UserRow]]
      /\ pools[p] \in PoolRow
      /\ minerStat \in [exists : BOOLEAN, last_stake_amount : Nat]
      /\ stat.stake_amount \in Nat
      /\ \A a \in Accounts : stakes[a].amount \in Nat
  BY RowFactsOf DEF MinerTypes
<1>3. /\ UNCHANGED <<vars, minerBalance, minerIgnored, block>>
      /\ pools[p].exists /\ pools[p].acc_reward_per_share = 0
  BY DEF InitUsers
<1>4. pools' = [pools EXCEPT ![p] = row] /\ done \in BOOLEAN
  <2>1. done \in BOOLEAN
    BY DEF ReachesEnd
  <2> QED BY <1>1, <1>2, <2>1
<1>5. /\ row \in PoolRow /\ row.exists /\ row.last_reward_block = block
      /\ row.total_distributed_reward = pools[p].total_distributed_reward
      /\ row.total_claimed_reward = pools[p].total_claimed_reward
      /\ row.reward_token = pools[p].reward_token /\ row.acc_reward_per_share = 0
      /\ row.initialized = done
  BY <1>2, <1>3, <1>4 DEF PoolRow
<1>6. /\ \A q \in PoolIds \ {p} : users'[q] = users[q]
      /\ \A a \in Accounts : users'[p][a] = IF a \in S THEN made(a) ELSE users[p][a]
  BY <1>1, <1>2
<1>7. \A a \in Accounts : /\ made(a) \in UserRow
                          /\ made(a).exists /\ made(a).claimed = 0 /\ made(a).debt = 0
  BY <1>2 DEF NoUser, UserRow
<1>8. users' \in [PoolIds -> [Accounts -> UserRow]]
  <2>1. [a \in Accounts |-> IF a \in S THEN made(a) ELSE users[p][a]] \in [Accounts -> UserRow]
    <3> HIDE DEF made
    <3> QED BY <1>2, <1>7
  <2> HIDE DEF made
  <2> QED BY <1>1, <1>2, <2>1 DEF made
<1> HIDE DEF row, made, done
<1>9. pools'[p] = row
  BY <1>2, <1>4
<1>10. ASSUME NEW a \in Accounts
       PROVE  /\ users'[p][a].claimed = users[p][a].claimed
              /\ UserSound(p, a)'
              /\ ~ users'[p][a].exists => users'[p][a] = NoUser
  <2>1. CASE a \in S
    <3>1. users[p][a] = NoUser /\ NoUser.claimed = 0
      <4>1. ~ users[p][a].exists
        BY <2>1, AheadUnrecorded
      <4> QED BY <4>1, RowFactsOf DEF NoUser
    <3>2. users'[p][a] = made(a)
      BY <1>6, <2>1
    <3>3. 0 <= MinerShare(made(a).stake_amount, 0)
      <4>1. made(a).stake_amount \in Nat
        BY <1>7, UserRowFields
      <4>2. MinerShare(made(a).stake_amount, 0) \in Nat
        BY <4>1, MinerShareFacts
      <4> QED BY <4>2
    <3> QED BY <1>5, <1>7, <1>9, <3>1, <3>2, <3>3 DEF UserSound
  <2>2. CASE a \notin S
    <3>1. users'[p][a] = users[p][a] /\ (~ users[p][a].exists => users[p][a] = NoUser)
      BY <1>6, <2>2, RowFactsOf
    <3>2. pools'[p].acc_reward_per_share = pools[p].acc_reward_per_share
      BY <1>3, <1>5, <1>9
    <3>3. UserSound(p, a)'
      <4>1. UserSound(p, a)
        BY RowFactsOf
      <4> QED BY <3>1, <3>2, <4>1 DEF UserSound
    <3> QED BY <3>1, <3>3
  <2> QED BY <2>1, <2>2
<1>11. /\ minerStat' \in [exists : BOOLEAN, last_stake_amount : Nat]
       /\ TotalTracked' /\ TotalSet'
  <2>1. stat' = stat /\ TotalTracked /\ TotalSet
    BY <1>3 DEF vars, stakeVars, MinerInv
  <2>2. \A q \in PoolIds \ {p} : pools'[q] = pools[q]
    BY <1>2, <1>4
  <2>3. minerStat' = IF done /\ minerStat.last_stake_amount = 0
                     THEN [exists |-> TRUE, last_stake_amount |-> stat.stake_amount]
                     ELSE minerStat
    BY <1>1 DEF done
  <2>4. minerStat' \in [exists : BOOLEAN, last_stake_amount : Nat] /\ TotalTracked'
    BY <1>2, <2>1, <2>3 DEF TotalTracked
  <2>5. pools'[p].initialized => minerStat'.exists
    <3>1. ~ minerStat.exists => minerStat.last_stake_amount = 0
      BY <2>1 DEF TotalSet
    <3> QED BY <1>2, <1>5, <1>9, <2>3, <3>1
  <2>6. /\ ~ minerStat'.exists => minerStat'.last_stake_amount = 0
        /\ minerStat.exists => minerStat'.exists
    BY <1>2, <2>1, <2>3 DEF TotalSet
  <2>7. \A q \in PoolIds : pools'[q].initialized => minerStat'.exists
    BY <2>1, <2>2, <2>5, <2>6 DEF TotalSet
  <2> QED BY <2>4, <2>6, <2>7 DEF TotalSet
<1>12. row.last_reward_block <= block
  BY <1>2, <1>5
<1> QED BY <1>3, <1>4, <1>5, <1>6, <1>8, <1>10, <1>11, <1>12, OnePoolKeeps

(* What syncuser writes. *)
LEMMA SyncedFacts ==
    ASSUME NEW u \in UserRow, NEW acc \in Nat, NEW stake \in Nat
    PROVE  LET new == Synced(u, acc, stake) IN
           /\ new \in UserRow /\ new.exists /\ new.claimed = u.claimed
           /\ new.stake_amount = stake /\ new.debt = MinerShare(stake, acc)
<1> DEFINE debt == MinerShare(stake, acc)
<1>1. debt \in Nat
  BY MinerShareFacts
<1>2. Synced(u, acc, stake)
        = [u EXCEPT !.exists = TRUE, !.stake_amount = stake, !.debt = debt]
  BY DEF Synced
<1> HIDE DEF debt
<1>3. /\ Synced(u, acc, stake) \in UserRow /\ Synced(u, acc, stake).exists
      /\ Synced(u, acc, stake).claimed = u.claimed
      /\ Synced(u, acc, stake).stake_amount = stake /\ Synced(u, acc, stake).debt = debt
  BY <1>1, <1>2 DEF UserRow
<1> QED BY <1>3 DEF debt

LEMMA SyncUserKeeps ==
    ASSUME MinerInv, NEW p \in PoolIds, NEW a \in Accounts, SyncUser(p, a)
    PROVE  MinerInv'
<1> DEFINE row == UpdatedPool(pools[p])
           acc == row.acc_reward_per_share
           new == Synced(users[p][a], acc, stakes[a].amount)
<1>1. /\ MinerTypes /\ block \in Nat
      /\ pools \in [PoolIds -> PoolRow] /\ users \in [PoolIds -> [Accounts -> UserRow]]
      /\ pools[p] \in PoolRow /\ pools[p].last_reward_block <= block
      /\ minerStat \in [exists : BOOLEAN, last_stake_amount : Nat]
      /\ stakes[a].amount \in Nat
  BY RowFactsOf DEF MinerTypes
<1>2. /\ pools' = [pools EXCEPT ![p] = row] /\ pools[p].exists
      /\ users' = [users EXCEPT ![p][a] = new]
      /\ UNCHANGED <<vars, minerStat, minerBalance, minerIgnored, block>>
  BY <1>1 DEF SyncUser
<1>3. /\ row \in PoolRow /\ row.exists /\ row.last_reward_block = block
      /\ row.total_distributed_reward = pools[p].total_distributed_reward
      /\ row.total_claimed_reward = pools[p].total_claimed_reward
      /\ row.reward_token = pools[p].reward_token
      /\ row.initialized = pools[p].initialized
      /\ pools[p].acc_reward_per_share <= acc
  BY <1>1, <1>2, UpdatedPoolFacts
<1>4. acc \in Nat
  <2> HIDE DEF row
  <2> QED BY <1>3, PoolRowFields
<1>5. users[p][a] \in UserRow
  BY <1>1
<1> HIDE DEF row, acc
<1>6. /\ new \in UserRow /\ new.exists /\ new.claimed = users[p][a].claimed
      /\ new.debt = MinerShare(new.stake_amount, acc)
  <2> DEFINE u == users[p][a]  stake == stakes[a].amount
  <2>1. u \in UserRow /\ stake \in Nat /\ new = Synced(u, acc, stake)
    BY <1>1, <1>5
  <2> HIDE DEF new, u, stake
  <2>2. /\ new \in UserRow /\ new.exists /\ new.claimed = u.claimed
        /\ new.stake_amount = stake /\ new.debt = MinerShare(stake, acc)
    BY <1>4, <2>1, SyncedFacts
  <2> QED BY <2>2 DEF u
<1> HIDE DEF new
<1>7. /\ users'[p][a] = new /\ \A b \in Accounts \ {a} : users'[p][b] = users[p][b]
      /\ \A q \in PoolIds \ {p} : users'[q] = users[q]
      /\ users' \in [PoolIds -> [Accounts -> UserRow]]
  BY <1>1, <1>2, <1>6
<1>8. pools'[p] = row /\ pools'[p].acc_reward_per_share = acc
  BY <1>1, <1>2 DEF acc
<1>9. ASSUME NEW b \in Accounts
      PROVE  /\ users'[p][b].claimed = users[p][b].claimed
             /\ UserSound(p, b)'
             /\ ~ users'[p][b].exists => users'[p][b] = NoUser
  <2>1. CASE b = a
    <3>1. new.stake_amount \in Nat /\ MinerShare(new.stake_amount, acc) \in Nat
      BY <1>4, <1>6, UserRowFields, MinerShareFacts
    <3> QED BY <1>6, <1>7, <1>8, <2>1, <3>1 DEF UserSound
  <2>2. CASE b # a
    <3>1. users'[p][b] = users[p][b] /\ (~ users[p][b].exists => users[p][b] = NoUser)
      BY <1>7, <2>2, RowFactsOf
    <3>2. UserSound(p, b)'
      BY <1>3, <1>4, <1>8, <3>1, StaysSound
    <3> QED BY <3>1, <3>2
  <2> QED BY <2>1, <2>2
<1>10. UNCHANGED stat
  BY <1>2 DEF vars, stakeVars
<1>11. \A q \in PoolIds : pools'[q].initialized => pools[q].initialized
  BY <1>1, <1>2, <1>3
<1>12. /\ TotalTracked' /\ TotalSet'
       /\ minerStat' \in [exists : BOOLEAN, last_stake_amount : Nat]
  BY <1>2, <1>10, <1>11, StatKept
<1>13. row.last_reward_block <= block
  BY <1>1, <1>3
<1> QED BY <1>1, <1>2, <1>3, <1>7, <1>9, <1>12, <1>13, OnePoolKeeps

-----------------------------------------------------------------------------
(* Steps that move rewards. *)

LEMMA FundedStep ==
    ASSUME MinerInv, UNCHANGED <<vars, minerStat, block>>,
           NEW p \in PoolIds, NEW row \in PoolRow, pools' = [pools EXCEPT ![p] = row],
           row.exists, row.last_reward_block <= block,
           row.total_claimed_reward <= row.total_distributed_reward,
           row.initialized = pools[p].initialized,
           users' \in [PoolIds -> [Accounts -> UserRow]],
           \A q \in PoolIds \ {p} : users'[q] = users[q],
           \A a \in Accounts : /\ UserSound(p, a)'
                               /\ ~ users'[p][a].exists => users'[p][a] = NoUser,
           minerBalance' \in [RewardTokens -> Nat], minerIgnored' \in [RewardTokens -> Nat],
           PoolsFunded'
    PROVE  MinerInv'
<1>1. IndInv' /\ UNCHANGED stat
  BY OwnTablesFacts DEF MinerInv
<1>2. MinerTypes
  BY RowFactsOf
<1>3. pools'[p] = row /\ \A q \in PoolIds \ {p} : pools'[q] = pools[q]
  BY <1>2 DEF MinerTypes
<1>4. MinerTypes'
  BY <1>2 DEF MinerTypes
<1>5. ASSUME NEW q \in PoolIds PROVE PoolSound(q)'
  <2>1. PoolSound(q)
    BY RowFactsOf
  <2> QED BY <1>3, <2>1 DEF PoolSound
<1>6. ASSUME NEW q \in PoolIds, NEW a \in Accounts
      PROVE  /\ UserSound(q, a)'
             /\ ~ users'[q][a].exists => users'[q][a] = NoUser
  <2>1. CASE q = p
    BY <2>1
  <2>2. CASE q # p
    <3>1. /\ UserSound(q, a) /\ (~ users[q][a].exists => users[q][a] = NoUser)
          /\ users'[q][a] = users[q][a] /\ pools'[q] = pools[q]
      BY <1>3, <2>2, RowFactsOf
    <3> QED BY <3>1 DEF UserSound
  <2> QED BY <2>1, <2>2
<1>7. Unmade'
  <2>1. ASSUME NEW q \in PoolIds, ~ pools'[q].exists
        PROVE  /\ ~ pools'[q].initialized
               /\ pools'[q].total_distributed_reward = 0 /\ pools'[q].total_claimed_reward = 0
               /\ \A a \in Accounts : ~ users'[q][a].exists
    <3>1. q # p
      BY <1>3, <2>1
    <3>2. pools'[q] = pools[q] /\ users'[q] = users[q]
      BY <1>3, <3>1
    <3> QED BY <2>1, <3>2 DEF MinerInv, Unmade
  <2> QED BY <1>6, <2>1 DEF Unmade
<1>8. \A q \in PoolIds : pools'[q].initialized => pools[q].initialized
  BY <1>3
<1>9. TotalTracked' /\ TotalSet'
  BY <1>1, <1>8, StatKept
<1>10. MinerTypeOK'
  BY <1>4, <1>5, <1>6 DEF MinerTypes, MinerTypeOK, PoolSound, UserSound
<1> QED BY <1>1, <1>7, <1>9, <1>10 DEF MinerInv

(* The record of a user who claims, before it is paid. *)
UserAtClaim(p, a) ==
    SettledUser(users[p][a], UpdatedPool(pools[p]).acc_reward_per_share, stakes[a].amount)

(* The record of a user who was paid. *)
PaidUser(user) == [user EXCEPT !.claimed = @ + user.unclaimed, !.unclaimed = 0]

LEMMA PaidUserFacts ==
    ASSUME NEW user \in UserRow
    PROVE  /\ PaidUser(user) \in UserRow /\ PaidUser(user).exists = user.exists
           /\ PaidUser(user).stake_amount = user.stake_amount
           /\ PaidUser(user).debt = user.debt
           /\ PaidUser(user).claimed = user.claimed + user.unclaimed
           /\ PaidUser(user).unclaimed = 0
<1> DEFINE n == user.claimed + user.unclaimed
<1>1. n \in Nat /\ 0 \in Nat
  BY DEF UserRow
<1>2. PaidUser(user) = [user EXCEPT !.claimed = n, !.unclaimed = 0]
  BY DEF PaidUser, UserRow
<1> HIDE DEF n
<1>3. PaidUser(user) \in UserRow
  <2>1. [user EXCEPT !.claimed = n, !.unclaimed = 0] \in UserRow
    BY <1>1, UserRowFields
  <2> QED BY <1>2, <2>1
<1>4. /\ PaidUser(user).exists = user.exists
      /\ PaidUser(user).stake_amount = user.stake_amount
      /\ PaidUser(user).debt = user.debt /\ PaidUser(user).claimed = n
      /\ PaidUser(user).unclaimed = 0
  BY <1>2 DEF UserRow
<1> QED BY <1>3, <1>4 DEF n

(* What a claim makes of the pool and of the record of its user. *)
LEMMA ClaimRows ==
    ASSUME MinerInv, NEW p \in PoolIds, NEW a \in Accounts, MinerClaim(p, a)
    PROVE  LET row  == UpdatedPool(pools[p])
               user == UserAtClaim(p, a)
               t    == pools[p].reward_token
           IN /\ row \in PoolRow /\ row.acc_reward_per_share \in Nat
              /\ user \in UserRow /\ user.exists /\ user.claimed = users[p][a].claimed
              /\ user.stake_amount = stakes[a].amount
              /\ user.debt <= MinerShare(user.stake_amount, row.acc_reward_per_share)
              /\ MinedAt(user, row.acc_reward_per_share)
                   = MinedAt(users[p][a], row.acc_reward_per_share)
              /\ user.unclaimed \in Nat /\ user.unclaimed <= minerBalance[t]
              /\ row.total_claimed_reward + user.unclaimed <= row.total_distributed_reward
              /\ pools' = [pools EXCEPT ![p] = ClaimedOf(row, user.unclaimed)]
              /\ users' = [users EXCEPT ![p][a] = PaidUser(user)]
              /\ minerBalance' = [minerBalance EXCEPT ![t] = @ - user.unclaimed]
<1> DEFINE row  == UpdatedPool(pools[p])
           acc  == row.acc_reward_per_share
           user == UserAtClaim(p, a)
<1>1. /\ pools \in [PoolIds -> PoolRow] /\ users \in [PoolIds -> [Accounts -> UserRow]]
      /\ pools[p] \in PoolRow /\ pools[p].last_reward_block <= block /\ block \in Nat
      /\ minerStat \in [exists : BOOLEAN, last_stake_amount : Nat]
      /\ stakes[a].amount \in Nat
      /\ users[p][a] \in UserRow /\ (~ users[p][a].exists => users[p][a] = NoUser)
  BY RowFactsOf DEF MinerTypes
<1>2. /\ row \in PoolRow /\ row.reward_token = pools[p].reward_token
      /\ pools[p].acc_reward_per_share <= acc
  BY <1>1, UpdatedPoolFacts
<1>3. acc \in Nat
  <2> HIDE DEF row
  <2> QED BY <1>2, PoolRowFields
<1>4. users[p][a].debt <= MinerShare(users[p][a].stake_amount, acc)
  <2> DEFINE stake == users[p][a].stake_amount
             debt  == users[p][a].debt
             old   == pools[p].acc_reward_per_share
  <2>1. stake \in Nat /\ debt \in Nat /\ old \in Nat /\ old <= acc
    BY <1>2, RowFactsOf, UserRowFields
  <2>2. debt <= MinerShare(stake, old)
    BY RowFactsOf DEF UserSound
  <2> HIDE DEF stake, debt, old, acc
  <2>3. /\ MinerShare(stake, old) <= MinerShare(stake, acc)
        /\ MinerShare(stake, old) \in Nat /\ MinerShare(stake, acc) \in Nat
    BY <1>3, <2>1, MinerShareFacts
  <2>4. debt <= MinerShare(stake, acc)
    BY <2>1, <2>2, <2>3
  <2> QED BY <2>4 DEF stake, debt
<1>5. user = SettledUser(users[p][a], acc, stakes[a].amount)
  BY DEF UserAtClaim
<1> HIDE DEF user
<1>6. /\ user \in UserRow /\ user.claimed = users[p][a].claimed
      /\ user.stake_amount = stakes[a].amount
      /\ user.debt <= MinerShare(stakes[a].amount, acc)
      /\ MinedAt(user, acc) = MinedAt(users[p][a], acc)
  <2> HIDE DEF acc
  <2> QED BY <1>1, <1>3, <1>4, <1>5, SettledUserFacts
<1>7. user.unclaimed \in Nat
  BY <1>6, UserRowFields
<1>8. /\ user.exists /\ user.unclaimed <= minerBalance[row.reward_token]
      /\ row.total_claimed_reward + user.unclaimed <= row.total_distributed_reward
      /\ pools' = [pools EXCEPT ![p] = ClaimedOf(row, user.unclaimed)]
      /\ minerBalance' = [minerBalance EXCEPT ![row.reward_token] = @ - user.unclaimed]
      /\ users' = [users EXCEPT ![p][a] = PaidUser(user)]
  BY <1>5 DEF MinerClaim, PaidUser
<1> QED BY <1>2, <1>3, <1>6, <1>7, <1>8 DEF user

LEMMA MinerClaimKeeps ==
    ASSUME MinerInv, NEW p \in PoolIds, NEW a \in Accounts, MinerClaim(p, a)
    PROVE  MinerInv'
<1> DEFINE row  == UpdatedPool(pools[p])
           acc  == row.acc_reward_per_share
           t    == pools[p].reward_token
           user == UserAtClaim(p, a)
           paid == user.unclaimed
           new  == PaidUser(user)
           pool == ClaimedOf(row, paid)
<1>1. /\ user \in UserRow /\ user.exists /\ user.claimed = users[p][a].claimed
      /\ user.debt <= MinerShare(user.stake_amount, acc)
      /\ paid \in Nat /\ paid <= minerBalance[t] /\ acc \in Nat
      /\ row.total_claimed_reward + paid <= row.total_distributed_reward
      /\ pools' = [pools EXCEPT ![p] = pool]
      /\ users' = [users EXCEPT ![p][a] = new]
      /\ minerBalance' = [minerBalance EXCEPT ![t] = @ - paid]
  BY ClaimRows
<1>2. /\ MinerTypes /\ block \in Nat
      /\ pools \in [PoolIds -> PoolRow] /\ users \in [PoolIds -> [Accounts -> UserRow]]
      /\ minerBalance \in [RewardTokens -> Nat] /\ minerIgnored \in [RewardTokens -> Nat]
      /\ pools[p] \in PoolRow /\ pools[p].last_reward_block <= block
      /\ minerStat \in [exists : BOOLEAN, last_stake_amount : Nat]
      /\ pools[p].initialized => pools[p].exists
  BY RowFactsOf DEF MinerTypes
<1>3. pools[p].initialized /\ UNCHANGED <<vars, minerStat, minerIgnored, block>>
  BY DEF MinerClaim
<1>4. /\ row \in PoolRow /\ row.exists = pools[p].exists /\ row.last_reward_block = block
      /\ row.total_distributed_reward = pools[p].total_distributed_reward
      /\ row.total_claimed_reward = pools[p].total_claimed_reward
      /\ row.reward_token = pools[p].reward_token
      /\ row.initialized = pools[p].initialized
      /\ pools[p].acc_reward_per_share <= acc
  BY <1>2, UpdatedPoolFacts
<1>5. t \in RewardTokens /\ paid \in Nat
  BY <1>1, <1>2, PoolRowFields
<1> HIDE DEF user
<1>6. /\ new \in UserRow /\ new.exists /\ new.stake_amount = user.stake_amount
      /\ new.claimed = users[p][a].claimed + paid /\ new.debt = user.debt
  BY <1>1, PaidUserFacts
<1> HIDE DEF row, new
<1>7. /\ pool \in PoolRow /\ pool.exists = row.exists
      /\ pool.last_reward_block = row.last_reward_block
      /\ pool.total_claimed_reward = row.total_claimed_reward + paid
      /\ pool.total_distributed_reward = row.total_distributed_reward
      /\ pool.reward_token = row.reward_token /\ pool.initialized = row.initialized
      /\ pool.acc_reward_per_share = acc
  BY <1>1, <1>4 DEF ClaimedOf, PoolRow
<1> HIDE DEF pool, paid, acc
<1>9. /\ pools'[p] = pool /\ \A q \in PoolIds \ {p} : pools'[q] = pools[q]
      /\ users'[p][a] = new /\ \A b \in Accounts \ {a} : users'[p][b] = users[p][b]
      /\ \A q \in PoolIds \ {p} : users'[q] = users[q]
      /\ users' \in [PoolIds -> [Accounts -> UserRow]] /\ pools' \in [PoolIds -> PoolRow]
  BY <1>1, <1>2, <1>6, <1>7
<1>10. /\ minerBalance'[t] = minerBalance[t] - paid
       /\ \A u \in RewardTokens \ {t} : minerBalance'[u] = minerBalance[u]
       /\ minerBalance' \in [RewardTokens -> Nat]
  <2>1. minerBalance[t] - paid \in Nat
    BY <1>1, <1>2, <1>5
  <2> QED BY <1>1, <1>2, <1>5, <2>1
<1>11. FundsMove(p, a, 0, paid)
  <2>1. /\ pools[p].total_distributed_reward \in Nat /\ minerBalance[t] \in Nat
        /\ minerBalance[t] - paid = minerBalance[t] + 0 - paid
        /\ pools[p].total_distributed_reward = pools[p].total_distributed_reward + 0
    <3>1. pools[p].total_distributed_reward \in Nat /\ minerBalance[t] \in Nat
      BY <1>2, <1>5, PoolRowFields
    <3> HIDE DEF t
    <3> QED BY <1>5, <3>1
  <2>2. \A q \in PoolIds, b \in Accounts :
          q # p \/ b # a => users'[q][b].claimed = users[q][b].claimed
    BY <1>9
  <2>3. \A q \in PoolIds : pools'[q].reward_token = pools[q].reward_token
    BY <1>4, <1>7, <1>9
  <2>4. minerBalance'[t] = minerBalance[t] + 0 - paid
    BY <1>10, <2>1
  <2>5. pools'[p].total_distributed_reward = pools[p].total_distributed_reward + 0
    BY <1>4, <1>7, <1>9, <2>1
  <2> QED BY <1>3, <1>4, <1>6, <1>7, <1>9, <1>10, <2>2, <2>3, <2>4, <2>5 DEF FundsMove
<1>12. PoolsFunded'
  <2>1. 0 \in Nat /\ PoolsFunded
    BY DEF MinerInv
  <2> QED BY <1>2, <1>5, <1>9, <1>11, <2>1, FundsMoved
<1>13. ASSUME NEW b \in Accounts
       PROVE  /\ UserSound(p, b)'
              /\ ~ users'[p][b].exists => users'[p][b] = NoUser
  <2>1. CASE b = a
    BY <1>1, <1>6, <1>7, <1>9, <2>1 DEF UserSound
  <2>2. CASE b # a
    <3>1. users'[p][b] = users[p][b] /\ (~ users[p][b].exists => users[p][b] = NoUser)
      BY <1>9, <2>2, RowFactsOf
    <3>2. /\ pools'[p].acc_reward_per_share \in Nat
          /\ pools[p].acc_reward_per_share <= pools'[p].acc_reward_per_share
      BY <1>1, <1>4, <1>7, <1>9
    <3>3. UserSound(p, b)'
      BY <3>1, <3>2, StaysSound
    <3> QED BY <3>1, <3>3
  <2> QED BY <2>1, <2>2
<1>14. /\ pool.exists /\ pool.last_reward_block <= block
       /\ pool.total_claimed_reward <= pool.total_distributed_reward
       /\ pool.initialized = pools[p].initialized
  BY <1>1, <1>2, <1>3, <1>4, <1>7
<1>15. minerIgnored' \in [RewardTokens -> Nat]
  BY <1>2, <1>3
<1> QED BY <1>1, <1>3, <1>7, <1>9, <1>10, <1>12, <1>13, <1>14, <1>15, FundedStep

LEMMA FundPoolKeeps ==
    ASSUME MinerInv, NEW p \in PoolIds, NEW n \in Fundings, FundPool(p, n)
    PROVE  MinerInv'
<1> DEFINE t   == pools[p].reward_token
           row == [pools[p] EXCEPT !.total_distributed_reward = @ + n]
<1>1. /\ MinerTypes /\ n \in Nat
      /\ pools \in [PoolIds -> PoolRow] /\ users \in [PoolIds -> [Accounts -> UserRow]]
      /\ minerBalance \in [RewardTokens -> Nat] /\ minerIgnored \in [RewardTokens -> Nat]
      /\ pools[p] \in PoolRow /\ PoolSound(p)
      /\ \A a \in Accounts : UserSound(p, a) /\ (~ users[p][a].exists => users[p][a] = NoUser)
  BY RowFactsOf, MinerAssumption DEF MinerTypes
<1>2. /\ pools' = [pools EXCEPT ![p] = row] /\ pools[p].exists
      /\ minerBalance' = [minerBalance EXCEPT ![t] = @ + n]
      /\ UNCHANGED <<vars, users, minerStat, minerIgnored, block>>
  BY <1>1 DEF FundPool
<1>3. /\ row \in PoolRow /\ row.exists = pools[p].exists
      /\ row.last_reward_block = pools[p].last_reward_block
      /\ row.total_distributed_reward = pools[p].total_distributed_reward + n
      /\ row.total_claimed_reward = pools[p].total_claimed_reward
      /\ row.reward_token = pools[p].reward_token
      /\ row.initialized = pools[p].initialized
      /\ row.acc_reward_per_share = pools[p].acc_reward_per_share
  BY <1>1 DEF PoolRow
<1>4. /\ t \in RewardTokens
      /\ pools[p].total_distributed_reward \in Nat /\ pools[p].total_claimed_reward \in Nat
  BY <1>1, PoolRowFields
<1> HIDE DEF row
<1>5. /\ pools'[p] = row /\ \A q \in PoolIds \ {p} : pools'[q] = pools[q]
      /\ pools' \in [PoolIds -> PoolRow]
  BY <1>1, <1>2, <1>3
<1>6. /\ minerBalance'[t] = minerBalance[t] + n
      /\ \A u \in RewardTokens \ {t} : minerBalance'[u] = minerBalance[u]
      /\ minerBalance' \in [RewardTokens -> Nat]
  <2>1. minerBalance[t] + n \in Nat
    BY <1>1, <1>4
  <2> QED BY <1>1, <1>2, <1>4, <2>1
<1>7. PoolsFunded'
  <2>1. PICK a : a \in Accounts
    BY StakeAssumption
  <2>2. users[p][a].claimed \in Nat /\ minerBalance[t] \in Nat
    <3>1. users[p][a] \in UserRow
      BY <1>1, <2>1
    <3>2. users[p][a].claimed \in Nat
      BY <3>1, UserRowFields
    <3>3. minerBalance[t] \in Nat
      BY <1>1, <1>4
    <3> QED BY <3>2, <3>3
  <2>3. minerBalance'[t] = minerBalance[t] + n - 0
    <3> HIDE DEF t
    <3> QED BY <1>1, <1>6, <2>2
  <2>4. /\ pools'[p].total_claimed_reward = pools[p].total_claimed_reward + 0
        /\ users'[p][a].claimed = users[p][a].claimed + 0
    BY <1>2, <1>3, <1>4, <1>5, <2>2
  <2>5. FundsMove(p, a, n, 0)
    BY <1>2, <1>3, <1>5, <1>6, <2>3, <2>4 DEF FundsMove
  <2>6. 0 \in Nat /\ PoolsFunded /\ users' \in [PoolIds -> [Accounts -> UserRow]]
    BY <1>1, <1>2 DEF MinerInv
  <2> QED BY <1>1, <1>5, <2>1, <2>5, <2>6, FundsMoved
<1>8. \A a \in Accounts : /\ UserSound(p, a)'
                          /\ ~ users'[p][a].exists => users'[p][a] = NoUser
  BY <1>1, <1>2, <1>3, <1>5 DEF UserSound
<1>9. row.total_claimed_reward <= row.total_distributed_reward /\ row.last_reward_block <= block
  BY <1>1, <1>3, <1>4 DEF PoolSound
<1> QED BY <1>1, <1>2, <1>3, <1>6, <1>7, <1>8, <1>9, FundedStep

LEMMA IgnoredRewardKeeps ==
    ASSUME MinerInv, NEW t \in RewardTokens, NEW n \in Fundings, IgnoredReward(t, n)
    PROVE  MinerInv'
<1>1. MinerTypes /\ n \in Nat
  BY RowFactsOf, MinerAssumption
<1>2. /\ minerBalance' = [minerBalance EXCEPT ![t] = @ + n]
      /\ minerIgnored' = [minerIgnored EXCEPT ![t] = @ + n]
      /\ UNCHANGED <<vars, pools, users, minerStat, block>>
  BY DEF IgnoredReward
<1>3. IndInv' /\ UNCHANGED stat
  BY <1>2, OwnTablesFacts DEF MinerInv
<1>4. PoolsFunded'
  <2>1. PoolsFunded
    BY DEF MinerInv
  <2> QED BY <1>1, <1>2, <2>1, FundsIgnored
<1>5. minerBalance' \in [RewardTokens -> Nat] /\ minerIgnored' \in [RewardTokens -> Nat]
  <2>1. minerBalance[t] + n \in Nat /\ minerIgnored[t] + n \in Nat
    BY <1>1 DEF MinerTypes
  <2> QED BY <1>1, <1>2, <2>1 DEF MinerTypes
<1>6. MinerTypeOK' /\ Unmade' /\ TotalSet' /\ TotalTracked'
  BY <1>2, <1>3, <1>5 DEF MinerInv, MinerTypeOK, Unmade, TotalSet, TotalTracked
<1> QED BY <1>3, <1>4, <1>6 DEF MinerInv

(* Time passes, or stake.rms does what no pool hears of. *)
LEMMA IdleKeeps ==
    ASSUME MinerInv, IndInv', stat'.stake_amount = stat.stake_amount,
           UNCHANGED <<pools, users, minerStat, minerBalance, minerIgnored>>,
           block' \in Nat, block <= block'
    PROVE  MinerInv'
<1>1. MinerTypes /\ MinerTypes'
  <2>1. MinerTypes
    BY RowFactsOf
  <2> QED BY <2>1 DEF MinerTypes
<1>2. ASSUME NEW p \in PoolIds PROVE PoolSound(p)'
  <2>1. PoolSound(p) /\ pools[p].last_reward_block \in Nat /\ block \in Nat
    BY RowFactsOf, PoolRowFields
  <2> QED BY <2>1 DEF PoolSound
<1>3. \A p \in PoolIds, a \in Accounts : UserSound(p, a)'
  <2>1. \A p \in PoolIds, a \in Accounts : UserSound(p, a)
    BY RowFactsOf
  <2> QED BY <2>1 DEF UserSound
<1>4. MinerTypeOK'
  BY <1>1, <1>2, <1>3 DEF MinerTypes, MinerTypeOK, PoolSound, UserSound
<1>5. Unmade' /\ TotalSet' /\ TotalTracked' /\ PoolsFunded'
  BY DEF MinerInv, Unmade, TotalSet, TotalTracked, PoolsFunded
<1> QED BY <1>4, <1>5 DEF MinerInv

LEMMA PoolStepKeeps ==
    ASSUME MinerInv, PoolNext
    PROVE  MinerInv'
<1>1. CASE \E p \in PoolIds, t \in RewardTokens, r \in Rates : AddPool(p, t, r)
  BY <1>1, AddPoolKeeps
<1>2. CASE \E p \in PoolIds, r \in Rates : SetPool(p, r)
  BY <1>2, SetPoolKeeps
<1>3. CASE \E p \in PoolIds, n \in Limits : InitUsers(p, n)
  BY <1>3, InitUsersKeeps
<1>4. CASE \E p \in PoolIds, a \in Accounts : SyncUser(p, a)
  BY <1>4, SyncUserKeeps
<1>5. CASE \E p \in PoolIds, a \in Accounts : MinerClaim(p, a)
  BY <1>5, MinerClaimKeeps
<1>6. CASE \E p \in PoolIds, n \in Fundings :
             pools[p].total_distributed_reward + n <= MaxFunding /\ FundPool(p, n)
  BY <1>6, FundPoolKeeps
<1>7. CASE \E t \in RewardTokens, n \in Fundings :
             minerIgnored[t] + n <= MaxFunding /\ IgnoredReward(t, n)
  BY <1>7, IgnoredRewardKeeps
<1>8. CASE NextBlock
  <2>1. IndInv' /\ UNCHANGED stat
    BY <1>8, OwnTablesFacts DEF NextBlock, MinerInv
  <2>2. block \in Nat
    BY RowFactsOf
  <2>3. block' \in Nat /\ block <= block'
    BY <1>8, <2>2 DEF NextBlock
  <2>4. UNCHANGED <<pools, users, minerStat, minerBalance, minerIgnored>>
    BY <1>8 DEF NextBlock
  <2> QED BY <2>1, <2>3, <2>4, IdleKeeps
<1> QED BY <1>1, <1>2, <1>3, <1>4, <1>5, <1>6, <1>7, <1>8 DEF PoolNext

(* No step of the two contracts breaks the invariant. *)
LEMMA MinerStepKeeps ==
    ASSUME MinerInv, [MinerNext]_allVars
    PROVE  MinerInv'
<1>1. IndInv /\ block \in Nat /\ block <= block
  <2>1. block \in Nat
    BY RowFactsOf
  <2> QED BY <2>1 DEF MinerInv
<1>2. CASE NotifyingNext
  <2>1. IndInv'
    BY <1>1, <1>2, NotifyingFacts
  <2>2. PICK S \in SUBSET Accounts : StakeChanged(S)
    BY <1>1, <1>2, NotifyingFacts
  <2> QED BY <2>1, <2>2, NotifiedKeeps
<1>3. CASE SilentNext
  <2>1. IndInv' /\ stat'.stake_amount = stat.stake_amount
    BY <1>1, <1>3, SilentFacts
  <2>2. UNCHANGED <<pools, users, minerStat, minerBalance, minerIgnored, block>>
    BY <1>3 DEF SilentNext, minerVars
  <2> QED BY <1>1, <2>1, <2>2, IdleKeeps
<1>4. CASE PoolNext
  BY <1>4, PoolStepKeeps
<1>5. CASE UNCHANGED allVars
  <2>1. UNCHANGED vars /\ UNCHANGED minerVars
    BY <1>5 DEF allVars
  <2>2. IndInv' /\ UNCHANGED stat
    BY <1>1, <2>1, OwnTablesFacts
  <2>3. UNCHANGED <<pools, users, minerStat, minerBalance, minerIgnored, block>>
    BY <2>1 DEF minerVars
  <2> QED BY <1>1, <2>2, <2>3, IdleKeeps
<1> QED BY <1>2, <1>3, <1>4, <1>5 DEF MinerNext

LEMMA MinerInitSafe == MinerInit => MinerInv
<1> SUFFICES ASSUME MinerInit PROVE MinerInv
  OBVIOUS
<1>1. IndInv
  BY InitSafe DEF MinerInit
<1>2. PICK token \in RewardTokens : pools = [p \in PoolIds |-> NoPool(token)]
  BY DEF MinerInit
<1>3. /\ users = [p \in PoolIds |-> [a \in Accounts |-> NoUser]]
      /\ minerStat = [exists |-> FALSE, last_stake_amount |-> 0]
      /\ minerBalance = [t \in RewardTokens |-> 0] /\ minerIgnored = [t \in RewardTokens |-> 0]
      /\ block = 0
  BY DEF MinerInit
<1>4. NoPool(token) \in PoolRow /\ NoUser \in UserRow
  BY DEF NoPool, NoUser, PoolRow, UserRow
<1>5. MinerTypeOK
  <2>1. /\ pools \in [PoolIds -> PoolRow] /\ users \in [PoolIds -> [Accounts -> UserRow]]
        /\ minerStat \in [exists : BOOLEAN, last_stake_amount : Nat]
        /\ minerBalance \in [RewardTokens -> Nat] /\ minerIgnored \in [RewardTokens -> Nat]
        /\ block \in Nat
    BY <1>2, <1>3, <1>4
  <2>2. ASSUME NEW p \in PoolIds
        PROVE  /\ pools[p].last_reward_block <= block
               /\ pools[p].total_claimed_reward <= pools[p].total_distributed_reward
    BY <1>2, <1>3 DEF NoPool
  <2>3. ASSUME NEW p \in PoolIds, NEW a \in Accounts
        PROVE  users[p][a].debt <=
                 MinerShare(users[p][a].stake_amount, pools[p].acc_reward_per_share)
    <3>1. /\ users[p][a].debt = 0 /\ users[p][a].stake_amount = 0
          /\ pools[p].acc_reward_per_share = 0
      BY <1>2, <1>3 DEF NoPool, NoUser
    <3>2. MinerShare(0, 0) = 0
      BY MinerShareFacts
    <3> QED BY <3>1, <3>2
  <2> QED BY <2>1, <2>2, <2>3 DEF MinerTypeOK
<1>6. PoolsFunded
  <2>1. ASSUME NEW p \in PoolIds PROVE pools[p].total_claimed_reward = PaidBy(p)
    <3> DEFINE f == [a \in Accounts |-> users[p][a].claimed]
    <3>1. \A a \in Accounts : f[a] = 0
      BY <1>3 DEF NoUser
    <3>2. SumFunctionOnSet(f, Accounts) = 0
      <4> HIDE DEF f
      <4> QED BY <3>1, StakeAssumption, SumZero
    <3>3. pools[p].total_claimed_reward = 0
      BY <1>2 DEF NoPool
    <3> QED BY <3>2, <3>3 DEF PaidBy
  <2>2. ASSUME NEW t \in RewardTokens PROVE minerBalance[t] = minerIgnored[t] + Held(t)
    <3> DEFINE f == [p \in PoolIds |-> Left(p)]
               T == {p \in PoolIds : pools[p].reward_token = t}
    <3>1. \A p \in T : f[p] = 0
      BY <1>2 DEF Left, NoPool
    <3>2. IsFiniteSet(T)
      BY PoolIdsFinite, FS_Subset
    <3>3. SumFunctionOnSet(f, T) = 0
      <4> HIDE DEF f, T
      <4> QED BY <3>1, <3>2, SumZero
    <3>4. minerBalance[t] = 0 /\ minerIgnored[t] = 0
      BY <1>3
    <3> QED BY <3>3, <3>4 DEF Held
  <2> QED BY <2>1, <2>2, FundedParts
<1>7. Unmade /\ TotalSet /\ TotalTracked
  BY <1>2, <1>3 DEF Unmade, TotalSet, TotalTracked, NoPool, NoUser
<1> QED BY <1>1, <1>5, <1>6, <1>7 DEF MinerInv

-----------------------------------------------------------------------------
(* The theorems. *)

(* The inductive invariant of the two contracts holds throughout. *)
THEOREM MinerInvariance == MinerSpec => []MinerInv
<1>1. MinerInv /\ [MinerNext]_allVars => MinerInv'
  BY MinerStepKeeps
<1> QED BY <1>1, MinerInitSafe, PTL DEF MinerSpec

(* The tables keep their types, no debt exceeds its share and no pool pays more
   than it was sent. *)
THEOREM MinerTypesHold == MinerSpec => []MinerTypeOK
<1>1. MinerInv => MinerTypeOK
  BY DEF MinerInv
<1> QED BY <1>1, MinerInvariance, PTL

(* The divisor of every pool is the total stake of stake.rms. *)
THEOREM TotalStaysTracked == MinerSpec => []TotalTracked
<1>1. MinerInv => TotalTracked
  BY DEF MinerInv
<1> QED BY <1>1, MinerInvariance, PTL

(* The tokens held are what was sent to the pools and not claimed. *)
THEOREM PoolsStayFunded == MinerSpec => []PoolsFunded
<1>1. MinerInv => PoolsFunded
  BY DEF MinerInv
<1> QED BY <1>1, MinerInvariance, PTL

-----------------------------------------------------------------------------
(* What users earn. *)

(* The accumulator of a pool that pays grows in a block by rate * MinerPrecision
   over the total, and the share of a stake with it, up to the two roundings. *)
LEMMA BlockShare ==
    ASSUME NEW rate \in Nat, NEW span \in Nat, NEW total \in Nat \ {0}, NEW P \in Nat \ {0},
           NEW stake \in Nat, NEW acc \in Nat, NEW before \in Nat, NEW after \in Nat,
           before = acc + (rate * span * P) \div total,
           after = acc + (rate * (span + 1) * P) \div total
    PROVE  ((stake * after) \div P - (stake * before) \div P) * total * P
             \in (rate * stake * P - (stake + P) * total + 1)
                   ..(rate * stake * P + (stake + P) * total - 1)
<1> DEFINE n1 == rate * span * P           q1 == n1 \div total  m1 == n1 % total
           n2 == rate * (span + 1) * P     q2 == n2 \div total  m2 == n2 % total
           s1 == stake * before            g1 == s1 \div P      k1 == s1 % P
           s2 == stake * after             g2 == s2 \div P      k2 == s2 % P
           gain == g2 - g1
           d == m2 - m1
           e == k2 - k1
<1>1. /\ n1 \in Nat /\ n2 \in Nat /\ s1 \in Nat /\ s2 \in Nat
      /\ rate * P \in Nat /\ n2 = n1 + rate * P
  <2>1. rate * span \in Nat /\ rate * (span + 1) \in Nat /\ rate * P \in Nat
    BY ProductNat
  <2>2. rate * (span + 1) = rate * span + rate
    OBVIOUS
  <2> DEFINE x == rate * span  y == rate * (span + 1)
  <2>3. x * P \in Nat /\ y * P \in Nat /\ y = x + rate /\ x \in Nat
    BY <2>1, <2>2, ProductNat
  <2> HIDE DEF x, y
  <2>4. y * P = x * P + rate * P
    BY <2>1, <2>3
  <2> QED BY <2>1, <2>3, <2>4, ProductNat DEF x, y
<1>2. /\ q1 \in Nat /\ q2 \in Nat /\ m1 \in 0..(total - 1) /\ m2 \in 0..(total - 1)
      /\ n1 = total * q1 + m1 /\ n2 = total * q2 + m2
      /\ g1 \in Nat /\ g2 \in Nat /\ k1 \in 0..(P - 1) /\ k2 \in 0..(P - 1)
      /\ s1 = P * g1 + k1 /\ s2 = P * g2 + k2
  <2> HIDE DEF n1, n2, s1, s2
  <2> QED BY <1>1, Division
<1>3. before = acc + q1 /\ after = acc + q2
  OBVIOUS
<1> HIDE DEF n1, n2, q1, q2, m1, m2, g1, g2, k1, k2
<1>4. d \in Int /\ e \in Int /\ -total < d /\ d < total /\ -P < e /\ e < P /\ gain \in Int
  BY <1>2
<1>5. total * (q2 - q1) = rate * P - d
  BY <1>1, <1>2
<1>6. P * gain = stake * (q2 - q1) - e
  <2>1. stake * after = stake * before + stake * (q2 - q1)
    <3> DEFINE c == q2 - q1
    <3>1. c \in Int /\ after = before + c
      BY <1>2, <1>3
    <3> HIDE DEF c
    <3>2. stake * (before + c) = stake * before + stake * c
      BY <3>1
    <3> QED BY <3>1, <3>2 DEF c
  <2> QED BY <1>2, <2>1
<1> HIDE DEF gain, d, e, s1, s2
<1>7. gain * total * P = rate * stake * P - stake * d - total * e
  <2> DEFINE q == q2 - q1
  <2>1. q \in Int /\ total * q = rate * P - d /\ P * gain = stake * q - e
    BY <1>2, <1>5, <1>6
  <2> HIDE DEF q
  <2>2. gain * total * P = total * (P * gain)
    BY <1>4
  <2>3. total * (P * gain) = stake * (total * q) - total * e
    BY <1>4, <2>1
  <2>4. stake * (total * q) = rate * stake * P - stake * d
    BY <1>4, <2>1
  <2> QED BY <2>2, <2>3, <2>4
<1>8. /\ stake * d \in Int /\ total * e \in Int
      /\ -(stake * total) <= stake * d /\ stake * d <= stake * total
      /\ -(total * P) < total * e /\ total * e < total * P
  <2>1. stake * d \in Int /\ total * e \in Int /\ stake * total \in Nat /\ total * P \in Nat
    BY <1>4, ProductNat
  <2>2. -(stake * total) <= stake * d /\ stake * d <= stake * total
    BY <1>4
  <2>3. -(total * P) < total * e /\ total * e < total * P
    BY <1>4
  <2> QED BY <2>1, <2>2, <2>3
<1>9. (stake + P) * total = stake * total + total * P
  OBVIOUS
<1> DEFINE a == stake * d  b == total * e  x == stake * total  y == total * P
           w == rate * stake * P  z == gain * total * P
<1>10. /\ a \in Int /\ b \in Int /\ x \in Nat /\ y \in Nat /\ w \in Nat /\ z \in Int
       /\ z = w - a - b /\ -x <= a /\ a <= x /\ -y < b /\ b < y
  <2>1. x \in Nat /\ y \in Nat /\ rate * stake \in Nat
    BY ProductNat
  <2>2. w \in Nat
    BY <2>1, ProductNat
  <2> QED BY <1>7, <1>8, <2>1, <2>2
<1> HIDE DEF a, b, x, y, w, z
<1>11. z \in (w - (x + y) + 1)..(w + (x + y) - 1)
  BY <1>10
<1> QED BY <1>9, <1>11 DEF a, b, x, y, w, z, gain, g1, g2, s1, s2

(* A pool that pays accrues nothing more in the block it is settled in. *)
LEMMA MinedSettled ==
    ASSUME NEW p \in PoolIds, NEW a \in Accounts, pools'[p] \in PoolRow, block' \in Nat,
           minerStat' \in [exists : BOOLEAN, last_stake_amount : Nat],
           pools'[p].last_reward_block = block'
    PROVE  Mined(p, a)' = MinedAt(users'[p][a], pools'[p].acc_reward_per_share)
<1> DEFINE rate == pools'[p].reward_per_block
           acc  == pools'[p].acc_reward_per_share
           last == pools'[p].last_reward_block
           total == minerStat'.last_stake_amount
           more == (rate * (block' - last) * MinerPrecision) \div total
           new  == IF pools'[p].initialized /\ rate > 0 /\ total > 0
                   THEN [pools'[p] EXCEPT !.acc_reward_per_share = @ + more,
                                          !.last_reward_block = block']
                   ELSE [pools'[p] EXCEPT !.last_reward_block = block']
<1>1. rate \in Nat /\ acc \in Nat /\ total \in Nat /\ MinerPrecision \in Nat
  BY MinerAssumption, PoolRowFields
<1>2. ASSUME total > 0 PROVE more = 0
  <2>1. block' - last = 0
    <3>1. ASSUME NEW n \in Nat PROVE n - n = 0
      OBVIOUS
    <3>2. block' - last = block' - block'
      OBVIOUS
    <3> HIDE DEF last
    <3> QED BY <3>1, <3>2
  <2>2. rate * 0 = 0 /\ 0 * MinerPrecision = 0 /\ 0 \div total = 0
    BY <1>1, <1>2
  <2> QED BY <2>1, <2>2
<1>3. new.acc_reward_per_share = acc
  <2>1. total > 0 => acc + more = acc
    <3> HIDE DEF more, acc, total
    <3> QED BY <1>1, <1>2
  <2> HIDE DEF more
  <2> QED BY <1>1, <2>1 DEF PoolRow
<1>4. Mined(p, a)' = MinedAt(users'[p][a], new.acc_reward_per_share)
  BY DEF Mined, MinedAt, UpdatedPool, Accrued, Earning
<1> QED BY <1>3, <1>4

(* What a user can claim depends on no more than this. *)
LEMMA MinedSame ==
    ASSUME NEW p \in PoolIds, NEW a \in Accounts, users'[p][a] = users[p][a],
           pools'[p] = pools[p], block' = block,
           minerStat'.last_stake_amount = minerStat.last_stake_amount
    PROVE  Mined(p, a)' = Mined(p, a)
  BY DEF Mined, UpdatedPool, Accrued, Earning

(* What a user earned is an integer. *)
LEMMA MinedInt ==
    ASSUME MinerInv, NEW p \in PoolIds, NEW a \in Accounts
    PROVE  /\ Mined(p, a) = MinedAt(users[p][a], UpdatedPool(pools[p]).acc_reward_per_share)
           /\ Mined(p, a) \in Int
<1>1. /\ pools[p] \in PoolRow /\ pools[p].last_reward_block <= block /\ block \in Nat
      /\ minerStat \in [exists : BOOLEAN, last_stake_amount : Nat]
      /\ users[p][a] \in UserRow
  BY RowFactsOf
<1> DEFINE acc == UpdatedPool(pools[p]).acc_reward_per_share
           u   == users[p][a]
<1>2. acc \in Nat
  <2>1. UpdatedPool(pools[p]) \in PoolRow
    BY <1>1, UpdatedPoolFacts
  <2> QED BY <2>1, PoolRowFields
<1>3. Mined(p, a) = MinedAt(u, acc)
  BY DEF Mined, MinedAt
<1> HIDE DEF acc, u
<1>4. u \in UserRow
  BY <1>1 DEF u
<1>5. /\ u.claimed \in Nat /\ u.unclaimed \in Nat /\ u.debt \in Nat
      /\ MinerShare(u.stake_amount, acc) \in Nat
  BY <1>2, <1>4, UserRowFields, MinerShareFacts
<1>6. MinedAt(u, acc) \in Int
  BY <1>5 DEF MinedAt
<1> QED BY <1>3, <1>6 DEF acc, u

(* The property of a user of a pool that pays. *)
EarnsPerBlock(p, a) ==
    LET gain  == Mined(p, a)' - Mined(p, a)
        total == minerStat.last_stake_amount
        stake == users[p][a].stake_amount
        part  == pools[p].reward_per_block * stake * MinerPrecision
        slack == (stake + MinerPrecision) * total
    IN IF block' > block /\ total > 0
       THEN gain * total * MinerPrecision \in (part - slack + 1)..(part + slack - 1)
       ELSE \/ gain = 0
            \/ /\ SyncUser(p, a) /\ gain < 0
               /\ Mined(p, a)' = users[p][a].claimed + users[p][a].unclaimed

(* In a block, a user gains nothing. *)
LEMMA EarnsNothing ==
    ASSUME MinerInv, block' = block, NEW p \in PoolIds, NEW a \in Accounts,
           Mined(p, a)' = Mined(p, a)
    PROVE  EarnsPerBlock(p, a)
<1>1. block \in Nat /\ Mined(p, a) \in Int
  BY RowFactsOf, MinedInt
<1> QED BY <1>1 DEF EarnsPerBlock

LEMMA EarnsInBlock ==
    ASSUME MinerInv, NextBlock, NEW p \in PoolIds, NEW a \in Accounts, pools[p].initialized
    PROVE  EarnsPerBlock(p, a)
<1> DEFINE rate  == pools[p].reward_per_block
           last  == pools[p].last_reward_block
           acc   == pools[p].acc_reward_per_share
           total == minerStat.last_stake_amount
           u     == users[p][a]
           stake == u.stake_amount
           P     == MinerPrecision
           span  == block - last
           before == UpdatedPool(pools[p]).acc_reward_per_share
           after  == UpdatedPool(pools[p])'.acc_reward_per_share
<1>1. /\ block \in Nat /\ pools[p] \in PoolRow /\ last <= block
      /\ minerStat \in [exists : BOOLEAN, last_stake_amount : Nat] /\ u \in UserRow
  BY RowFactsOf
<1>2. /\ rate \in Nat /\ last \in Nat /\ acc \in Nat /\ total \in Nat
      /\ P \in Nat \ {0} /\ span \in Nat
  <2>1. rate \in Nat /\ last \in Nat /\ acc \in Nat
    BY <1>1, PoolRowFields
  <2>2. total \in Nat /\ P \in Nat \ {0}
    BY <1>1, MinerAssumption
  <2>3. span \in Nat
    <3> HIDE DEF last
    <3> QED BY <1>1, <2>1
  <2> QED BY <2>1, <2>2, <2>3
<1>3. stake \in Nat /\ u.claimed \in Nat /\ u.unclaimed \in Nat /\ u.debt \in Nat
  BY <1>1, UserRowFields
<1>4. /\ block' = block + 1 /\ UNCHANGED <<pools, users, minerStat>>
  BY DEF NextBlock
<1>5. /\ Mined(p, a) = u.claimed + u.unclaimed - u.debt + MinerShare(stake, before)
      /\ Mined(p, a)' = u.claimed + u.unclaimed - u.debt + MinerShare(stake, after)
  BY <1>4 DEF Mined
<1>6. CASE total > 0
  <2>1. /\ before = IF rate > 0 THEN acc + (rate * span * P) \div total ELSE acc
        /\ after = IF rate > 0 THEN acc + (rate * (block + 1 - last) * P) \div total ELSE acc
    BY <1>1, <1>4, <1>6 DEF UpdatedPool, Earning, Accrued, PoolRow
  <2>2. block + 1 - last = span + 1
    BY <1>1, <1>2
  <2>3. ASSUME rate = 0
        PROVE  (rate * span * P) \div total = 0 /\ (rate * (span + 1) * P) \div total = 0
    <3>1. 0 * span = 0 /\ 0 * (span + 1) = 0 /\ 0 * P = 0 /\ 0 \div total = 0
      BY <1>2, <1>6
    <3> QED BY <2>3, <3>1
  <2>4. /\ before = acc + (rate * span * P) \div total
        /\ after = acc + (rate * (span + 1) * P) \div total
    <3> HIDE DEF before, after, span, rate, acc, last
    <3>1. CASE rate > 0
      BY <2>1, <2>2, <3>1
    <3>2. CASE rate = 0
      BY <1>2, <2>1, <2>3, <3>2
    <3> QED BY <1>2, <3>1, <3>2
  <2>5. /\ UpdatedPool(pools[p]) \in PoolRow /\ before \in Nat
        /\ after \in Nat
    <3>1. UpdatedPool(pools[p]) \in PoolRow
      BY <1>1, UpdatedPoolFacts
    <3>2. before \in Nat
      BY <3>1, PoolRowFields
    <3>3. (rate * (span + 1) * P) \div total \in Nat
      <4> HIDE DEF rate, span
      <4>1. rate * (span + 1) * P \in Nat
        BY <1>2, ProductNat
      <4> QED BY <1>2, <1>6, <4>1, Division
    <3>4. after \in Nat
      <4> HIDE DEF after
      <4> QED BY <1>2, <2>4, <3>3
    <3> QED BY <3>1, <3>2, <3>4
  <2> DEFINE gain == MinerShare(stake, after) - MinerShare(stake, before)
  <2>6. gain * total * P \in (rate * stake * P - (stake + P) * total + 1)
                               ..(rate * stake * P + (stake + P) * total - 1)
    <3> HIDE DEF before, after, rate, span, acc, stake, total, P
    <3>1. gain = (stake * after) \div P - (stake * before) \div P
      BY DEF MinerShare, P
    <3>2. rate \in Nat /\ span \in Nat /\ total \in Nat \ {0} /\ P \in Nat \ {0} /\ stake \in Nat
          /\ acc \in Nat /\ before \in Nat /\ after \in Nat
      BY <1>2, <1>3, <1>6, <2>5
    <3> HIDE DEF gain
    <3> QED BY <3>1, <3>2, <2>4, BlockShare
  <2>7. Mined(p, a)' - Mined(p, a) = gain
    <3> HIDE DEF before, after, stake
    <3>1. MinerShare(stake, before) \in Nat /\ MinerShare(stake, after) \in Nat
      BY <1>3, <2>5, MinerShareFacts
    <3> QED BY <1>3, <1>5, <3>1
  <2> HIDE DEF gain
  <2> QED BY <1>1, <1>4, <1>6, <2>6, <2>7 DEF EarnsPerBlock
<1>7. CASE ~ (total > 0)
  <2>1. before = acc /\ after = acc
    BY <1>1, <1>4, <1>7 DEF UpdatedPool, Earning, PoolRow
  <2>2. Mined(p, a)' = Mined(p, a)
    <3> HIDE DEF before, after
    <3> QED BY <1>5, <2>1
  <2>3. Mined(p, a) \in Int
    BY MinedInt
  <2> QED BY <1>7, <2>2, <2>3 DEF EarnsPerBlock
<1> QED BY <1>6, <1>7


(* A pool is settled, and a user keeps what it was settled to. *)
LEMMA SettlingKeepsMined ==
    ASSUME MinerInv, MinerInv', NEW p \in PoolIds, NEW a \in Accounts, block' = block,
           pools'[p].last_reward_block = block,
           MinedAt(users'[p][a], pools'[p].acc_reward_per_share)
             = MinedAt(users[p][a], UpdatedPool(pools[p]).acc_reward_per_share)
    PROVE  Mined(p, a)' = Mined(p, a)
<1>1. MinerTypes'
  BY DEF MinerInv, MinerTypeOK, MinerTypes
<1>2. /\ pools'[p] \in PoolRow /\ block' \in Nat
      /\ minerStat' \in [exists : BOOLEAN, last_stake_amount : Nat]
  BY <1>1 DEF MinerTypes
<1>3. Mined(p, a)' = MinedAt(users'[p][a], pools'[p].acc_reward_per_share)
  BY <1>2, MinedSettled
<1>4. Mined(p, a) = MinedAt(users[p][a], UpdatedPool(pools[p]).acc_reward_per_share)
  BY MinedInt
<1> QED BY <1>3, <1>4

(* stakechange settles every user whose stake changes. *)
LEMMA NotifiedEarnNothing ==
    ASSUME MinerInv, MinerInv', NEW S \in SUBSET Accounts, StakeChanged(S),
           NEW p \in PoolIds, NEW a \in Accounts, pools[p].initialized
    PROVE  EarnsPerBlock(p, a)
<1> DEFINE acc == UpdatedPool(pools[p]).acc_reward_per_share
<1>1. IndInv' /\ block' = block
  BY DEF MinerInv, StakeChanged
<1>2. /\ pools[p] \in PoolRow /\ pools[p].last_reward_block <= block /\ block \in Nat
      /\ minerStat \in [exists : BOOLEAN, last_stake_amount : Nat]
      /\ users[p][a] \in UserRow /\ (~ users[p][a].exists => users[p][a] = NoUser)
  BY RowFactsOf
<1>3. /\ pools'[p] = UpdatedPool(pools[p])
      /\ users'[p][a] = IF a \in S THEN SettledUser(users[p][a], acc, stakes'[a].amount)
                                   ELSE users[p][a]
      /\ users[p][a].debt <= MinerShare(users[p][a].stake_amount, acc)
      /\ acc \in Nat /\ stakes'[a].amount \in Nat
  BY <1>1, NotifiedRows
<1>4. pools'[p].last_reward_block = block /\ pools'[p].acc_reward_per_share = acc
  BY <1>2, <1>3, UpdatedPoolFacts
<1> HIDE DEF acc
<1>5. MinedAt(users'[p][a], acc) = MinedAt(users[p][a], acc)
  <2>1. CASE a \in S
    BY <1>2, <1>3, <2>1, SettledUserFacts
  <2>2. CASE a \notin S
    BY <1>3, <2>2
  <2> QED BY <2>1, <2>2
<1>6. Mined(p, a)' = Mined(p, a)
  BY <1>1, <1>4, <1>5, SettlingKeepsMined DEF acc
<1> QED BY <1>1, <1>6, EarnsNothing

(* setpool pays the blocks that have passed at the rate they were promised. *)
LEMMA SetPoolEarnsNothing ==
    ASSUME MinerInv, MinerInv', NEW q \in PoolIds, NEW r \in Rates, SetPool(q, r),
           NEW p \in PoolIds, NEW a \in Accounts, pools[p].initialized
    PROVE  EarnsPerBlock(p, a)
<1>1. /\ pools \in [PoolIds -> PoolRow] /\ pools[p] \in PoolRow
      /\ pools[p].last_reward_block <= block /\ block \in Nat /\ r \in Nat
      /\ minerStat \in [exists : BOOLEAN, last_stake_amount : Nat]
  BY RowFactsOf, MinerAssumption DEF MinerTypes
<1>2. /\ pools' = [pools EXCEPT ![q] = RateChanged(pools[q], r)]
      /\ users' = users /\ minerStat' = minerStat /\ block' = block
  BY DEF SetPool
<1>3. CASE p = q
  <2>1. pools'[p] = RateChanged(pools[p], r)
    BY <1>1, <1>2, <1>3
  <2>2. /\ pools'[p].last_reward_block = block
        /\ pools'[p].acc_reward_per_share = UpdatedPool(pools[p]).acc_reward_per_share
    BY <1>1, <2>1, RateChangedFacts
  <2>3. Mined(p, a)' = Mined(p, a)
    BY <1>2, <2>2, SettlingKeepsMined
  <2> QED BY <1>2, <2>3, EarnsNothing
<1>4. CASE p # q
  <2>1. pools'[p] = pools[p]
    BY <1>1, <1>2, <1>4
  <2>2. Mined(p, a)' = Mined(p, a)
    BY <1>2, <2>1, MinedSame
  <2> QED BY <1>2, <2>2, EarnsNothing
<1> QED BY <1>3, <1>4

(* The total that initusers may set for a pool is the one another already has. *)
LEMMA InitUsersEarnsNothing ==
    ASSUME MinerInv, NEW q \in PoolIds, NEW limit \in Limits, InitUsers(q, limit),
           NEW p \in PoolIds, NEW a \in Accounts, pools[p].initialized
    PROVE  EarnsPerBlock(p, a)
<1>1. /\ pools \in [PoolIds -> PoolRow] /\ users \in [PoolIds -> [Accounts -> UserRow]]
      /\ minerStat \in [exists : BOOLEAN, last_stake_amount : Nat]
  BY RowFactsOf DEF MinerTypes
<1>2. ~ pools[q].initialized /\ block' = block
  BY DEF InitUsers
<1>3. p # q /\ q \in PoolIds
  BY <1>2
<1>4. users'[p] = users[p] /\ pools'[p] = pools[p]
  BY <1>1, <1>3 DEF InitUsers
<1>5. minerStat.last_stake_amount = stat.stake_amount
  BY DEF MinerInv, TotalSet, TotalTracked
<1>6. minerStat'.last_stake_amount = minerStat.last_stake_amount
  <2>1. \/ minerStat' = minerStat
        \/ minerStat' = [exists |-> TRUE, last_stake_amount |-> stat.stake_amount]
    BY DEF InitUsers
  <2> QED BY <1>5, <2>1
<1>7. Mined(p, a)' = Mined(p, a)
  BY <1>2, <1>4, <1>6, MinedSame
<1> QED BY <1>2, <1>7, EarnsNothing

(* What a user can claim is no less than what was credited to its record. *)
LEMMA CreditedAtMost ==
    ASSUME MinerInv, NEW p \in PoolIds, NEW a \in Accounts
    PROVE  users[p][a].claimed + users[p][a].unclaimed <= Mined(p, a)
<1> DEFINE row == UpdatedPool(pools[p])  u == users[p][a]
           acc == row.acc_reward_per_share  old == pools[p].acc_reward_per_share
<1>1. /\ pools[p] \in PoolRow /\ pools[p].last_reward_block <= block /\ block \in Nat
      /\ minerStat \in [exists : BOOLEAN, last_stake_amount : Nat]
      /\ u \in UserRow /\ UserSound(p, a)
  BY RowFactsOf
<1>2. row \in PoolRow /\ old <= acc
  <2>1. \A r \in PoolRow : r.last_reward_block <= block =>
          /\ UpdatedPool(r) \in PoolRow
          /\ r.acc_reward_per_share <= UpdatedPool(r).acc_reward_per_share
    BY <1>1, UpdatedPoolFacts
  <2> QED BY <1>1, <2>1
<1>3. acc \in Nat /\ old \in Nat
  BY <1>1, <1>2, PoolRowFields, Zenon
<1>4. u.stake_amount \in Nat /\ u.claimed \in Nat /\ u.unclaimed \in Nat /\ u.debt \in Nat
  BY <1>1, UserRowFields
<1>5. /\ MinerShare(u.stake_amount, old) \in Nat /\ MinerShare(u.stake_amount, acc) \in Nat
      /\ MinerShare(u.stake_amount, old) <= MinerShare(u.stake_amount, acc)
  BY <1>2, <1>3, <1>4, MinerShareFacts
<1>6. Mined(p, a) = u.claimed + u.unclaimed - u.debt + MinerShare(u.stake_amount, acc)
  BY DEF Mined
<1>7. u.debt <= MinerShare(u.stake_amount, old)
  BY <1>1 DEF UserSound
<1> HIDE DEF u, acc, old
<1> QED BY <1>4, <1>5, <1>6, <1>7 DEF u

(* The record syncuser writes. *)
LEMMA SyncedFields ==
    ASSUME NEW u \in UserRow, NEW acc, NEW stake
    PROVE  /\ Synced(u, acc, stake).claimed = u.claimed
           /\ Synced(u, acc, stake).unclaimed = u.unclaimed
           /\ Synced(u, acc, stake).debt = MinerShare(stake, acc)
           /\ Synced(u, acc, stake).stake_amount = stake
  BY Zenon DEF Synced, UserRow

(* syncuser settles the pool for everybody, and drops what was not credited to the
   record of the user it syncs. *)
LEMMA SyncUserEarnsNothing ==
    ASSUME MinerInv, MinerInv', NEW q \in PoolIds, NEW b \in Accounts, SyncUser(q, b),
           NEW p \in PoolIds, NEW a \in Accounts, pools[p].initialized
    PROVE  EarnsPerBlock(p, a)
<1>1. /\ pools \in [PoolIds -> PoolRow] /\ pools[p] \in PoolRow
      /\ users \in [PoolIds -> [Accounts -> UserRow]]
      /\ pools[p].last_reward_block <= block /\ block \in Nat
      /\ minerStat \in [exists : BOOLEAN, last_stake_amount : Nat]
  BY RowFactsOf DEF MinerTypes
<1>2. /\ pools' = [pools EXCEPT ![q] = UpdatedPool(pools[q])]
      /\ minerStat' = minerStat /\ block' = block
      /\ \A u \in PoolIds, c \in Accounts : u # q \/ c # b => users'[u][c] = users[u][c]
  BY <1>1 DEF SyncUser
<1>3. CASE p = q /\ a = b
  <2> DEFINE acc == UpdatedPool(pools[p]).acc_reward_per_share  stake == stakes[a].amount
             old == users[p][a]
  <2>1. /\ pools'[p] = UpdatedPool(pools[p]) /\ users'[p][a] = Synced(old, acc, stake)
        /\ old \in UserRow /\ stake \in Nat /\ acc \in Nat
    <3>1. stake \in Nat /\ old \in UserRow
      BY RowFactsOf
    <3>2. UpdatedPool(pools[p]) \in PoolRow
      BY <1>1, UpdatedPoolFacts
    <3>3. acc \in Nat
      BY <3>2, PoolRowFields, Zenon
    <3>4. /\ pools' = [pools EXCEPT ![p] = UpdatedPool(pools[p])]
          /\ users' = [users EXCEPT ![p][a] = Synced(@, acc, stake)]
      BY <1>3 DEF SyncUser
    <3> HIDE DEF acc, stake
    <3> QED BY <1>1, <3>1, <3>3, <3>4
  <2>2. /\ pools'[p] \in PoolRow /\ block' \in Nat /\ pools'[p].last_reward_block = block'
        /\ minerStat' \in [exists : BOOLEAN, last_stake_amount : Nat]
    BY <1>1, <1>2, <2>1, UpdatedPoolFacts
  <2>3. Mined(p, a)' = MinedAt(users'[p][a], acc)
    <3>1. Mined(p, a)' = MinedAt(users'[p][a], pools'[p].acc_reward_per_share)
      BY <2>2, MinedSettled
    <3> QED BY <2>1, <3>1
  <2> HIDE DEF acc, stake, old
  <2>4. MinedAt(users'[p][a], acc) = old.claimed + old.unclaimed
    <3>1. /\ Synced(old, acc, stake).claimed = old.claimed
          /\ Synced(old, acc, stake).unclaimed = old.unclaimed
          /\ Synced(old, acc, stake).debt = MinerShare(stake, acc)
          /\ Synced(old, acc, stake).stake_amount = stake
      BY <2>1, SyncedFields
    <3>2. MinerShare(stake, acc) \in Nat
      BY <2>1, MinerShareFacts, Zenon
    <3>3. old.claimed \in Nat /\ old.unclaimed \in Nat
      BY <2>1, UserRowFields
    <3> QED BY <2>1, <3>1, <3>2, <3>3 DEF MinedAt
  <2>5. /\ old.claimed + old.unclaimed <= Mined(p, a) /\ Mined(p, a) \in Int
        /\ old.claimed \in Nat /\ old.unclaimed \in Nat
    BY <2>1, CreditedAtMost, MinedInt, UserRowFields DEF old
  <2>6. \/ Mined(p, a)' - Mined(p, a) = 0
        \/ Mined(p, a)' - Mined(p, a) < 0
    BY <2>3, <2>4, <2>5
  <2> QED BY <1>1, <1>2, <1>3, <2>3, <2>4, <2>6 DEF EarnsPerBlock, old
<1>4. CASE p = q /\ a # b
  <2>1. pools'[p] = UpdatedPool(pools[p]) /\ users'[p][a] = users[p][a]
    BY <1>1, <1>2, <1>4
  <2>2. pools'[p].last_reward_block = block
    BY <1>1, <2>1, UpdatedPoolFacts
  <2>3. Mined(p, a)' = Mined(p, a)
    BY <1>2, <2>1, <2>2, SettlingKeepsMined
  <2> QED BY <1>2, <2>3, EarnsNothing
<1>5. CASE p # q
  <2>1. pools'[p] = pools[p] /\ users'[p][a] = users[p][a]
    BY <1>1, <1>2, <1>5
  <2>2. Mined(p, a)' = Mined(p, a)
    BY <1>2, <2>1, MinedSame
  <2> QED BY <1>2, <2>2, EarnsNothing
<1> QED BY <1>3, <1>4, <1>5

(* A claim moves what was unclaimed to what was claimed. *)
LEMMA ClaimEarnsNothing ==
    ASSUME MinerInv, MinerInv', NEW q \in PoolIds, NEW b \in Accounts, MinerClaim(q, b),
           NEW p \in PoolIds, NEW a \in Accounts, pools[p].initialized
    PROVE  EarnsPerBlock(p, a)
<1> DEFINE row  == UpdatedPool(pools[q])
           acc  == row.acc_reward_per_share
           user == UserAtClaim(q, b)
<1>1. /\ pools \in [PoolIds -> PoolRow] /\ users \in [PoolIds -> [Accounts -> UserRow]]
      /\ pools[q] \in PoolRow
      /\ pools[q].last_reward_block <= block /\ block \in Nat
      /\ minerStat \in [exists : BOOLEAN, last_stake_amount : Nat]
  BY RowFactsOf DEF MinerTypes
<1>2. /\ minerStat' = minerStat /\ block' = block
  BY DEF MinerClaim
<1>3. /\ pools' = [pools EXCEPT ![q] = ClaimedOf(row, user.unclaimed)]
      /\ users' = [users EXCEPT ![q][b] = PaidUser(user)]
      /\ user \in UserRow /\ acc \in Nat
      /\ MinedAt(user, acc) = MinedAt(users[q][b], acc)
  BY ClaimRows
<1>4. row \in PoolRow /\ row.last_reward_block = block
  BY <1>1, UpdatedPoolFacts
<1>5. /\ ClaimedOf(row, user.unclaimed).acc_reward_per_share = acc
      /\ ClaimedOf(row, user.unclaimed).last_reward_block = block
  <2> HIDE DEF row, user
  <2> QED BY <1>4 DEF ClaimedOf, PoolRow, acc
<1>6. MinedAt(PaidUser(user), acc) = MinedAt(user, acc)
  <2> HIDE DEF user, acc
  <2>1. /\ user.claimed \in Nat /\ user.unclaimed \in Nat /\ user.debt \in Nat
        /\ MinerShare(user.stake_amount, acc) \in Nat
    BY <1>3, UserRowFields, MinerShareFacts
  <2>2. /\ PaidUser(user).stake_amount = user.stake_amount
        /\ PaidUser(user).debt = user.debt
        /\ PaidUser(user).claimed = user.claimed + user.unclaimed
        /\ PaidUser(user).unclaimed = 0
    BY <1>3, PaidUserFacts
  <2> QED BY <2>1, <2>2 DEF MinedAt
<1> HIDE DEF user
<1>7. CASE p = q
  <2>1. /\ pools'[p].acc_reward_per_share = acc /\ pools'[p].last_reward_block = block
        /\ users'[p][a] = IF a = b THEN PaidUser(user) ELSE users[p][a]
    <3> HIDE DEF row
    <3> QED BY <1>1, <1>3, <1>5, <1>7
  <2>2. MinedAt(users'[p][a], acc) = MinedAt(users[p][a], acc)
    BY <1>3, <1>6, <1>7, <2>1
  <2>3. Mined(p, a)' = Mined(p, a)
    BY <1>2, <1>7, <2>1, <2>2, SettlingKeepsMined
  <2> QED BY <1>2, <2>3, EarnsNothing
<1>8. CASE p # q
  <2>1. pools'[p] = pools[p] /\ users'[p][a] = users[p][a]
    <3> HIDE DEF row
    <3> QED BY <1>1, <1>3, <1>8
  <2>2. Mined(p, a)' = Mined(p, a)
    BY <1>2, <2>1, MinedSame
  <2> QED BY <1>2, <2>2, EarnsNothing
<1> QED BY <1>7, <1>8

(* Nor do the other steps of the two contracts give anybody anything. *)
LEMMA FundPoolEarnsNothing ==
    ASSUME MinerInv, NEW q \in PoolIds, NEW n \in Fundings, FundPool(q, n),
           NEW p \in PoolIds, NEW a \in Accounts, pools[p].initialized
    PROVE  EarnsPerBlock(p, a)
<1>1. pools \in [PoolIds -> PoolRow] /\ pools[p] \in PoolRow
  BY RowFactsOf DEF MinerTypes
<1>2. users' = users /\ minerStat' = minerStat /\ block' = block
  BY DEF FundPool
<1>3. UpdatedPool(pools[p])'.acc_reward_per_share = UpdatedPool(pools[p]).acc_reward_per_share
  <2> DEFINE row == pools[p]  new == pools'[p]
  <2>1. /\ new.acc_reward_per_share = row.acc_reward_per_share
        /\ new.last_reward_block = row.last_reward_block
        /\ new.reward_per_block = row.reward_per_block
        /\ new.initialized = row.initialized
        /\ new \in PoolRow
    <3>1. CASE p = q
      <4>1. new = [row EXCEPT !.total_distributed_reward = @ + n]
        BY <1>1, <3>1 DEF FundPool
      <4>2. row.total_distributed_reward \in Nat /\ n \in Nat
        BY <1>1, PoolRowFields, MinerAssumption
      <4>3. row.total_distributed_reward + n \in Nat
        BY <4>2
      <4> HIDE DEF new
      <4> QED BY <1>1, <4>1, <4>3 DEF PoolRow
    <3>2. CASE p # q
      <4>1. new = row
        BY <1>1, <3>2 DEF FundPool
      <4> QED BY <1>1, <4>1
    <3> QED BY <3>1, <3>2
  <2> DEFINE more == Accrued(row)
             pays == row.initialized /\ Earning(row)
  <2>2. Accrued(pools[p])' = more
    BY <1>2, <2>1 DEF Accrued
  <2>4. pools'[p].initialized /\ Earning(pools[p])' <=> pays
    BY <1>2, <2>1 DEF Earning
  <2>3. /\ UpdatedPool(row).acc_reward_per_share =
             IF pays THEN row.acc_reward_per_share + more ELSE row.acc_reward_per_share
        /\ UpdatedPool(pools[p])'.acc_reward_per_share =
             IF pays THEN new.acc_reward_per_share + more ELSE new.acc_reward_per_share
    <3>1. UpdatedPool(row) = IF pays THEN [row EXCEPT !.acc_reward_per_share = @ + more,
                                                      !.last_reward_block = block]
                                     ELSE [row EXCEPT !.last_reward_block = block]
      BY DEF UpdatedPool
    <3>2. UpdatedPool(pools[p])'
            = IF pays THEN [new EXCEPT !.acc_reward_per_share = @ + more,
                                       !.last_reward_block = block]
                      ELSE [new EXCEPT !.last_reward_block = block]
      <4> HIDE DEF more, pays
      <4> QED BY <1>2, <2>2, <2>4 DEF UpdatedPool
    <3> HIDE DEF more, pays, row, new
    <3>3. row \in PoolRow
      BY <1>1 DEF row
    <3> QED BY <2>1, <3>1, <3>2, <3>3 DEF PoolRow
  <2> HIDE DEF more, pays
  <2> QED BY <2>1, <2>3
<1>4. Mined(p, a)' = Mined(p, a)
  BY <1>2, <1>3 DEF Mined
<1> QED BY <1>2, <1>4, EarnsNothing

(* A step that leaves a pool, its user and the total alone. *)
LEMMA AsideEarnsNothing ==
    ASSUME MinerInv, NEW p \in PoolIds, NEW a \in Accounts,
           pools'[p] = pools[p], users' = users, minerStat' = minerStat, block' = block
    PROVE  EarnsPerBlock(p, a)
<1>1. Mined(p, a)' = Mined(p, a)
  BY MinedSame
<1> QED BY <1>1, EarnsNothing

LEMMA PoolStepEarns ==
    ASSUME MinerInv, MinerInv', PoolNext,
           NEW p \in PoolIds, NEW a \in Accounts, pools[p].initialized
    PROVE  EarnsPerBlock(p, a)
<1>1. CASE \E q \in PoolIds, t \in RewardTokens, r \in Rates : AddPool(q, t, r)
  <2>1. PICK q \in PoolIds, t \in RewardTokens, r \in Rates : AddPool(q, t, r)
    BY <1>1
  <2>2. /\ pools[p].exists /\ ~ pools[q].exists /\ pools \in [PoolIds -> PoolRow]
    BY <2>1, RowFactsOf DEF AddPool, PoolIds, MinerTypes
  <2>3. pools'[p] = pools[p] /\ users' = users /\ minerStat' = minerStat /\ block' = block
    BY <2>1, <2>2 DEF AddPool
  <2> QED BY <2>3, AsideEarnsNothing
<1>2. CASE \E q \in PoolIds, r \in Rates : SetPool(q, r)
  BY <1>2, SetPoolEarnsNothing
<1>3. CASE \E q \in PoolIds, n \in Limits : InitUsers(q, n)
  BY <1>3, InitUsersEarnsNothing
<1>4. CASE \E q \in PoolIds, b \in Accounts : SyncUser(q, b)
  BY <1>4, SyncUserEarnsNothing
<1>5. CASE \E q \in PoolIds, b \in Accounts : MinerClaim(q, b)
  BY <1>5, ClaimEarnsNothing
<1>6. CASE \E q \in PoolIds, n \in Fundings :
             pools[q].total_distributed_reward + n <= MaxFunding /\ FundPool(q, n)
  BY <1>6, FundPoolEarnsNothing
<1>7. CASE \E t \in RewardTokens, n \in Fundings :
             minerIgnored[t] + n <= MaxFunding /\ IgnoredReward(t, n)
  <2>1. pools'[p] = pools[p] /\ users' = users /\ minerStat' = minerStat /\ block' = block
    BY <1>7 DEF IgnoredReward
  <2> QED BY <2>1, AsideEarnsNothing
<1>8. CASE NextBlock
  BY <1>8, EarnsInBlock
<1> QED BY <1>1, <1>2, <1>3, <1>4, <1>5, <1>6, <1>7, <1>8 DEF PoolNext

(* Rewards are settled lazily, yet each user earns block by block. *)
THEOREM UsersEarnPerBlock == MinerSpec => PaidPerBlock
<1> DEFINE Earns == \A p \in PoolIds, a \in Accounts :
                      pools[p].initialized => EarnsPerBlock(p, a)
<1>1. ASSUME MinerInv, [MinerNext]_allVars PROVE Earns
  <2> SUFFICES ASSUME NEW p \in PoolIds, NEW a \in Accounts, pools[p].initialized
               PROVE  EarnsPerBlock(p, a)
    OBVIOUS
  <2>1. MinerInv'
    BY <1>1, MinerStepKeeps
  <2>2. CASE NotifyingNext
    <3>1. PICK S \in SUBSET Accounts : StakeChanged(S)
      BY <1>1, <2>2, NotifyingFacts DEF MinerInv
    <3> QED BY <1>1, <2>1, <3>1, NotifiedEarnNothing
  <2>3. CASE SilentNext \/ UNCHANGED allVars
    <3>1. pools' = pools /\ users' = users /\ minerStat' = minerStat /\ block' = block
      BY <2>3 DEF SilentNext, allVars, minerVars
    <3> QED BY <1>1, <3>1, AsideEarnsNothing
  <2>4. CASE PoolNext
    BY <1>1, <2>1, <2>4, PoolStepEarns
  <2> QED BY <1>1, <2>2, <2>3, <2>4 DEF MinerNext
<1>2. MinerInv /\ [MinerNext]_allVars => [Earns]_allVars
  BY <1>1
<1>3. MinerSpec => [][Earns]_allVars
  <2> HIDE DEF Earns
  <2> QED BY <1>2, MinerInvariance, PTL DEF MinerSpec
<1> QED BY <1>3 DEF PaidPerBlock, EarnsPerBlock, Earns

-----------------------------------------------------------------------------
(* What pools know of the stakes. *)

(* The two ways in which a pool that does not pay yet loses track of a stake. *)
Excused(p, a) ==
    /\ ~ pools'[p].initialized
    /\ \/ Passed(p, a) /\ stakes'[a].amount # stakes[a].amount
       \/ \E u \in Accounts : NameOrder[u] > NameOrder[a] /\ SyncUser(p, u)

StaysTracked(p, a) == Tracked(p, a) => Tracked(p, a)' \/ Excused(p, a)

(* The pool, its records and the stake stay. *)
LEMMA SameTracked ==
    ASSUME NEW p \in PoolIds, NEW a \in Accounts,
           \A b \in Accounts : users'[p][b] = users[p][b],
           stakes'[a].amount = stakes[a].amount,
           pools'[p].initialized = pools[p].initialized
    PROVE  StaysTracked(p, a)
<1>1. Passed(p, a)' <=> Passed(p, a)
  BY DEF Passed, Recorded
<1> QED BY <1>1 DEF StaysTracked, Tracked

(* A pool that pays hears of every change; another, of none. *)
LEMMA NotifiedTracked ==
    ASSUME MinerInv, IndInv', NEW S \in SUBSET Accounts, StakesChangeIn(S), StakeChanged(S),
           NEW p \in PoolIds, NEW a \in Accounts
    PROVE  StaysTracked(p, a)
<1> SUFFICES ASSUME Tracked(p, a)
             PROVE  Tracked(p, a)' \/ Excused(p, a)
  BY DEF StaysTracked
<1>1. CASE pools[p].initialized
  <2>1. users[p][a].stake_amount = stakes[a].amount
    BY <1>1 DEF Tracked
  <2>2. CASE a \in S
    <3> DEFINE acc == UpdatedPool(pools[p]).acc_reward_per_share
               stake == stakes'[a].amount
    <3>1. /\ users'[p][a] = SettledUser(users[p][a], acc, stake)
          /\ users[p][a].debt <= MinerShare(users[p][a].stake_amount, acc)
          /\ acc \in Nat /\ stake \in Nat
      BY <1>1, <2>2, NotifiedRows
    <3>2. users[p][a] \in UserRow /\ (~ users[p][a].exists => users[p][a] = NoUser)
      BY RowFactsOf
    <3> HIDE DEF acc, stake
    <3>3. users'[p][a].stake_amount = stake
      BY <3>1, <3>2, SettledUserFacts
    <3> QED BY <3>3 DEF Tracked, stake
  <2>3. CASE a \notin S
    <3>1. users'[p][a] = users[p][a] /\ stakes'[a].amount = stakes[a].amount
      BY <2>3, NotifiedRows DEF StakesChangeIn
    <3> QED BY <2>1, <3>1 DEF Tracked
  <2> QED BY <2>2, <2>3
<1>2. CASE ~ pools[p].initialized
  <2>1. pools'[p] = pools[p] /\ \A b \in Accounts : users'[p][b] = users[p][b]
    BY <1>2, NotifiedRows
  <2>2. CASE Passed(p, a) /\ stakes'[a].amount # stakes[a].amount
    BY <1>2, <2>1, <2>2 DEF Excused
  <2>3. CASE stakes'[a].amount = stakes[a].amount
    <3>1. StaysTracked(p, a)
      BY <2>1, <2>3, SameTracked
    <3> QED BY <3>1 DEF StaysTracked
  <2>4. CASE ~ Passed(p, a)
    <3>1. ~ Passed(p, a)'
      BY <2>1, <2>4 DEF Passed, Recorded
    <3> QED BY <1>2, <2>1, <3>1 DEF Tracked
  <2> QED BY <2>2, <2>3, <2>4
<1> QED BY <1>1, <1>2

(* A batch of initusers records a stake, or stops before its place. *)
LEMMA BatchTracked ==
    ASSUME MinerInv, NEW p \in PoolIds, NEW limit \in Limits, InitUsers(p, limit),
           NEW a \in Accounts
    PROVE  StaysTracked(p, a)
<1> SUFFICES ASSUME Tracked(p, a)
             PROVE  Tracked(p, a)'
  BY DEF StaysTracked
<1>1. /\ pools \in [PoolIds -> PoolRow] /\ users \in [PoolIds -> [Accounts -> UserRow]]
      /\ \A b \in Accounts : ~ users[p][b].exists => users[p][b] = NoUser
      /\ NameOrder \in [Accounts -> Nat] /\ limit \in Nat
      /\ stakes[a].amount \in Nat
      /\ ~ stakes[a].exists => stakes[a].amount = 0
  <2>1. ~ stakes[a].exists => stakes[a].amount = 0
    BY DEF MinerInv, IndInv, VaultInv, NoRowNoAmount
  <2> QED BY <2>1, RowFactsOf, MinerAssumption DEF MinerTypes
<1>2. stakes' = stakes
  BY DEF InitUsers, vars, stakeVars
<1>3. PICK S \in SUBSET Ahead(p) :
        /\ IsBatch(p, S, limit)
        /\ users' = [users EXCEPT ![p] = [b \in Accounts |->
             IF b \in S THEN [NoUser EXCEPT !.exists = TRUE, !.stake_amount = stakes[b].amount]
             ELSE @[b]]]
        /\ pools' = [pools EXCEPT ![p].last_reward_block = block,
                                  ![p].initialized = ReachesEnd(p, S, limit)]
  BY DEF InitUsers
<1>4. \A b \in Accounts : users'[p][b] =
        IF b \in S THEN [NoUser EXCEPT !.exists = TRUE, !.stake_amount = stakes[b].amount]
        ELSE users[p][b]
  BY <1>1, <1>3
<1>5. CASE a \in S
  <2>1. users'[p][a].stake_amount = stakes[a].amount
    BY <1>4, <1>5 DEF NoUser
  <2> QED BY <1>2, <2>1 DEF Tracked
<1>6. CASE a \notin S /\ users[p][a].stake_amount = stakes[a].amount
  BY <1>2, <1>4, <1>6 DEF Tracked
<1>7. CASE a \notin S /\ users[p][a].stake_amount # stakes[a].amount
  <2>1. ~ Passed(p, a)
    BY <1>7 DEF Tracked
  <2>2. \A u \in Recorded(p) : NameOrder[u] < NameOrder[a]
    BY <1>1, <2>1 DEF Passed, Recorded
  <2>3. a \notin Recorded(p)
    BY <1>1, <2>2 DEF Recorded
  <2>4. users[p][a].stake_amount = 0
    BY <1>1, <2>3 DEF Recorded, NoUser
  <2>5. stakes[a].amount > 0 /\ stakes[a].exists
    BY <1>1, <1>7, <2>4
  <2>6. a \in Ahead(p)
    BY <2>2, <2>5 DEF Ahead
  <2>7. /\ Cardinality(S) = limit
        /\ \A b \in S : NameOrder[b] < NameOrder[a]
    <3>1. a \in {b \in Ahead(p) : stakes[b].amount > 0} \ S
      BY <1>7, <2>5, <2>6
    <3> QED BY <1>3, <3>1 DEF IsBatch
  <2>8. ~ ReachesEnd(p, S, limit)
    <3>1. ~ (Cardinality(S) < limit)
      BY <1>1, <2>7
    <3>2. \A b \in S : b \in Accounts /\ ~ (NameOrder[a] <= NameOrder[b])
      BY <1>1, <2>7 DEF Ahead
    <3> QED BY <2>6, <3>1, <3>2 DEF ReachesEnd
  <2>9. ~ pools'[p].initialized
    <3>1. pools[p] \in PoolRow
      BY <1>1
    <3>2. pools'[p] = [pools[p] EXCEPT !.last_reward_block = block,
                                       !.initialized = ReachesEnd(p, S, limit)]
      BY <1>1, <1>3
    <3> QED BY <2>8, <3>1, <3>2 DEF PoolRow
  <2>10. ASSUME NEW u \in Accounts, users'[p][u].exists
         PROVE  ~ (NameOrder[u] >= NameOrder[a])
    <3>1. CASE u \in S
      BY <1>1, <2>7, <3>1
    <3>2. CASE u \notin S
      <4>1. u \in Recorded(p)
        BY <1>4, <2>10, <3>2 DEF Recorded
      <4> QED BY <1>1, <2>2, <4>1
    <3> QED BY <3>1, <3>2
  <2>11. ~ Passed(p, a)'
    BY <2>10 DEF Passed, Recorded
  <2> QED BY <2>9, <2>11 DEF Tracked
<1> QED BY <1>5, <1>6, <1>7

(* syncuser may add a record that initusers then takes for its place. *)
LEMMA SyncTracked ==
    ASSUME MinerInv, NEW p \in PoolIds, NEW u \in Accounts, SyncUser(p, u),
           NEW a \in Accounts
    PROVE  StaysTracked(p, a)
<1> SUFFICES ASSUME Tracked(p, a)
             PROVE  Tracked(p, a)' \/ Excused(p, a)
  BY DEF StaysTracked
<1>1. /\ pools \in [PoolIds -> PoolRow] /\ users \in [PoolIds -> [Accounts -> UserRow]]
      /\ pools[p] \in PoolRow /\ users[p][u] \in UserRow
      /\ pools[p].last_reward_block <= block /\ block \in Nat
      /\ minerStat \in [exists : BOOLEAN, last_stake_amount : Nat]
      /\ stakes[u].amount \in Nat
  BY RowFactsOf DEF MinerTypes
<1>2. stakes' = stakes
  BY DEF SyncUser, vars, stakeVars
<1> DEFINE acc == UpdatedPool(pools[p]).acc_reward_per_share
<1>3. /\ pools'[p] = UpdatedPool(pools[p])
      /\ users'[p][u] = Synced(users[p][u], acc, stakes[u].amount)
      /\ \A b \in Accounts \ {u} : users'[p][b] = users[p][b]
  BY <1>1 DEF SyncUser
<1>4. pools'[p].initialized = pools[p].initialized /\ acc \in Nat
  <2>1. UpdatedPool(pools[p]) \in PoolRow
        /\ UpdatedPool(pools[p]).initialized = pools[p].initialized
    BY <1>1, UpdatedPoolFacts
  <2> QED BY <1>3, <2>1, PoolRowFields
<1> HIDE DEF acc
<1>5. CASE u = a
  <2> DEFINE row == users[p][u]  stake == stakes[u].amount
  <2>1. row \in UserRow /\ stake \in Nat /\ users'[p][u] = Synced(row, acc, stake)
    BY <1>1, <1>3
  <2> HIDE DEF row, stake
  <2>2. users'[p][u].stake_amount = stake
    BY <1>4, <2>1, SyncedFacts
  <2>3. users'[p][a].stake_amount = stakes[a].amount
    BY <1>5, <2>2 DEF stake
  <2> QED BY <1>2, <2>3 DEF Tracked
<1>6. CASE u # a /\ users[p][a].stake_amount = stakes[a].amount
  BY <1>2, <1>3, <1>6 DEF Tracked
<1>7. CASE u # a /\ ~ pools[p].initialized /\ ~ Passed(p, a)
  <2>1. CASE NameOrder[u] > NameOrder[a]
    BY <1>4, <1>7, <2>1 DEF Excused
  <2>2. CASE ~ (NameOrder[u] > NameOrder[a])
    <3>1. ~ (NameOrder[u] >= NameOrder[a])
      BY <1>7, <2>2, MinerAssumption
    <3>2. ~ Passed(p, a)'
      BY <1>3, <1>7, <3>1 DEF Passed, Recorded
    <3> QED BY <1>4, <1>7, <3>2 DEF Tracked
  <2> QED BY <2>1, <2>2
<1> QED BY <1>5, <1>6, <1>7 DEF Tracked

(* A claim settles its user with the stake it has. *)
LEMMA ClaimTracked ==
    ASSUME MinerInv, NEW q \in PoolIds, NEW b \in Accounts, MinerClaim(q, b),
           NEW p \in PoolIds, NEW a \in Accounts
    PROVE  StaysTracked(p, a)
<1>1. /\ pools \in [PoolIds -> PoolRow] /\ users \in [PoolIds -> [Accounts -> UserRow]]
      /\ pools[q].initialized
  BY RowFactsOf DEF MinerTypes, MinerClaim
<1>2. stakes' = stakes
  BY DEF MinerClaim, vars, stakeVars
<1>3. CASE p = q
  <2> DEFINE user == UserAtClaim(p, a)
  <2>1. CASE a = b
    <3>1. users' = [users EXCEPT ![p][a] = PaidUser(user)]
          /\ user \in UserRow /\ user.stake_amount = stakes[a].amount
      BY <1>3, <2>1, ClaimRows
    <3> HIDE DEF user
    <3>2. PaidUser(user).stake_amount = stakes[a].amount
      BY <3>1, PaidUserFacts
    <3>3. users'[p][a] = PaidUser(user)
      BY <1>1, <3>1
    <3> QED BY <1>2, <3>2, <3>3 DEF StaysTracked, Tracked
  <2>2. CASE a # b
    <3>1. users'[p][a] = users[p][a]
      BY <1>1, <2>2 DEF MinerClaim
    <3> QED BY <1>1, <1>2, <1>3, <3>1 DEF StaysTracked, Tracked
  <2> QED BY <2>1, <2>2
<1>4. CASE p # q
  <2>1. pools'[p] = pools[p] /\ users'[p] = users[p]
    BY <1>1, <1>4 DEF MinerClaim
  <2> QED BY <1>2, <2>1, SameTracked
<1> QED BY <1>3, <1>4

LEMMA PoolKeepsStakes == PoolNext => stakes' = stakes
<1>1. PoolNext => UNCHANGED vars
  BY Zenon DEF PoolNext, AddPool, SetPool, InitUsers, SyncUser, MinerClaim, FundPool,
               IgnoredReward, NextBlock
<1> QED BY <1>1 DEF vars, stakeVars

LEMMA PoolStepTracked ==
    ASSUME MinerInv, PoolNext, NEW p \in PoolIds, NEW a \in Accounts
    PROVE  StaysTracked(p, a)
<1>1. /\ pools \in [PoolIds -> PoolRow] /\ users \in [PoolIds -> [Accounts -> UserRow]]
      /\ pools[p] \in PoolRow
  BY RowFactsOf DEF MinerTypes
<1>2. stakes' = stakes
  BY PoolKeepsStakes
<1>3. CASE \E q \in PoolIds, t \in RewardTokens, r \in Rates : AddPool(q, t, r)
  <2>1. PICK q \in PoolIds, t \in RewardTokens, r \in Rates : AddPool(q, t, r)
    BY <1>3
  <2>2. users' = users
    BY <2>1 DEF AddPool
  <2>3. CASE p = q
    <3>1. ~ pools[p].initialized
      BY <2>1, <2>3, RowFactsOf DEF AddPool, PoolIds
    <3>2. pools'[p] = [NoPool(t) EXCEPT !.exists = TRUE, !.reward_per_block = r,
                                        !.last_reward_block = block]
      BY <1>1, <2>1, <2>3 DEF AddPool
    <3>3. pools'[p].initialized = FALSE
      BY <3>2 DEF NoPool
    <3>4. pools[p].initialized = FALSE
      BY <1>1, <3>1, PoolRowFields
    <3> QED BY <1>2, <2>2, <3>3, <3>4, SameTracked
  <2>4. CASE p # q
    <3>1. pools'[p] = pools[p]
      BY <1>1, <2>1, <2>4 DEF AddPool
    <3> QED BY <1>2, <2>2, <3>1, SameTracked
  <2> QED BY <2>3, <2>4
<1>4. CASE \E q \in PoolIds, r \in Rates : SetPool(q, r)
  <2>1. PICK q \in PoolIds, r \in Rates : SetPool(q, r)
    BY <1>4
  <2>2. pools'[p].initialized = pools[p].initialized
    <3>1. CASE p = q
      <4>1. pools'[p] = RateChanged(pools[p], r)
        BY <1>1, <2>1, <3>1 DEF SetPool
      <4>2. /\ pools[p].last_reward_block <= block /\ block \in Nat /\ r \in Nat
            /\ minerStat \in [exists : BOOLEAN, last_stake_amount : Nat]
        BY RowFactsOf, MinerAssumption
      <4> QED BY <1>1, <4>1, <4>2, RateChangedFacts
    <3>2. CASE p # q
      BY <1>1, <2>1, <3>2 DEF SetPool
    <3> QED BY <3>1, <3>2
  <2>3. users' = users
    BY <2>1 DEF SetPool
  <2> QED BY <1>2, <2>2, <2>3, SameTracked
<1>5. CASE \E q \in PoolIds, n \in Limits : InitUsers(q, n)
  <2>1. PICK q \in PoolIds, n \in Limits : InitUsers(q, n)
    BY <1>5
  <2>2. CASE p = q
    BY <2>1, <2>2, BatchTracked
  <2>3. CASE p # q
    <3>1. pools'[p] = pools[p] /\ users'[p] = users[p]
      BY <1>1, <2>1, <2>3 DEF InitUsers
    <3> QED BY <1>2, <3>1, SameTracked
  <2> QED BY <2>2, <2>3
<1>6. CASE \E q \in PoolIds, u \in Accounts : SyncUser(q, u)
  <2>1. PICK q \in PoolIds, u \in Accounts : SyncUser(q, u)
    BY <1>6
  <2>2. CASE p = q
    BY <2>1, <2>2, SyncTracked
  <2>3. CASE p # q
    <3>1. pools'[p] = pools[p] /\ users'[p] = users[p]
      BY <1>1, <2>1, <2>3 DEF SyncUser
    <3> QED BY <1>2, <3>1, SameTracked
  <2> QED BY <2>2, <2>3
<1>7. CASE \E q \in PoolIds, b \in Accounts : MinerClaim(q, b)
  BY <1>7, ClaimTracked
<1>8. CASE \E q \in PoolIds, n \in Fundings :
             pools[q].total_distributed_reward + n <= MaxFunding /\ FundPool(q, n)
  <2>1. PICK q \in PoolIds, n \in Fundings : FundPool(q, n)
    BY <1>8
  <2>2. pools'[p].initialized = pools[p].initialized
    <3>1. CASE p = q
      <4>1. pools'[p] = [pools[p] EXCEPT !.total_distributed_reward = @ + n]
        BY <1>1, <2>1, <3>1 DEF FundPool
      <4> QED BY <1>1, <4>1 DEF PoolRow
    <3>2. CASE p # q
      BY <1>1, <2>1, <3>2 DEF FundPool
    <3> QED BY <3>1, <3>2
  <2>3. users' = users
    BY <2>1 DEF FundPool
  <2> QED BY <1>2, <2>2, <2>3, SameTracked
<1>9. CASE \/ \E t \in RewardTokens, n \in Fundings :
                minerIgnored[t] + n <= MaxFunding /\ IgnoredReward(t, n)
           \/ NextBlock
  <2>1. pools' = pools /\ users' = users
    BY <1>9 DEF IgnoredReward, NextBlock
  <2> QED BY <1>2, <2>1, SameTracked
<1> QED BY <1>3, <1>4, <1>5, <1>6, <1>7, <1>8, <1>9 DEF PoolNext

(* A stake that was lost is found again: by a pool that pays when it changes, and by
   any pool when syncuser reads it. *)
Found(p, a) ==
    \/ pools[p].initialized /\ stakes'[a].amount # stakes[a].amount
    \/ SyncUser(p, a)
    => users'[p][a].stake_amount = stakes'[a].amount

LEMMA SyncFinds ==
    ASSUME MinerInv, NEW p \in PoolIds, NEW a \in Accounts, SyncUser(p, a)
    PROVE  users'[p][a].stake_amount = stakes'[a].amount
<1> DEFINE acc == UpdatedPool(pools[p]).acc_reward_per_share  row == users[p][a]
           stake == stakes[a].amount
<1>1. /\ users \in [PoolIds -> [Accounts -> UserRow]] /\ pools \in [PoolIds -> PoolRow]
      /\ pools[p] \in PoolRow /\ row \in UserRow /\ stake \in Nat
      /\ pools[p].last_reward_block <= block /\ block \in Nat
      /\ minerStat \in [exists : BOOLEAN, last_stake_amount : Nat]
  <2>1. /\ users \in [PoolIds -> [Accounts -> UserRow]] /\ pools \in [PoolIds -> PoolRow]
    BY RowFactsOf DEF MinerTypes
  <2> QED BY <2>1, RowFactsOf
<1>2. users'[p][a] = Synced(row, acc, stake) /\ stakes' = stakes
  <2>1. users' = [users EXCEPT ![p][a] = Synced(@, acc, stake)]
    BY DEF SyncUser
  <2>2. stakes' = stakes
    BY DEF SyncUser, vars, stakeVars
  <2> HIDE DEF acc, stake
  <2> QED BY <1>1, <2>1, <2>2
<1>3. acc \in Nat
  <2>1. UpdatedPool(pools[p]) \in PoolRow
    BY <1>1, UpdatedPoolFacts
  <2> QED BY <2>1, PoolRowFields
<1> HIDE DEF acc, row, stake
<1>4. users'[p][a].stake_amount = stake
  BY <1>1, <1>2, <1>3, SyncedFacts
<1> QED BY <1>2, <1>4 DEF stake

LEMMA NotifiedFinds ==
    ASSUME MinerInv, IndInv', NEW S \in SUBSET Accounts, StakesChangeIn(S), StakeChanged(S),
           NEW p \in PoolIds, NEW a \in Accounts,
           pools[p].initialized, stakes'[a].amount # stakes[a].amount
    PROVE  users'[p][a].stake_amount = stakes'[a].amount
<1> DEFINE acc == UpdatedPool(pools[p]).acc_reward_per_share
           stake == stakes'[a].amount
<1>1. a \in S
  BY DEF StakesChangeIn
<1>2. /\ users'[p][a] = SettledUser(users[p][a], acc, stake)
      /\ users[p][a].debt <= MinerShare(users[p][a].stake_amount, acc)
      /\ acc \in Nat /\ stake \in Nat
  BY <1>1, NotifiedRows
<1>3. users[p][a] \in UserRow /\ (~ users[p][a].exists => users[p][a] = NoUser)
  BY RowFactsOf
<1> HIDE DEF acc, stake
<1>4. users'[p][a].stake_amount = stake
  BY <1>2, <1>3, SettledUserFacts
<1> QED BY <1>4 DEF stake

(* A pool loses track of a stake in two ways only, and finds it again. *)
THEOREM StakesStayTracked == MinerSpec => TracksStakes
<1> DEFINE Tracks == \A p \in PoolIds, a \in Accounts :
                       config'.init_done = config.init_done =>
                         StaysTracked(p, a) /\ Found(p, a)
<1>1. ASSUME MinerInv, [MinerNext]_allVars PROVE Tracks
  <2> SUFFICES ASSUME NEW p \in PoolIds, NEW a \in Accounts,
                      config'.init_done = config.init_done
               PROVE  StaysTracked(p, a) /\ Found(p, a)
    OBVIOUS
  <2>1. CASE NotifyingNext
    <3>1. PICK S \in SUBSET Accounts : IndInv' /\ StakesChangeIn(S) /\ StakeChanged(S)
      BY <1>1, <2>1, NotifyingFacts DEF MinerInv
    <3>2. StaysTracked(p, a)
      BY <1>1, <3>1, NotifiedTracked
    <3>3. Found(p, a)
      BY <1>1, <3>1, NotifiedFinds, SyncFinds DEF Found
    <3> QED BY <3>2, <3>3
  <2>2. CASE ~ NotifyingNext
    <3>1. StaysTracked(p, a) /\ stakes'[a].amount = stakes[a].amount
      <4>1. CASE SilentNext
        <5>1. StakesChangeIn({})
          BY <1>1, <4>1, SilentFacts DEF MinerInv
        <5>2. stakes'[a].amount = stakes[a].amount /\ pools' = pools /\ users' = users
          BY <4>1, <5>1 DEF StakesChangeIn, SilentNext, minerVars
        <5> QED BY <5>2, SameTracked
      <4>2. CASE PoolNext
        <5>1. stakes' = stakes
          BY <4>2, PoolKeepsStakes
        <5> QED BY <1>1, <4>2, <5>1, PoolStepTracked
      <4>3. CASE UNCHANGED allVars
        <5>1. stakes' = stakes /\ pools' = pools /\ users' = users
          BY <4>3 DEF allVars, minerVars, vars, stakeVars
        <5> QED BY <5>1, SameTracked
      <4> QED BY <1>1, <2>2, <4>1, <4>2, <4>3 DEF MinerNext
    <3>2. Found(p, a)
      BY <1>1, <3>1, SyncFinds DEF Found
    <3> QED BY <3>1, <3>2
  <2> QED BY <2>1, <2>2
<1>2. MinerInv /\ [MinerNext]_allVars => [Tracks]_allVars
  BY <1>1
<1>3. MinerSpec => [][Tracks]_allVars
  <2> HIDE DEF Tracks
  <2> QED BY <1>2, MinerInvariance, PTL DEF MinerSpec
<1>4. Tracks => \A p \in PoolIds, a \in Accounts : config'.init_done = config.init_done =>
         /\ Tracked(p, a) =>
              \/ Tracked(p, a)'
              \/ /\ ~ pools'[p].initialized
                 /\ \/ Passed(p, a) /\ stakes'[a].amount # stakes[a].amount
                    \/ \E u \in Accounts : NameOrder[u] > NameOrder[a] /\ SyncUser(p, u)
         /\ \/ pools[p].initialized /\ stakes'[a].amount # stakes[a].amount
            \/ SyncUser(p, a)
            => users'[p][a].stake_amount = stakes'[a].amount
  BY DEF StaysTracked, Excused, Found
<1> QED BY <1>3, <1>4, PTL DEF TracksStakes
=============================================================================
