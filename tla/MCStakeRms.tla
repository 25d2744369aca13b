------------------------------ MODULE MCStakeRms ------------------------------
(* Small instances of StakeRms for TLC. *)
EXTENDS StakeRms, TLC

CONSTANTS dao, alice

(* The tables of rambank.eos at the migration: RAMS_DAO holds the deposit and
   the other account the loan; a reward of 1 was swept and its half claimed. *)
MCDeposits == dao :> 2 @@ alice :> 0
MCBorrows  == dao :> 0 @@ alice :> 2
MCRentTokens ==
    [t \in Tokens |-> [listed |-> TRUE, enabled |-> TRUE, total_rent_received |-> 2,
                       acc_per_share |-> 1, total_reward |-> 1, reward_balance |-> 1]]
MCRents   == [t \in Tokens |-> dao :> 0 @@ alice :> 2]
MCRewards == [t \in Tokens |-> [a \in Accounts |-> NoReward]]

Settings(expiry, rows, limit) ==
    [min_unstake_amount |-> 1, unstake_expire_seconds |-> expiry,
     max_withdraw_rows |-> rows, max_stake_amount |-> limit]

VaultRows   == {Settings(1, 1, 3)}
RewardsRows == {Settings(1, 2, 3)}

(* RAMS_DAO swapping its own RAMS again and again gains or loses one unit each
   time: the bound of the instance. *)
RoundingBounded == \A t \in Tokens : rewards'[t][RamsDao].unclaimed \in -1..3

(* Rewards: the actions that list a token, change a stake or move a reward, and the
   loan without which there is no rent before the migration. *)
RewardsNext ==
    \/ Initialize
    \/ \E row \in ConfigRows : Config(row)
    \/ \E t \in Tokens : AddRentToken(t)
    \/ \E n \in Amounts : ~ config.init_done /\ Borrow(RamsDao, n)
    \/ \E a \in Accounts, n \in Amounts : vBalance + n <= MaxSupply /\ OnStake(a, n)
    \/ \E a \in Accounts, n \in Amounts \cup {0} : Unstake(a, n)
    \/ \E a \in Accounts, i \in UnstakeIds : Restake(a, i)
    \/ \E a \in Accounts, n \in Amounts : Rams2V(a, n) /\ RoundingBounded
    \/ RentNext

RewardsSpec == Init /\ [][RewardsNext]_vars

(* The shortest histories in which a restake or a withdrawal is refused or
   granted: no loan and no swap. *)
StakingNext ==
    \/ Initialize
    \/ \E row \in ConfigRows : Config(row)
    \/ \E n \in Amounts : vBalance + n <= MaxSupply /\ OnStake(alice, n)
    \/ \E n \in Amounts \cup {0} : Unstake(alice, n)
    \/ \E i \in UnstakeIds : Restake(alice, i)
    \/ Withdraw(alice)
    \/ Tick

StakingSpec == Init /\ [][StakingNext]_vars

=============================================================================
