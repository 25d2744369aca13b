------------------------------ MODULE MCMinerRms ------------------------------
(* Small instances of MinerRms for TLC. *)
EXTENDS MinerRms, TLC

CONSTANTS dao, alice, bob

MCOrder    == alice :> 1 @@ bob :> 2 @@ dao :> 3
MCDeposits == dao :> 1 @@ alice :> 0 @@ bob :> 0
MCBorrows  == dao :> 0 @@ alice :> 1 @@ bob :> 0
MCNothing  == [t \in Tokens |-> [a \in Accounts |-> 0]]
MCTable    == [t \in Tokens |-> NoToken]
MCRewards  == [t \in Tokens |-> [a \in Accounts |-> NoReward]]

MCRows == {[min_unstake_amount |-> 1, unstake_expire_seconds |-> 1,
            max_withdraw_rows |-> 1, max_stake_amount |-> 2]}

(* The migration is over before pools are added: what a pool is paid on is the
   stakes, and the actions of stake.rms that change none are left out. *)
MiningNext ==
    \/ Initialize /\ UNCHANGED minerVars
    \/ config.init_done /\ NotifyingNext
    \/ config.init_done /\ PoolNext

MiningSpec == MinerInit /\ [][MiningNext]_allVars /\ InitFairness

=============================================================================
