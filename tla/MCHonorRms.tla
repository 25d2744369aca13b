------------------------------ MODULE MCHonorRms ------------------------------
(* Small instances of HonorRms for TLC. *)
EXTENDS HonorRms, TLC

CONSTANTS dao, alice, bob

MCNames    == alice :> 1 @@ bob :> 2 @@ dao :> 3
MCMinted   == alice :> 1 @@ bob :> 1 @@ dao :> 1
MCDeposits == dao :> 5 @@ alice :> 0 @@ bob :> 0
MCBorrows  == dao :> 0 @@ alice :> 0 @@ bob :> 5
MCRentTokens ==
    [t \in Tokens |-> [listed |-> TRUE, enabled |-> TRUE, total_rent_received |-> 0,
                       acc_per_share |-> 0, total_reward |-> 0, reward_balance |-> 0]]
MCRents    == [t \in Tokens |-> [a \in Accounts |-> 0]]
MCRewards  == [t \in Tokens |-> [a \in Accounts |-> NoReward]]

(* RAMS change hands from one account only; what is disabled stays so. *)
RamsHistory ==
    \/ SetSwap(TRUE)
    \/ \E a \in Holders, n \in Nums : Burn(a, n)
    \/ \E a \in Holders, n \in SwapBytes : Swap(a, n)
    \/ \E n \in RamsAmounts : RamsMoved(alice, bob, n)

(* Of stake.rms, the migration, the claims of the rent and the clock. *)
HonorsNext ==
    \/ HonorNext /\ (honorConfig.disabled_convert => UNCHANGED honorConfig)
    \/ RamsHistory /\ UNCHANGED <<vars, honorVars>>
    \/ /\ Initialize \/ Tick \/ \E a \in Accounts : Claim(a)
       /\ UNCHANGED <<swapVars, honorVars>>

HonorsSpec == HonorInit /\ [][HonorsNext]_allVars

=============================================================================
