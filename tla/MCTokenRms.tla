------------------------------ MODULE MCTokenRms ------------------------------
(* Small instances of TokenRms for TLC. *)
EXTENDS TokenRms, TLC

CONSTANTS dao, alice, token

MCDeposits == dao :> 1 @@ alice :> 0 @@ token :> 0
MCBorrows  == dao :> 0 @@ alice :> 1 @@ token :> 0
MCNothing  == [t \in Tokens |-> [a \in Accounts |-> 0]]
MCTable    == [t \in Tokens |-> NoToken]
MCRewards  == [t \in Tokens |-> [a \in Accounts |-> NoReward]]

(* V and stake move through one account, to which the others send theirs; the
   settings of stake.rms stay as they are. *)
PegNext ==
    \/ ConversionNext
    \/ ~ InTransaction /\
       (\/ \E r, a \in BOOLEAN : SetConfig(r, a)
        \/ \E n \in Amounts : Issue(n)
        \/ \E n \in Amounts : Retire(n)
        \/ \E a \in {dao, token}, n \in Amounts : Transfer(a, alice, n)
        \/ \E a \in {alice, token}, n \in Amounts : TransferToStake(a, n)
        \/ WithdrawV(alice)
        \/ /\ \/ Initialize
              \/ \E n \in Amounts : Borrow(alice, n)
              \/ \E n \in Amounts : Unstake(alice, n)
              \/ \E i \in UnstakeIds : Restake(alice, i)
              \/ \E n \in Amounts : Rams2V(alice, n)
              \/ \E n \in Amounts : RepayRam(alice, n)
              \/ Tick
           /\ UNCHANGED tokenVars)

PegSpec == TokenInit /\ [][PegNext]_allVars

=============================================================================
