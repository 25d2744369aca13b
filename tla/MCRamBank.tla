------------------------------- MODULE MCRamBank -------------------------------
(* Small instances of RamBank for TLC. *)
EXTENDS RamBank, TLC

AccountSymmetry == Permutations(Accounts)

(* Rewards under a fixed configuration, written once so that transfers and
   rent are open. *)
RewardsNext ==
    \/ \E t \in Tokens : AddRentToken(t)
    \/ TransStatus(FALSE)
    \/ LedgerNext

RewardsSpec == Init /\ [][RewardsNext]_bankVars

=============================================================================
