--------------------------------- MODULE MCRamX --------------------------------
(* Small instances of RamX for TLC. *)
EXTENDS RamX, TLC

AccountSymmetry == Permutations(Accounts)

(* Trading under settings written once, with deposits and withdrawals between
   the steps of the exchange. *)
TradingNext ==
    \/ \E ratio \in TradeFeeRatios : FeeConfig(ratio)
    \/ ExchangeNext
    \/ LedgerNext /\ UNCHANGED exchangeVars

TradingSpec == XInit /\ [][TradingNext]_vars

=============================================================================
