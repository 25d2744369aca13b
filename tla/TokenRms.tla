-------------------------------- MODULE TokenRms --------------------------------
(***************************************************************************)
(* The token contract token.rms, composed with stake.rms: V is issued for  *)
(* RAM that goes to bank.rms, and for A with which the contract first buys *)
(* RAM.                                                                    *)
(*                                                                         *)
(* A transfer of A only notes its sender in the config and sends buyram;   *)
(* the V is issued when eosio logs the purchase.  In between, the sender,  *)
(* when it is a contract, can have more A sent, or RAM bought or           *)
(* transferred, in the same transaction: these inline actions run first.   *)
(* So conversions of one transaction are steps of their own here, and a    *)
(* transaction that fails takes all of them back.                          *)
(***************************************************************************)
EXTENDS StakeRms, Sequences

CONSTANTS
    Issuer,    \* token.rms itself, the issuer of V
    None,      \* the empty name
    MaxNested  \* bound of the instance: purchases waiting in one transaction

ASSUME TokenAssumption ==
    /\ Issuer \in Accounts /\ None \notin Accounts /\ MaxNested \in Nat

VARIABLES
    supply,       \* supply of V in the stat table
    balance,      \* the accounts table, stake.rms left to vBalance
    tokenConfig,  \* the config singleton of token.rms
    pending,      \* senders of A whose buyram has been sent and not logged
    saved         \* what an abort of the current transaction restores

ledger    == <<supply, balance>>
tokenVars == <<ledger, tokenConfig, pending, saved>>
allVars   == <<vars, tokenVars>>

NoTransaction == [supply |-> 0, balance |-> [a \in Accounts |-> 0], vaultRam |-> 0]
InTransaction == pending # <<>>

(* Every table holds rows of its type, and the supply is what the balances add up
   to; the payer is noted only inside a transaction, for a purchase that is still
   to be logged. *)
TokenTypeOK ==
    /\ balance \in [Accounts -> Nat]
    /\ supply \in 0..MaxSupply
    /\ supply = SumFunctionOnSet(balance, Accounts) + vBalance
    /\ tokenConfig \in [ram2v_enabled : BOOLEAN, a2v_enabled : BOOLEAN,
                        payer : Accounts \cup {None}]
    /\ pending \in Seq(Accounts \ {Issuer})
    /\ tokenConfig.payer # None => pending # <<>> /\ tokenConfig.payer = Head(pending)

TokenInit ==
    /\ Init
    /\ supply = 0
    /\ balance = [a \in Accounts |-> 0]
    /\ tokenConfig = [ram2v_enabled |-> TRUE, a2v_enabled |-> TRUE, payer |-> None]
    /\ pending = <<>> /\ saved = NoTransaction

-----------------------------------------------------------------------------
(* Conversion. *)

(* Mutant: the RAM stays with token.rms. *)
BankedNone(bytes) == vaultRam

Banked(bytes) == vaultRam + bytes

(* issue_v: its three inline actions. *)
IssueV(to, bytes) ==
    /\ bytes > 0
    /\ to # Issuer
    /\ supply + bytes <= MaxSupply
    /\ vaultRam' = Banked(bytes)
    /\ supply' = supply + bytes
    /\ balance' = [balance EXCEPT ![to] = @ + bytes]
    /\ UNCHANGED <<config, stakeVars, borrows, rewardVars, now>>

(* RAM transferred to token.rms. *)
RamToV(from, bytes) ==
    /\ tokenConfig.ram2v_enabled
    /\ IssueV(from, bytes)
    /\ UNCHANGED <<tokenConfig, pending, saved>>

(* Mutant: a payer that is noted stays. *)
PayerNotedOnce(from) ==
    [tokenConfig EXCEPT !.payer = IF @ = None THEN from ELSE @]

PayerNoted(from) == [tokenConfig EXCEPT !.payer = from]

(* on_atransfer; the first of a transaction is where an abort goes back to. *)
SendA(from) ==
    /\ from # Issuer
    /\ tokenConfig.a2v_enabled
    /\ tokenConfig' = PayerNoted(from)
    /\ pending' = <<from>> \o pending
    /\ saved' = IF InTransaction THEN saved
                ELSE [supply |-> supply, balance |-> balance, vaultRam |-> vaultRam]
    /\ UNCHANGED <<vars, ledger>>

(* Mutant: the payer is left in the config. *)
PayerKept == tokenConfig

PayerCleared == [tokenConfig EXCEPT !.payer = None]

(* on_logbuyram for the purchase sent last: without a payer V would be issued to
   token.rms itself, which issue_v refuses. *)
LogBuyRam(bytes) ==
    /\ InTransaction
    /\ tokenConfig.payer # None
    /\ IssueV(tokenConfig.payer, bytes)
    /\ tokenConfig' = PayerCleared
    /\ pending' = Tail(pending)
    /\ saved' = IF Tail(pending) = <<>> THEN NoTransaction ELSE saved

(* on_logbuyram for RAM that somebody else buys for token.rms: no setting is
   looked at. *)
DirectBuy(payer, bytes) ==
    /\ IssueV(payer, bytes)
    /\ UNCHANGED <<tokenConfig, pending, saved>>

Abort ==
    /\ InTransaction
    /\ supply' = saved.supply /\ balance' = saved.balance /\ vaultRam' = saved.vaultRam
    /\ tokenConfig' = [tokenConfig EXCEPT !.payer = None]
    /\ pending' = <<>> /\ saved' = NoTransaction
    /\ UNCHANGED <<config, stakeVars, borrows, rewardVars, now>>

-----------------------------------------------------------------------------
(* The ledger. *)

OutOfTransaction == UNCHANGED <<pending, saved>>

SetConfig(ram2v, a2v) ==
    /\ tokenConfig' = [tokenConfig EXCEPT !.ram2v_enabled = ram2v, !.a2v_enabled = a2v]
    /\ OutOfTransaction
    /\ UNCHANGED <<vars, ledger>>

Issue(amount) ==
    /\ amount <= MaxSupply - supply
    /\ supply' = supply + amount
    /\ balance' = [balance EXCEPT ![Issuer] = @ + amount]
    /\ OutOfTransaction
    /\ UNCHANGED <<vars, tokenConfig>>

Retire(amount) ==
    /\ amount <= balance[Issuer]
    /\ supply' = supply - amount
    /\ balance' = [balance EXCEPT ![Issuer] = @ - amount]
    /\ OutOfTransaction
    /\ UNCHANGED <<vars, tokenConfig>>

Transfer(a, b, amount) ==
    /\ a # b
    /\ amount <= balance[a]
    /\ balance' = [balance EXCEPT ![a] = @ - amount, ![b] = @ + amount]
    /\ OutOfTransaction
    /\ UNCHANGED <<vars, supply, tokenConfig>>

(* A transfer to stake.rms, which stakes it or ignores it. *)
TransferToStake(a, amount) ==
    /\ amount <= balance[a]
    /\ OnStake(a, amount) \/ IgnoredV(amount)
    /\ balance' = [balance EXCEPT ![a] = @ - amount]
    /\ OutOfTransaction
    /\ UNCHANGED <<supply, tokenConfig>>

(* stake.rms pays out the V of expired rows. *)
WithdrawV(a) ==
    /\ Withdraw(a)
    /\ balance' = [balance EXCEPT ![a] = @ + (vBalance - vBalance')]
    /\ OutOfTransaction
    /\ UNCHANGED <<supply, tokenConfig>>

-----------------------------------------------------------------------------

(* What may run inside a transaction that buys RAM. *)
ConversionNext ==
    \/ \E a \in Accounts, n \in Amounts : RamToV(a, n)
    \/ \E a \in Accounts : Len(pending) < MaxNested /\ SendA(a)
    \/ \E n \in Amounts : LogBuyRam(n)
    \/ \E a \in Accounts, n \in Amounts : DirectBuy(a, n)
    \/ Abort

LedgerNext ==
    \/ \E r, a \in BOOLEAN : SetConfig(r, a)
    \/ \E n \in Amounts : Issue(n)
    \/ \E n \in Amounts : Retire(n)
    \/ \E a, b \in Accounts, n \in Amounts : Transfer(a, b, n)
    \/ \E a \in Accounts, n \in Amounts : TransferToStake(a, n)
    \/ \E a \in Accounts : WithdrawV(a)

(* The actions of stake.rms that move no V. *)
StakeOnlyNext ==
    /\ \/ OwnNext
       \/ \E a \in Accounts, n \in Amounts \cup {0} : Unstake(a, n)
       \/ \E a \in Accounts, i \in UnstakeIds : Restake(a, i)
       \/ \E a \in Accounts, n \in Amounts : Rams2V(a, n)
       \/ \E a \in Accounts, n \in Amounts : RepayRam(a, n)
       \/ RentNext
       \/ Tick
    /\ UNCHANGED tokenVars

TokenNext == ConversionNext \/ (~ InTransaction /\ (LedgerNext \/ StakeOnlyNext))

TokenSpec == TokenInit /\ [][TokenNext]_allVars

-----------------------------------------------------------------------------
(* Properties. *)

(* What is committed: the transaction that is running can still abort. *)
Committed == IF InTransaction THEN saved
             ELSE [supply |-> supply, balance |-> balance, vaultRam |-> vaultRam]

Owned(a) == stakes[a].amount + stakes[a].unstaking_amount

(* How the state of the two contracts is one of the ledger. *)
Wealth  == [a \in Accounts |-> Committed.balance[a] + Owned(a)]
Fund    == vBalance - SumFunctionOnSet([a \in Accounts |-> Owned(a)], Accounts)
Backing == Committed.vaultRam + stat.used_amount

Ledger == INSTANCE VLedger WITH
    Owners <- Accounts, Deposits <- BankDeposits,
    InitialBacking <- InitialVaultRam + InitialAmount,
    wealth <- Wealth, fund <- Fund, supply <- Committed.supply, backing <- Backing,
    migrated <- config.init_done

(* The two contracts together keep the promise of VLedger: V appears only with as
   much RAM at bank.rms or on loan, and staking, unstaking, restaking,
   withdrawing and lending leave everybody's V and the RAM behind it alone. *)
KeepsLedger == Ledger!LedgerSpec

(* V bought with A goes to the sender of that A and to nobody else, also when
   another transfer of A arrives before the RAM is bought. *)
BuyerCredited ==
    [][InTransaction /\ supply' > supply /\ Len(pending') < Len(pending) =>
         balance' = [balance EXCEPT ![Head(pending)] = @ + (supply' - supply)]]_allVars

=============================================================================
