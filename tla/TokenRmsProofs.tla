---------------------------- MODULE TokenRmsProofs ----------------------------
(***************************************************************************)
(* Proofs about token.rms composed with stake.rms: the supply is what the  *)
(* balances and the vault hold, an aborted transaction leaves no V behind, *)
(* the V bought with A goes to the account that sent that A, and the two   *)
(* contracts keep the promise of VLedger.                                  *)
(***************************************************************************)
EXTENDS TokenRms, StakeRmsProofs

BalanceTotal == SumFunctionOnSet(balance, Accounts)
SavedTotal   == SumFunctionOnSet(saved.balance, Accounts)

(* What an abort of the transaction that is running restores: as much less V as
   there is less RAM behind it.  Since the transaction began, nobody lost V, the
   issuer gained none, and the V of stake.rms did not move. *)
Restorable ==
    /\ saved.supply \in 0..MaxSupply /\ saved.vaultRam \in Nat
    /\ saved.balance \in [Accounts -> Nat]
    /\ saved.supply = SavedTotal + vBalance
    /\ saved.supply <= supply
    /\ supply - saved.supply = vaultRam - saved.vaultRam
    /\ \A a \in Accounts : saved.balance[a] <= balance[a]
    /\ saved.balance[Issuer] = balance[Issuer]

(* The inductive invariant: that of stake.rms, the types and the supply of
   token.rms, and that the running transaction can be taken back. *)
TokenInv ==
    /\ IndInv
    /\ TokenTypeOK
    /\ InTransaction => Restorable

-----------------------------------------------------------------------------
(* The invariant of stake.rms in the composed system. *)

(* RAM that comes to bank.rms by a conversion, or leaves it by an abort, is none
   of the business of stake.rms. *)
LEMMA VaultRamSafe ==
    ASSUME IndInv, vaultRam' \in Nat, UNCHANGED <<config, stakeVars, borrows, rewardVars, now>>
    PROVE  IndInv'
<1>1. /\ UNCHANGED <<stat, stakes, unstakes, borrows, vBalance, vIgnored>>
      /\ config' = config /\ UNCHANGED rewardVars
      /\ config \in ConfigRow /\ now' \in Nat /\ stakes \in [Accounts -> StakeRow]
  BY DEF IndInv, VaultInv, VaultTypes, stakeVars
<1>2. VaultInv'
  BY <1>1, VaultSame DEF IndInv
<1>3. RewardInv'
  BY <1>1, RewardsSame DEF IndInv
<1> QED BY <1>2, <1>3 DEF IndInv

(* A conversion or an abort keeps the invariant of stake.rms. *)
LEMMA ConversionKeepsStake ==
    ASSUME TokenInv, ConversionNext
    PROVE  IndInv'
<1>1. IndInv /\ vaultRam \in Nat /\ \A n \in Amounts : n \in Nat
  BY StakeAssumption DEF TokenInv, IndInv, VaultInv, VaultTypes
<1>2. CASE \E a \in Accounts, n \in Amounts : IssueV(a, n)
  <2>1. PICK a \in Accounts, n \in Amounts : IssueV(a, n)
    BY <1>2
  <2>2. vaultRam' \in Nat /\ UNCHANGED <<config, stakeVars, borrows, rewardVars, now>>
    BY <1>1, <2>1 DEF IssueV, Banked
  <2> QED BY <1>1, <2>2, VaultRamSafe
<1>3. CASE UNCHANGED vars
  BY <1>1, <1>3, IdleSafe DEF SafeStep
<1>4. CASE Abort
  <2>1. vaultRam' \in Nat /\ UNCHANGED <<config, stakeVars, borrows, rewardVars, now>>
    BY <1>4 DEF Abort, TokenInv, Restorable
  <2> QED BY <1>1, <2>1, VaultRamSafe
<1>5. CASE \E n \in Amounts : LogBuyRam(n)
  <2>1. tokenConfig.payer # None => tokenConfig.payer \in Accounts
    BY DEF TokenInv, TokenTypeOK
  <2>2. \E a \in Accounts, n \in Amounts : IssueV(a, n)
    BY <1>5, <2>1 DEF LogBuyRam
  <2> QED BY <1>2, <2>2
<1>6. CASE \E a \in Accounts : SendA(a)
  BY <1>3, <1>6 DEF SendA
<1>7. CASE \E a \in Accounts, n \in Amounts : RamToV(a, n) \/ DirectBuy(a, n)
  BY <1>2, <1>7 DEF RamToV, DirectBuy
<1> QED BY <1>4, <1>5, <1>6, <1>7 DEF ConversionNext

(* A transfer of V keeps the invariant of stake.rms, whoever holds the V. *)
LEMMA LedgerKeepsStake ==
    ASSUME TokenInv, LedgerNext
    PROVE  IndInv'
<1>1. IndInv /\ \A n \in Amounts : n \in Nat
  BY StakeAssumption DEF TokenInv
<1>2. CASE UNCHANGED vars
  BY <1>1, <1>2, IdleSafe DEF SafeStep
<1>3. CASE \E a \in Accounts, n \in Amounts : TransferToStake(a, n)
  <2>1. PICK a \in Accounts, n \in Amounts : TransferToStake(a, n)
    BY <1>3
  <2>2. OnStake(a, n) \/ IgnoredV(n)
    BY <2>1 DEF TransferToStake
  <2>3. n \in Nat
    BY <1>1
  <2>4. CASE OnStake(a, n)
    BY <1>1, <2>3, <2>4, StakerSafe DEF SafeStep
  <2>5. CASE IgnoredV(n)
    BY <1>1, <2>3, <2>5, SentSafe DEF SafeStep
  <2> QED BY <2>2, <2>4, <2>5
<1>4. CASE \E a \in Accounts : WithdrawV(a)
  <2>1. PICK a \in Accounts : Withdraw(a)
    BY <1>4 DEF WithdrawV
  <2> QED BY <1>1, <2>1, StakerSafe DEF SafeStep
<1> QED BY <1>2, <1>3, <1>4 DEF LedgerNext, SetConfig, Issue, Retire, Transfer

(* What stake.rms does without moving V keeps its invariant. *)
LEMMA StakeOnlyKeepsStake ==
    ASSUME TokenInv, StakeOnlyNext
    PROVE  IndInv'
<1>1. IndInv /\ \A n \in Amounts \cup {0} : n \in Nat
  BY StakeAssumption DEF TokenInv
<1>2. CASE \/ \E a \in Accounts, n \in Amounts \cup {0} : Unstake(a, n)
           \/ \E a \in Accounts, i \in UnstakeIds : Restake(a, i)
           \/ \E a \in Accounts, n \in Amounts : Rams2V(a, n)
  BY <1>1, <1>2, StakerSafe DEF SafeStep
<1>3. CASE \E a \in Accounts, n \in Amounts : RepayRam(a, n)
  BY <1>1, <1>3, SentSafe DEF SafeStep
<1>4. CASE OwnNext
  BY <1>1, <1>4, OwnSafe DEF SafeStep
<1>5. CASE RentNext
  BY <1>1, <1>5, RentSafe DEF SafeStep
<1>6. CASE Tick
  BY <1>1, <1>6, IdleSafe DEF SafeStep
<1> QED BY <1>2, <1>3, <1>4, <1>5, <1>6 DEF StakeOnlyNext

-----------------------------------------------------------------------------
(* The balances and the supply. *)

(* One balance changes, and the total as much. *)
LEMMA BalanceRow ==
    ASSUME balance \in [Accounts -> Nat], balance' \in [Accounts -> Nat], NEW a \in Accounts,
           \A x \in Accounts \ {a} : balance'[x] = balance[x]
    PROVE  /\ BalanceTotal \in Nat /\ BalanceTotal' \in Nat
           /\ BalanceTotal' = BalanceTotal + balance'[a] - balance[a]
<1>1. \A x \in Accounts : balance[x] \in Nat /\ balance'[x] \in Nat
  OBVIOUS
<1>2. BalanceTotal \in Nat /\ BalanceTotal' \in Nat
  BY <1>1, StakeAssumption, SumNat DEF BalanceTotal
<1>3. \A x \in Accounts : x # a => balance'[x] = balance[x]
  OBVIOUS
<1>4. BalanceTotal' = BalanceTotal + balance'[a] - balance[a]
  BY <1>1, <1>3, StakeAssumption, SumUpdate DEF BalanceTotal
<1> QED BY <1>2, <1>4

(* The types and the supply, in the terms of this module. *)
LEMMA TokenFacts ==
    ASSUME TokenInv
    PROVE  /\ balance \in [Accounts -> Nat] /\ supply \in 0..MaxSupply
           /\ supply \in Nat /\ MaxSupply \in Nat /\ supply <= MaxSupply
           /\ vBalance \in Nat /\ vaultRam \in Nat /\ BalanceTotal \in Nat
           /\ supply = BalanceTotal + vBalance
           /\ pending \in Seq(Accounts \ {Issuer})
           /\ tokenConfig.payer \in Accounts \cup {None}
           /\ \A a \in Accounts : balance[a] \in Nat /\ balance[a] <= BalanceTotal
           /\ Issuer \in Accounts /\ None \notin Accounts
<1>1. /\ balance \in [Accounts -> Nat] /\ supply \in 0..MaxSupply /\ MaxSupply \in Nat
      /\ vBalance \in Nat /\ vaultRam \in Nat
      /\ pending \in Seq(Accounts \ {Issuer}) /\ tokenConfig.payer \in Accounts \cup {None}
      /\ supply = BalanceTotal + vBalance
  BY StakeAssumption
     DEF TokenInv, TokenTypeOK, IndInv, VaultInv, VaultTypes, BalanceTotal
<1>2. \A a \in Accounts : balance[a] \in Nat
  BY <1>1
<1>3. BalanceTotal \in Nat /\ \A a \in Accounts : balance[a] <= BalanceTotal
  BY <1>2, StakeAssumption, SumNat, SumAtLeast DEF BalanceTotal
<1> QED BY <1>1, <1>2, <1>3, TokenAssumption

(* issue_v makes as much V for one account as it banks RAM. *)
LEMMA IssueVFacts ==
    ASSUME TokenInv, NEW to \in Accounts, NEW bytes \in Nat, IssueV(to, bytes)
    PROVE  /\ bytes > 0 /\ to # Issuer
           /\ supply' = supply + bytes /\ supply' \in 0..MaxSupply
           /\ vaultRam' = vaultRam + bytes
           /\ balance' \in [Accounts -> Nat]
           /\ balance' = [balance EXCEPT ![to] = @ + bytes]
           /\ supply' = BalanceTotal' + vBalance' /\ vBalance' = vBalance
           /\ balance'[to] = balance[to] + bytes
           /\ \A x \in Accounts \ {to} : balance'[x] = balance[x]
           /\ UNCHANGED <<config, stakeVars, borrows, rewardVars, now>>
<1>1. /\ balance \in [Accounts -> Nat] /\ supply \in Nat /\ MaxSupply \in Nat
      /\ vBalance \in Nat /\ BalanceTotal \in Nat /\ supply = BalanceTotal + vBalance
      /\ balance[to] \in Nat
  BY TokenFacts
<1>2. /\ bytes > 0 /\ to # Issuer /\ supply + bytes <= MaxSupply
      /\ supply' = supply + bytes /\ vaultRam' = vaultRam + bytes
      /\ balance' = [balance EXCEPT ![to] = @ + bytes]
      /\ UNCHANGED <<config, stakeVars, borrows, rewardVars, now>>
  BY DEF IssueV, Banked
<1>3. /\ balance' \in [Accounts -> Nat] /\ balance'[to] = balance[to] + bytes
      /\ \A x \in Accounts \ {to} : balance'[x] = balance[x]
  BY <1>1, <1>2
<1>4. BalanceTotal' = BalanceTotal + balance'[to] - balance[to]
  BY <1>1, <1>3, BalanceRow
<1>5. vBalance' = vBalance
  BY <1>2 DEF stakeVars
<1>6. supply' = BalanceTotal' + vBalance'
  BY <1>1, <1>2, <1>3, <1>4, <1>5
<1>7. supply' \in 0..MaxSupply
  BY <1>1, <1>2
<1> QED BY <1>2, <1>3, <1>5, <1>6, <1>7

(* While a transaction runs, V made keeps what an abort restores. *)
LEMMA IssueVRestorable ==
    ASSUME TokenInv, InTransaction, NEW to \in Accounts, NEW bytes \in Nat, IssueV(to, bytes),
           saved' = saved
    PROVE  Restorable'
<1>1. /\ Restorable /\ supply \in Nat /\ vaultRam \in Nat /\ Issuer \in Accounts
      /\ \A a \in Accounts : balance[a] \in Nat
  BY TokenFacts DEF TokenInv
<1>2. /\ to # Issuer /\ supply' = supply + bytes /\ vaultRam' = vaultRam + bytes
      /\ balance'[to] = balance[to] + bytes /\ vBalance' = vBalance
      /\ \A x \in Accounts \ {to} : balance'[x] = balance[x]
  BY IssueVFacts
<1>3. SavedTotal' = SavedTotal
  BY DEF SavedTotal
<1>4. saved.supply <= supply' /\ supply' - saved.supply = vaultRam' - saved.vaultRam
  BY <1>1, <1>2 DEF Restorable
<1>5. \A a \in Accounts : saved.balance[a] <= balance'[a]
  <2> SUFFICES ASSUME NEW a \in Accounts PROVE saved.balance[a] <= balance'[a]
    OBVIOUS
  <2>1. saved.balance[a] <= balance[a] /\ saved.balance[a] \in Nat /\ balance[a] \in Nat
    BY <1>1 DEF Restorable
  <2>2. CASE a = to
    BY <1>2, <2>1, <2>2
  <2>3. CASE a # to
    BY <1>2, <2>1, <2>3
  <2> QED BY <2>2, <2>3
<1>6. saved.balance[Issuer] = balance'[Issuer]
  BY <1>1, <1>2 DEF Restorable
<1> QED BY <1>1, <1>2, <1>3, <1>4, <1>5, <1>6 DEF Restorable

(* A conversion by RAM alone, in a transaction or not. *)
LEMMA ConvertedTypes ==
    ASSUME TokenInv, NEW to \in Accounts, NEW bytes \in Nat, IssueV(to, bytes),
           UNCHANGED <<tokenConfig, pending, saved>>
    PROVE  TokenTypeOK' /\ (InTransaction' => Restorable')
<1>1. TokenTypeOK'
  BY IssueVFacts DEF TokenInv, TokenTypeOK, BalanceTotal
<1>2. ASSUME InTransaction' PROVE Restorable'
  BY <1>2, IssueVRestorable DEF InTransaction
<1> QED BY <1>1, <1>2

(* The purchase logged is the one sent last; its payer is cleared. *)
LEMMA LogBuyRamTypes ==
    ASSUME TokenInv, NEW bytes \in Nat, LogBuyRam(bytes)
    PROVE  TokenTypeOK' /\ (InTransaction' => Restorable')
<1>1. /\ pending # <<>> /\ tokenConfig.payer # None /\ pending' = Tail(pending)
      /\ tokenConfig' = [tokenConfig EXCEPT !.payer = None]
      /\ IssueV(tokenConfig.payer, bytes)
      /\ Tail(pending) # <<>> => saved' = saved
  BY DEF LogBuyRam, InTransaction, PayerCleared
<1>2. tokenConfig.payer \in Accounts
  BY <1>1, TokenFacts
<1>3. /\ tokenConfig' \in [ram2v_enabled : BOOLEAN, a2v_enabled : BOOLEAN,
                           payer : Accounts \cup {None}]
      /\ tokenConfig'.payer = None
  BY <1>1 DEF TokenInv, TokenTypeOK
<1>4. pending' \in Seq(Accounts \ {Issuer})
  BY <1>1, TokenFacts
<1>5. /\ balance' \in [Accounts -> Nat] /\ supply' \in 0..MaxSupply
      /\ supply' = BalanceTotal' + vBalance'
  BY <1>1, <1>2, IssueVFacts
<1>6. TokenTypeOK'
  BY <1>3, <1>4, <1>5 DEF TokenTypeOK, BalanceTotal
<1>7. ASSUME InTransaction' PROVE Restorable'
  <2>1. InTransaction /\ saved' = saved
    BY <1>1, <1>7 DEF InTransaction
  <2> QED BY <1>1, <1>2, <2>1, IssueVRestorable
<1> QED BY <1>6, <1>7

(* A transfer of A notes its sender; the first one opens the transaction. *)
LEMMA SendATypes ==
    ASSUME TokenInv, NEW from \in Accounts, SendA(from)
    PROVE  TokenTypeOK' /\ (InTransaction' => Restorable')
<1>1. /\ from # Issuer /\ tokenConfig' = [tokenConfig EXCEPT !.payer = from]
      /\ pending' = <<from>> \o pending
      /\ saved' = IF InTransaction THEN saved
                  ELSE [supply |-> supply, balance |-> balance, vaultRam |-> vaultRam]
      /\ UNCHANGED <<vars, ledger>>
  BY DEF SendA, PayerNoted
<1>2. /\ vBalance' = vBalance /\ vaultRam' = vaultRam /\ supply' = supply
      /\ balance' = balance
  BY <1>1 DEF vars, stakeVars, loanVars, ledger
<1>3. /\ tokenConfig' \in [ram2v_enabled : BOOLEAN, a2v_enabled : BOOLEAN,
                           payer : Accounts \cup {None}]
      /\ tokenConfig'.payer = from
  BY <1>1 DEF TokenInv, TokenTypeOK
<1>4. /\ pending' \in Seq(Accounts \ {Issuer}) /\ pending' # <<>> /\ Head(pending') = from
  <2>1. pending \in Seq(Accounts \ {Issuer}) /\ from \in Accounts \ {Issuer}
    BY <1>1, TokenFacts
  <2> QED BY <1>1, <2>1
<1>5. TokenTypeOK'
  BY <1>2, <1>3, <1>4 DEF TokenInv, TokenTypeOK
<1>6. CASE InTransaction
  <2>1. Restorable /\ saved' = saved
    BY <1>1, <1>6 DEF TokenInv
  <2>2. SavedTotal' = SavedTotal
    BY <2>1 DEF SavedTotal
  <2> QED BY <1>2, <1>5, <2>1, <2>2 DEF Restorable
<1>7. CASE ~ InTransaction
  <2>1. saved' = [supply |-> supply, balance |-> balance, vaultRam |-> vaultRam]
    BY <1>1, <1>7
  <2>2. saved'.supply = supply /\ saved'.balance = balance /\ saved'.vaultRam = vaultRam
    BY <2>1
  <2>3. SavedTotal' = BalanceTotal
    BY <2>2 DEF SavedTotal, BalanceTotal
  <2>4. Restorable'
    BY <1>2, <2>2, <2>3, TokenFacts DEF Restorable
  <2> QED BY <1>5, <2>4
<1> QED BY <1>6, <1>7

(* An abort restores the balances, the supply and the RAM. *)
LEMMA AbortTypes ==
    ASSUME TokenInv, Abort
    PROVE  TokenTypeOK' /\ (InTransaction' => Restorable')
<1>1. /\ Restorable
      /\ supply' = saved.supply /\ balance' = saved.balance
      /\ tokenConfig' = [tokenConfig EXCEPT !.payer = None]
      /\ pending' = <<>> /\ vBalance' = vBalance
  BY DEF TokenInv, Abort, stakeVars
<1>2. BalanceTotal' = SavedTotal
  BY <1>1 DEF BalanceTotal, SavedTotal
<1>3. tokenConfig' \in [ram2v_enabled : BOOLEAN, a2v_enabled : BOOLEAN,
                        payer : Accounts \cup {None}]
      /\ tokenConfig'.payer = None
  BY <1>1 DEF TokenInv, TokenTypeOK
<1>4. TokenTypeOK'
  BY <1>1, <1>2, <1>3 DEF Restorable, TokenTypeOK, BalanceTotal
<1> QED BY <1>1, <1>4 DEF InTransaction

(* Outside a transaction, the V moved on the ledger and into and out of stake.rms
   adds up to the supply. *)
LEMMA LedgerTypes ==
    ASSUME TokenInv, IndInv', ~ InTransaction, LedgerNext
    PROVE  TokenTypeOK' /\ (InTransaction' => Restorable')
<1>1. /\ balance \in [Accounts -> Nat] /\ supply \in Nat /\ MaxSupply \in Nat
      /\ supply <= MaxSupply /\ vBalance \in Nat /\ vBalance' \in Nat /\ BalanceTotal \in Nat
      /\ supply = BalanceTotal + vBalance /\ Issuer \in Accounts
      /\ \A a \in Accounts : balance[a] \in Nat /\ balance[a] <= BalanceTotal
      /\ \A n \in Amounts : n \in Nat
  BY TokenFacts, StakeAssumption DEF IndInv, VaultInv, VaultTypes
<1>2. pending' = pending /\ ~ InTransaction'
  BY DEF LedgerNext, SetConfig, Issue, Retire, Transfer, TransferToStake, WithdrawV,
         OutOfTransaction, InTransaction
<1>3. tokenConfig' \in [ram2v_enabled : BOOLEAN, a2v_enabled : BOOLEAN,
                        payer : Accounts \cup {None}]
      /\ tokenConfig'.payer = tokenConfig.payer
  <2>1. tokenConfig \in [ram2v_enabled : BOOLEAN, a2v_enabled : BOOLEAN,
                         payer : Accounts \cup {None}]
    BY DEF TokenInv, TokenTypeOK
  <2>2. CASE \E r, e \in BOOLEAN : SetConfig(r, e)
    <3>1. PICK r \in BOOLEAN, e \in BOOLEAN : SetConfig(r, e)
      BY <2>2
    <3>2. tokenConfig' = [tokenConfig EXCEPT !.ram2v_enabled = r, !.a2v_enabled = e]
      BY <3>1 DEF SetConfig
    <3> QED BY <2>1, <3>2, Zenon
  <2>3. CASE tokenConfig' = tokenConfig
    BY <2>1, <2>3
  <2> QED BY <2>2, <2>3 DEF LedgerNext, Issue, Retire, Transfer, TransferToStake, WithdrawV
<1>4. ASSUME balance' \in [Accounts -> Nat], supply' \in 0..MaxSupply,
             supply' = BalanceTotal' + vBalance'
      PROVE  TokenTypeOK'
  BY <1>2, <1>3, <1>4 DEF TokenInv, TokenTypeOK, BalanceTotal
<1>5. CASE \E r, e \in BOOLEAN : SetConfig(r, e)
  <2>1. supply' = supply /\ balance' = balance /\ vBalance' = vBalance
    BY <1>5 DEF SetConfig, vars, stakeVars, ledger
  <2> QED BY <1>1, <1>2, <1>4, <2>1 DEF BalanceTotal
<1>6. CASE \E n \in Amounts : Issue(n)
  <2>1. PICK n \in Amounts : Issue(n)
    BY <1>6
  <2>2. /\ n \in Nat /\ n <= MaxSupply - supply /\ supply' = supply + n
        /\ balance' = [balance EXCEPT ![Issuer] = @ + n] /\ vBalance' = vBalance
    BY <1>1, <2>1 DEF Issue, vars, stakeVars
  <2>3. /\ balance' \in [Accounts -> Nat] /\ balance'[Issuer] = balance[Issuer] + n
        /\ \A x \in Accounts \ {Issuer} : balance'[x] = balance[x]
    BY <1>1, <2>2
  <2>4. BalanceTotal' = BalanceTotal + balance'[Issuer] - balance[Issuer]
    BY <1>1, <2>3, BalanceRow
  <2>5. supply' = BalanceTotal' + vBalance' /\ supply' \in 0..MaxSupply
    BY <1>1, <2>2, <2>3, <2>4
  <2> QED BY <1>2, <1>4, <2>3, <2>5
<1>7. CASE \E n \in Amounts : Retire(n)
  <2>1. PICK n \in Amounts : Retire(n)
    BY <1>7
  <2>2. /\ n \in Nat /\ n <= balance[Issuer] /\ supply' = supply - n
        /\ balance' = [balance EXCEPT ![Issuer] = @ - n] /\ vBalance' = vBalance
    BY <1>1, <2>1 DEF Retire, vars, stakeVars
  <2>3. /\ balance' \in [Accounts -> Nat] /\ balance'[Issuer] = balance[Issuer] - n
        /\ \A x \in Accounts \ {Issuer} : balance'[x] = balance[x]
    BY <1>1, <2>2
  <2>4. BalanceTotal' = BalanceTotal + balance'[Issuer] - balance[Issuer]
    BY <1>1, <2>3, BalanceRow
  <2>5. supply' = BalanceTotal' + vBalance' /\ supply' \in 0..MaxSupply
    BY <1>1, <2>2, <2>3, <2>4
  <2> QED BY <1>2, <1>4, <2>3, <2>5
<1>8. CASE \E a, b \in Accounts, n \in Amounts : Transfer(a, b, n)
  <2>1. PICK a \in Accounts, b \in Accounts, n \in Amounts : Transfer(a, b, n)
    BY <1>8
  <2>2. /\ n \in Nat /\ a # b /\ n <= balance[a] /\ supply' = supply /\ vBalance' = vBalance
        /\ balance' = [balance EXCEPT ![a] = @ - n, ![b] = @ + n]
    BY <1>1, <2>1 DEF Transfer, vars, stakeVars
  <2> DEFINE paid == [balance EXCEPT ![a] = @ - n]
  <2>3. /\ paid \in [Accounts -> Nat] /\ paid[a] = balance[a] - n
        /\ \A x \in Accounts : x # a => paid[x] = balance[x]
    BY <1>1, <2>2
  <2>4. /\ balance' \in [Accounts -> Nat] /\ balance'[b] = paid[b] + n
        /\ \A x \in Accounts : x # b => balance'[x] = paid[x]
    BY <1>1, <2>2
  <2> HIDE DEF paid
  <2>5. \A x \in Accounts : balance[x] \in Int /\ paid[x] \in Int /\ balance'[x] \in Int
    BY <1>1, <2>3, <2>4
  <2>6. SumFunctionOnSet(paid, Accounts) = BalanceTotal + paid[a] - balance[a]
    BY <2>3, <2>5, StakeAssumption, SumUpdate DEF BalanceTotal
  <2>7. BalanceTotal' = SumFunctionOnSet(paid, Accounts) + balance'[b] - paid[b]
    BY <2>4, <2>5, StakeAssumption, SumUpdate DEF BalanceTotal
  <2>8. BalanceTotal' = BalanceTotal
    BY <1>1, <2>2, <2>3, <2>4, <2>5, <2>6, <2>7
  <2> QED BY <1>1, <1>2, <1>4, <2>2, <2>4, <2>8
<1>9. CASE \E a \in Accounts, n \in Amounts : TransferToStake(a, n)
  <2>1. PICK a \in Accounts, n \in Amounts : TransferToStake(a, n)
    BY <1>9
  <2>2. /\ n \in Nat /\ n <= balance[a] /\ supply' = supply /\ vBalance' = vBalance + n
        /\ balance' = [balance EXCEPT ![a] = @ - n]
    BY <1>1, <2>1 DEF TransferToStake, OnStake, IgnoredV
  <2>3. /\ balance' \in [Accounts -> Nat] /\ balance'[a] = balance[a] - n
        /\ \A x \in Accounts \ {a} : balance'[x] = balance[x]
    BY <1>1, <2>2
  <2>4. BalanceTotal' = BalanceTotal + balance'[a] - balance[a]
    BY <1>1, <2>3, BalanceRow
  <2>5. supply' = BalanceTotal' + vBalance' /\ supply' \in 0..MaxSupply
    BY <1>1, <2>2, <2>3, <2>4
  <2> QED BY <1>2, <1>4, <2>3, <2>5
<1>10. CASE \E a \in Accounts : WithdrawV(a)
  <2>1. PICK a \in Accounts : WithdrawV(a)
    BY <1>10
  <2>2. PICK n \in Nat : vBalance' = vBalance - n
    <3>1. PICK S \in SUBSET Rows(a) : vBalance' = vBalance - AmountOf(a, S)
      BY <2>1 DEF WithdrawV, Withdraw
    <3>2. AmountOf(a, S) \in Nat
      <4> DEFINE f == [i \in UnstakeIds |-> unstakes[a][i].amount]
      <4>1. IsFiniteSet(Rows(a)) /\ \A i \in Rows(a) : f[i] \in Nat
        BY RowFacts DEF TokenInv, IndInv, VaultInv
      <4> HIDE DEF f
      <4>2. SumFunctionOnSet(f, S) \in Nat
        BY <4>1, SumPart
      <4> QED BY <4>2 DEF AmountOf, f
    <3> QED BY <3>1, <3>2
  <2>3. supply' = supply /\ balance' = [balance EXCEPT ![a] = @ + (vBalance - vBalance')]
    BY <2>1 DEF WithdrawV
  <2>4. /\ balance' \in [Accounts -> Nat] /\ balance'[a] = balance[a] + n
        /\ \A x \in Accounts \ {a} : balance'[x] = balance[x]
    <3>1. vBalance - vBalance' = n
      BY <1>1, <2>2
    <3> QED BY <1>1, <2>2, <2>3, <3>1
  <2>5. BalanceTotal' = BalanceTotal + balance'[a] - balance[a]
    BY <1>1, <2>4, BalanceRow
  <2>6. supply' = BalanceTotal' + vBalance' /\ supply' \in 0..MaxSupply
    BY <1>1, <2>2, <2>3, <2>4, <2>5
  <2> QED BY <1>2, <1>4, <2>4, <2>6
<1> QED BY <1>5, <1>6, <1>7, <1>8, <1>9, <1>10 DEF LedgerNext

(* What stake.rms does without moving V leaves the V it holds alone. *)
LEMMA StakeOnlyHolds ==
    ASSUME StakeOnlyNext
    PROVE  vBalance' = vBalance
  BY DEF StakeOnlyNext, OwnNext, RentNext, Initialize, Config, AddRentToken, Borrow, Unstake,
         Restake, Rams2V, RepayRam, Rent, Claim, IgnoredToken, Tick, stakeVars

(* What leaves the ledger alone keeps its invariant. *)
LEMMA TokenSame ==
    ASSUME TokenInv, IndInv', vBalance' = vBalance, vaultRam' = vaultRam \/ ~ InTransaction,
           UNCHANGED tokenVars
    PROVE  TokenInv'
<1>1. /\ supply' = supply /\ balance' = balance /\ tokenConfig' = tokenConfig
      /\ pending' = pending /\ saved' = saved
  BY DEF tokenVars, ledger
<1>2. TokenTypeOK'
  BY <1>1 DEF TokenInv, TokenTypeOK
<1>3. InTransaction' => InTransaction /\ vaultRam' = vaultRam
  BY <1>1 DEF InTransaction
<1>4. SavedTotal' = SavedTotal
  BY <1>1 DEF SavedTotal
<1>5. InTransaction' => Restorable'
  BY <1>1, <1>3, <1>4 DEF TokenInv, Restorable
<1> QED BY <1>2, <1>5 DEF TokenInv

(* Every step of the composed system keeps the invariant. *)
LEMMA TokenSafe ==
    ASSUME TokenInv, [TokenNext]_allVars
    PROVE  TokenInv'
<1>1. CASE ConversionNext
  <2>1. IndInv'
    BY <1>1, ConversionKeepsStake
  <2>2. \A n \in Amounts : n \in Nat
    BY StakeAssumption
  <2>3. TokenTypeOK' /\ (InTransaction' => Restorable')
    <3>1. CASE \E a \in Accounts, n \in Amounts : RamToV(a, n) \/ DirectBuy(a, n)
      BY <2>2, <3>1, ConvertedTypes DEF RamToV, DirectBuy
    <3>2. CASE \E n \in Amounts : LogBuyRam(n)
      BY <2>2, <3>2, LogBuyRamTypes
    <3>3. CASE \E a \in Accounts : SendA(a)
      BY <3>3, SendATypes
    <3>4. CASE Abort
      BY <3>4, AbortTypes
    <3> QED BY <1>1, <3>1, <3>2, <3>3, <3>4 DEF ConversionNext
  <2> QED BY <2>1, <2>3 DEF TokenInv
<1>2. CASE ~ InTransaction /\ LedgerNext
  <2>1. IndInv'
    BY <1>2, LedgerKeepsStake
  <2> QED BY <1>2, <2>1, LedgerTypes DEF TokenInv
<1>3. CASE ~ InTransaction /\ StakeOnlyNext
  <2>1. IndInv'
    BY <1>3, StakeOnlyKeepsStake
  <2>2. UNCHANGED tokenVars
    BY <1>3 DEF StakeOnlyNext
  <2> QED BY <1>3, <2>1, <2>2, StakeOnlyHolds, TokenSame
<1>4. CASE UNCHANGED allVars
  <2>1. UNCHANGED vars /\ UNCHANGED tokenVars
    BY <1>4 DEF allVars
  <2>2. IndInv'
    BY <2>1, IdleSafe DEF TokenInv, SafeStep
  <2>3. vBalance' = vBalance /\ vaultRam' = vaultRam
    BY <2>1 DEF vars, stakeVars, loanVars
  <2> QED BY <2>1, <2>2, <2>3, TokenSame
<1> QED BY <1>1, <1>2, <1>3, <1>4 DEF TokenNext

(* The initial states satisfy the invariant. *)
LEMMA TokenInitSafe == TokenInit => TokenInv
<1> SUFFICES ASSUME TokenInit PROVE TokenInv
  OBVIOUS
<1>1. IndInv
  BY InitSafe DEF TokenInit
<1>2. BalanceTotal = 0
  <2>1. \A a \in Accounts : balance[a] = 0
    BY DEF TokenInit
  <2> QED BY <2>1, StakeAssumption, SumZero DEF BalanceTotal
<1>3. supply = BalanceTotal + vBalance /\ supply \in 0..MaxSupply
  BY <1>2, StakeAssumption DEF TokenInit, Init
<1>4. /\ balance \in [Accounts -> Nat] /\ pending = <<>> /\ pending \in Seq(Accounts \ {Issuer})
      /\ tokenConfig.payer = None
      /\ tokenConfig \in [ram2v_enabled : BOOLEAN, a2v_enabled : BOOLEAN,
                          payer : Accounts \cup {None}]
  BY DEF TokenInit
<1>5. TokenTypeOK
  BY <1>3, <1>4 DEF TokenTypeOK, BalanceTotal
<1> QED BY <1>1, <1>4, <1>5 DEF TokenInv, InTransaction

-----------------------------------------------------------------------------
(* The steps of the ledger that the steps of the two contracts are. *)

LedgerStep == [Ledger!LedgerNext]_(Ledger!ledgerVars)

(* The ledger and the contracts add up alike. *)
LEMMA LedgerSum ==
    ASSUME NEW f, NEW S
    PROVE  Ledger!SumFunctionOnSet(f, S) = SumFunctionOnSet(f, S)
  BY DEF Ledger!SumFunctionOnSet, SumFunctionOnSet, Ledger!FoldFunctionOnSet,
         FoldFunctionOnSet, Ledger!MapThenFoldSet, MapThenFoldSet

(* Nothing that the ledger sees changes. *)
LEMMA StepSame ==
    ASSUME Wealth \in [Accounts -> Nat], Wealth' \in [Accounts -> Nat],
           \A x \in Accounts : Wealth'[x] = Wealth[x],
           UNCHANGED <<Fund, Committed.supply, Backing, config.init_done>>
    PROVE  LedgerStep
<1>1. Wealth' = Wealth
  OBVIOUS
<1> QED BY <1>1 DEF LedgerStep, Ledger!ledgerVars

(* A payment, of 0 perhaps. *)
LEMMA StepPay ==
    ASSUME NEW a \in Accounts, NEW b \in Accounts, NEW n \in Nat, a # b, n <= Wealth[a],
           Wealth \in [Accounts -> Nat], Wealth' \in [Accounts -> Nat],
           Wealth'[a] = Wealth[a] - n, Wealth'[b] = Wealth[b] + n,
           \A x \in Accounts \ {a, b} : Wealth'[x] = Wealth[x],
           UNCHANGED <<Fund, Committed.supply, Backing, config.init_done>>
    PROVE  LedgerStep
<1>1. CASE n = 0
  <2>1. \A x \in Accounts : Wealth'[x] = Wealth[x]
    BY <1>1
  <2> QED BY <2>1, StepSame
<1>2. CASE n # 0
  <2>1. Wealth' = [Wealth EXCEPT ![a] = @ - n, ![b] = @ + n]
    OBVIOUS
  <2>2. Ledger!Pay(a, b, n)
    BY <2>1 DEF Ledger!Pay
  <2>3. n \in Ledger!Payable(a)
    BY <1>2 DEF Ledger!Payable
  <2> QED BY <2>2, <2>3 DEF LedgerStep, Ledger!LedgerNext
<1> QED BY <1>1, <1>2

(* V given for the migrated deposits. *)
LEMMA StepGive ==
    ASSUME NEW a \in Accounts, NEW n \in Nat, n <= Wealth[a], Fund \in Int,
           Wealth \in [Accounts -> Nat], Wealth' \in [Accounts -> Nat],
           Wealth'[a] = Wealth[a] - n, \A x \in Accounts \ {a} : Wealth'[x] = Wealth[x],
           Fund' = Fund + n,
           UNCHANGED <<Committed.supply, Backing, config.init_done>>
    PROVE  LedgerStep
<1>1. CASE n = 0
  <2>1. Fund' = Fund /\ \A x \in Accounts : Wealth'[x] = Wealth[x]
    BY <1>1
  <2> QED BY <2>1, StepSame
<1>2. CASE n # 0
  <2>1. Wealth' = [Wealth EXCEPT ![a] = @ - n]
    OBVIOUS
  <2>2. Ledger!Give(a, n)
    BY <2>1 DEF Ledger!Give
  <2>3. n \in Ledger!Payable(a)
    BY <1>2 DEF Ledger!Payable
  <2> QED BY <2>2, <2>3 DEF LedgerStep, Ledger!LedgerNext
<1> QED BY <1>1, <1>2

(* The issuer issues for itself. *)
LEMMA StepIssue ==
    ASSUME NEW n \in Nat, Issuer \in Accounts, MaxSupply \in Nat,
           Committed.supply \in Nat, Committed.supply + n <= MaxSupply,
           Wealth \in [Accounts -> Nat], Wealth' \in [Accounts -> Nat],
           Wealth'[Issuer] = Wealth[Issuer] + n,
           \A x \in Accounts \ {Issuer} : Wealth'[x] = Wealth[x],
           Committed'.supply = Committed.supply + n,
           UNCHANGED <<Fund, Backing, config.init_done>>
    PROVE  LedgerStep
<1>1. CASE n = 0
  <2>1. UNCHANGED Committed.supply /\ \A x \in Accounts : Wealth'[x] = Wealth[x]
    BY <1>1
  <2> QED BY <2>1, StepSame
<1>2. CASE n # 0
  <2>1. Wealth' = [Wealth EXCEPT ![Issuer] = @ + n]
    OBVIOUS
  <2>2. Ledger!IssueOwn(n)
    BY <2>1 DEF Ledger!IssueOwn
  <2>3. n \in Ledger!Positive
    BY <1>2 DEF Ledger!Positive
  <2> QED BY <2>2, <2>3 DEF LedgerStep, Ledger!LedgerNext
<1> QED BY <1>1, <1>2

(* The issuer retires its own. *)
LEMMA StepRetire ==
    ASSUME NEW n \in Nat, Issuer \in Accounts, n <= Wealth[Issuer],
           Committed.supply \in Nat, n <= Committed.supply,
           Wealth \in [Accounts -> Nat], Wealth' \in [Accounts -> Nat],
           Wealth'[Issuer] = Wealth[Issuer] - n,
           \A x \in Accounts \ {Issuer} : Wealth'[x] = Wealth[x],
           Committed'.supply = Committed.supply - n,
           UNCHANGED <<Fund, Backing, config.init_done>>
    PROVE  LedgerStep
<1>1. CASE n = 0
  <2>1. UNCHANGED Committed.supply /\ \A x \in Accounts : Wealth'[x] = Wealth[x]
    BY <1>1
  <2> QED BY <2>1, StepSame
<1>2. CASE n # 0
  <2>1. Wealth' = [Wealth EXCEPT ![Issuer] = @ - n]
    OBVIOUS
  <2>2. Ledger!RetireOwn(n)
    BY <2>1 DEF Ledger!RetireOwn
  <2>3. n \in Ledger!Payable(Issuer)
    BY <1>2 DEF Ledger!Payable
  <2> QED BY <2>2, <2>3 DEF LedgerStep, Ledger!LedgerNext
<1> QED BY <1>1, <1>2

(* The migration. *)
LEMMA StepMigrate ==
    ASSUME ~ config.init_done, config'.init_done = TRUE,
           Wealth \in [Accounts -> Nat], Wealth' \in [Accounts -> Nat],
           \A x \in Accounts : Wealth'[x] = Wealth[x] + BankDeposits[x],
           Fund' = Fund - InitialAmount,
           UNCHANGED <<Committed.supply, Backing>>
    PROVE  LedgerStep
<1>1. Wealth' = [x \in Accounts |-> Wealth[x] + BankDeposits[x]]
  OBVIOUS
<1>2. Fund' = Fund - Ledger!SumFunctionOnSet(BankDeposits, Accounts)
  BY MigrationAssumption, LedgerSum
<1>3. Ledger!Migrate
  BY <1>1, <1>2 DEF Ledger!Migrate
<1> QED BY <1>3 DEF LedgerStep, Ledger!LedgerNext

(* A transaction that converts, for as many accounts as it likes: what each gains
   is what its balance rose by. *)
LEMMA StepConvert ==
    ASSUME Committed.balance \in [Accounts -> Nat], Committed'.balance \in [Accounts -> Nat],
           \A x \in Accounts : Committed.balance[x] <= Committed'.balance[x],
           Committed'.balance[Issuer] = Committed.balance[Issuer],
           Committed.supply \in 0..MaxSupply, Committed'.supply \in 0..MaxSupply,
           Committed.vaultRam \in Nat, Committed'.vaultRam \in Nat, vBalance \in Nat,
           Committed.supply = SumFunctionOnSet(Committed.balance, Accounts) + vBalance,
           Committed'.supply = SumFunctionOnSet(Committed'.balance, Accounts) + vBalance,
           Committed'.vaultRam - Committed.vaultRam = Committed'.supply - Committed.supply,
           stat.used_amount \in Nat, stakes \in [Accounts -> StakeRow],
           UNCHANGED <<stat, stakes, vBalance, config>>
    PROVE  LedgerStep
<1> DEFINE gain == [x \in Accounts |-> Committed'.balance[x] - Committed.balance[x]]
           made == SumFunctionOnSet(gain, Accounts)
           before == Committed.balance
           after == Committed'.balance
<1>1. /\ \A x \in Accounts : gain[x] \in Nat /\ before[x] \in Nat /\ after[x] \in Nat
      /\ \A x \in Accounts : after[x] = before[x] + gain[x]
      /\ Issuer \in Accounts /\ gain[Issuer] = 0 /\ MaxSupply \in Nat
  BY StakeAssumption, TokenAssumption
<1>2. gain = [x \in Accounts |-> gain[x]]
  OBVIOUS
<1> HIDE DEF gain
<1>3. made \in Nat /\ \A x \in Accounts : gain[x] <= made
  BY <1>1, StakeAssumption, SumNat, SumAtLeast
<1>4. SumFunctionOnSet(before, Accounts) \in Nat
  <2> HIDE DEF before
  <2> QED BY <1>1, StakeAssumption, SumNat
<1>5. SumFunctionOnSet(after, Accounts) = SumFunctionOnSet(before, Accounts) + made
  <2> HIDE DEF before, after
  <2> QED BY <1>1, StakeAssumption, SumPlus
<1>6. /\ Committed'.supply = Committed.supply + made
      /\ Committed'.vaultRam = Committed.vaultRam + made
      /\ made <= MaxSupply
  BY <1>1, <1>3, <1>4, <1>5
<1>7. gain \in [Accounts -> 0..MaxSupply]
  <2>1. \A x \in Accounts : gain[x] \in 0..MaxSupply
    BY <1>1, <1>3, <1>6
  <2> QED BY <1>2, <2>1
<1>8. \A x \in Accounts : Owned(x) \in Nat /\ Owned(x)' = Owned(x)
  BY DEF Owned, StakeRow
<1>9. Wealth' = [x \in Accounts |-> Wealth[x] + gain[x]]
  <2>1. \A x \in Accounts : after[x] + Owned(x) = before[x] + Owned(x) + gain[x]
    BY <1>1, <1>8
  <2>2. Wealth' = [x \in Accounts |-> after[x] + Owned(x)]
    BY <1>8 DEF Wealth
  <2>3. \A x \in Accounts : Wealth[x] = before[x] + Owned(x)
    BY DEF Wealth
  <2> QED BY <2>1, <2>2, <2>3
<1>10. Fund' = Fund
  BY DEF Fund, Owned
<1>11. Backing' = Backing + made
  BY <1>3, <1>6 DEF Backing
<1>12. Committed.supply + made <= MaxSupply
  BY <1>1, <1>6
<1>13. UNCHANGED config.init_done /\ Ledger!SumFunctionOnSet(gain, Accounts) = made
  BY LedgerSum
<1> HIDE DEF made
<1>14. Ledger!Convert(gain)
  BY <1>1, <1>6, <1>9, <1>10, <1>11, <1>12, <1>13 DEF Ledger!Convert
<1> QED BY <1>7, <1>14 DEF LedgerStep, Ledger!LedgerNext

-----------------------------------------------------------------------------
(* The steps of the contracts. *)

(* What accounts own in stake.rms adds up to the stakes and what is unstaking. *)
LEMMA OwnedSum ==
    ASSUME NEW table \in [Accounts -> StakeRow]
    PROVE  SumFunctionOnSet([a \in Accounts |-> table[a].amount + table[a].unstaking_amount],
                            Accounts)
             = SumFunctionOnSet([a \in Accounts |-> table[a].amount], Accounts)
                 + SumFunctionOnSet([a \in Accounts |-> table[a].unstaking_amount], Accounts)
<1> DEFINE f == [a \in Accounts |-> table[a].amount]
           g == [a \in Accounts |-> table[a].unstaking_amount]
           h == [a \in Accounts |-> table[a].amount + table[a].unstaking_amount]
<1>1. \A a \in Accounts : f[a] \in Int /\ g[a] \in Int
  BY DEF StakeRow
<1>2. \A a \in Accounts : h[a] = f[a] + g[a]
  OBVIOUS
<1> HIDE DEF f, g, h
<1>3. SumFunctionOnSet(h, Accounts)
        = SumFunctionOnSet(f, Accounts) + SumFunctionOnSet(g, Accounts)
  BY <1>1, <1>2, StakeAssumption, SumPlus
<1> QED BY <1>3 DEF f, g, h

(* The fund is what was given, less the deposits that init copied: all other V of
   stake.rms belongs to somebody. *)
LEMMA FundFacts ==
    ASSUME VaultInv, VaultInv'
    PROVE  /\ Fund = vIgnored - Migrated /\ Fund \in Int
           /\ Fund' = vIgnored' - Migrated'
<1>1. /\ stakes \in [Accounts -> StakeRow] /\ stakes' \in [Accounts -> StakeRow]
      /\ vBalance \in Nat /\ vIgnored \in Nat /\ Migrated \in Nat
      /\ vBalance' \in Nat /\ vIgnored' \in Nat /\ Migrated' \in Nat
      /\ StakedTotal \in Nat /\ UnstakingTotal \in Nat
  BY VaultTotals, MigrationAssumption DEF VaultInv, VaultTypes, Migrated
<1>2. StakedTotal' \in Nat /\ UnstakingTotal' \in Nat
  <2> DEFINE f == [a \in Accounts |-> stakes'[a].amount]
             g == [a \in Accounts |-> stakes'[a].unstaking_amount]
  <2>1. \A a \in Accounts : f[a] \in Nat /\ g[a] \in Nat
    BY <1>1 DEF StakeRow
  <2> HIDE DEF f, g
  <2>2. SumFunctionOnSet(f, Accounts) \in Nat /\ SumFunctionOnSet(g, Accounts) \in Nat
    BY <2>1, StakeAssumption, SumNat
  <2> QED BY <2>2 DEF f, g, StakedTotal, StakedOf, UnstakingTotal, UnstakingOf
<1>3. /\ vBalance + Migrated = StakedTotal + UnstakingTotal + vIgnored
      /\ vBalance' + Migrated' = StakedTotal' + UnstakingTotal' + vIgnored'
  BY DEF VaultInv, VaultCovered, StakedTotal, UnstakingTotal
<1>4. /\ Fund = vBalance - (StakedTotal + UnstakingTotal)
      /\ Fund' = vBalance' - (StakedTotal' + UnstakingTotal')
  BY <1>1, OwnedSum
     DEF Fund, Owned, StakedTotal, StakedOf, UnstakingTotal, UnstakingOf
<1> QED BY <1>1, <1>2, <1>3, <1>4

(* Outside a transaction the ledger is what the tables say. *)
LEMMA OutsideFacts ==
    ASSUME TokenInv, TokenInv', ~ InTransaction, pending' = pending
    PROVE  /\ Wealth \in [Accounts -> Nat] /\ Wealth' \in [Accounts -> Nat]
           /\ \A a \in Accounts :
                /\ balance[a] \in Nat /\ Owned(a) \in Nat /\ Owned(a)' \in Nat
                /\ Wealth[a] = balance[a] + Owned(a) /\ Wealth'[a] = balance'[a] + Owned(a)'
           /\ Committed.supply = supply /\ Committed'.supply = supply'
           /\ Backing = vaultRam + stat.used_amount
           /\ Backing' = vaultRam' + stat'.used_amount
           /\ Fund = vIgnored - Migrated /\ Fund \in Int
           /\ Fund' = vIgnored' - Migrated'
           /\ vIgnored \in Nat /\ Migrated \in Nat
<1>1. /\ balance \in [Accounts -> Nat] /\ balance' \in [Accounts -> Nat]
      /\ stakes \in [Accounts -> StakeRow] /\ stakes' \in [Accounts -> StakeRow]
      /\ vIgnored \in Nat /\ Migrated \in Nat
  BY MigrationAssumption DEF TokenInv, TokenTypeOK, IndInv, VaultInv, VaultTypes, Migrated
<1>2. /\ Committed.supply = supply /\ Committed.balance = balance
      /\ Committed.vaultRam = vaultRam
      /\ Committed'.supply = supply' /\ Committed'.balance = balance'
      /\ Committed'.vaultRam = vaultRam'
  BY DEF Committed, InTransaction
<1>3. \A a \in Accounts :
        /\ balance[a] \in Nat /\ Owned(a) \in Nat /\ balance'[a] \in Nat /\ Owned(a)' \in Nat
  BY <1>1 DEF Owned, StakeRow
<1>4. /\ Wealth = [a \in Accounts |-> balance[a] + Owned(a)]
      /\ Wealth' = [a \in Accounts |-> balance'[a] + Owned(a)']
  BY <1>2 DEF Wealth
<1>5. Wealth \in [Accounts -> Nat] /\ Wealth' \in [Accounts -> Nat]
  BY <1>3, <1>4
<1>6. /\ Fund = vIgnored - Migrated /\ Fund \in Int
      /\ Fund' = vIgnored' - Migrated'
  BY FundFacts DEF TokenInv, IndInv
<1> QED BY <1>1, <1>2, <1>3, <1>4, <1>5, <1>6 DEF Backing

(* What moves neither V nor RAM is no step of the ledger. *)
LEMMA IdleLedgerStep ==
    ASSUME TokenInv, TokenInv', ~ InTransaction, UNCHANGED <<pending, supply>>,
           \A a \in Accounts : balance'[a] + Owned(a)' = balance[a] + Owned(a),
           vIgnored' = vIgnored, config'.init_done = config.init_done,
           vaultRam' + stat'.used_amount = vaultRam + stat.used_amount
    PROVE  LedgerStep
<1>1. Migrated' = Migrated
  BY DEF Migrated
<1>2. /\ Wealth \in [Accounts -> Nat] /\ Wealth' \in [Accounts -> Nat]
      /\ \A a \in Accounts : Wealth'[a] = Wealth[a]
  BY OutsideFacts
<1>3. UNCHANGED <<Fund, Committed.supply, Backing, config.init_done>>
  BY <1>1, OutsideFacts
<1> QED BY <1>2, <1>3, StepSame

(* Staking, unstaking and restaking move V between the rows of one account; lending
   moves RAM between bank.rms and the borrowers. *)
LEMMA OwnedKept ==
    ASSUME VaultInv, NEW a \in Accounts, NEW n \in Nat,
           Unstake(a, n) \/ \E i \in UnstakeIds : Restake(a, i)
    PROVE  \A x \in Accounts : Owned(x)' = Owned(x)
<1>1. /\ stakes \in [Accounts -> StakeRow]
      /\ \A x \in Accounts : stakes[x].amount \in Nat /\ stakes[x].unstaking_amount \in Nat
  BY DEF VaultInv, VaultTypes, StakeRow
<1>2. PICK m \in Nat :
        \/ stakes' = [stakes EXCEPT ![a].amount = @ - m, ![a].unstaking_amount = @ + m]
        \/ stakes' = [stakes EXCEPT ![a].unstaking_amount = @ - m, ![a].amount = @ + m]
  <2>1. CASE Unstake(a, n)
    BY <2>1 DEF Unstake
  <2>2. CASE \E i \in UnstakeIds : Restake(a, i)
    <3>1. PICK i \in UnstakeIds : Restake(a, i)
      BY <2>2
    <3>2. unstakes[a][i].amount \in Nat
      BY RowFacts DEF VaultInv
    <3> QED BY <3>1, <3>2 DEF Restake
  <2> QED BY <2>1, <2>2
<1>3. /\ \A x \in Accounts \ {a} : stakes'[x] = stakes[x]
      /\ \/ /\ stakes'[a].amount = stakes[a].amount - m
            /\ stakes'[a].unstaking_amount = stakes[a].unstaking_amount + m
         \/ /\ stakes'[a].amount = stakes[a].amount + m
            /\ stakes'[a].unstaking_amount = stakes[a].unstaking_amount - m
  BY <1>1, <1>2 DEF StakeRow
<1>4. stakes'[a].amount + stakes'[a].unstaking_amount
        = stakes[a].amount + stakes[a].unstaking_amount
  BY <1>1, <1>3
<1> QED BY <1>3, <1>4 DEF Owned

(* RAM lent or repaid stays behind the V: the sum of RamConserved, whatever it is. *)
LEMMA RamKept ==
    ASSUME VaultInv, NEW a \in Accounts, NEW n \in Nat, Borrow(a, n) \/ RepayRam(a, n)
    PROVE  vaultRam' + stat'.used_amount = vaultRam + stat.used_amount
<1>1. /\ stat \in [stake_amount : Nat, used_amount : Nat] /\ stat.used_amount \in Nat
      /\ vaultRam \in Nat /\ borrows[a].bytes \in Nat
  BY DEF VaultInv, VaultTypes, BorrowRow
<1>2. PICK m \in Nat :
        \/ vaultRam' = vaultRam - m /\ stat'.used_amount = stat.used_amount + m
        \/ vaultRam' = vaultRam + m /\ stat'.used_amount = stat.used_amount - m
  <2>1. CASE Borrow(a, n)
    BY <1>1, <2>1 DEF Borrow
  <2>2. CASE RepayRam(a, n)
    <3>1. Repaid(a, n) \in Nat
      BY <1>1 DEF Repaid
    <3>2. vaultRam' = vaultRam + Repaid(a, n) /\ stat'.used_amount = stat.used_amount - Repaid(a, n)
      BY <1>1, <2>2 DEF RepayRam
    <3> QED BY <3>1, <3>2
  <2> QED BY <2>1, <2>2
<1> QED BY <1>1, <1>2

(* init is the migration of the ledger. *)
LEMMA InitializeStep ==
    ASSUME TokenInv, TokenInv', ~ InTransaction, Initialize, UNCHANGED tokenVars
    PROVE  LedgerStep
<1>1. /\ ~ config.init_done /\ config'.init_done = TRUE
      /\ UNCHANGED <<pending, supply, balance>>
      /\ UNCHANGED <<vIgnored, vaultRam, stat>>
  BY DEF Initialize, tokenVars, ledger, TokenInv, IndInv, VaultInv, VaultTypes, ConfigRow
<1>2. /\ \A a \in Accounts :
           /\ stakes[a].amount \in Nat /\ stakes[a].unstaking_amount \in Nat
           /\ BankDeposits[a] \in Nat
      /\ NoRowNoAmount
  BY MigrationAssumption DEF TokenInv, IndInv, VaultInv, VaultTypes, StakeRow
<1>3. \A a \in Accounts :
        /\ stakes'[a].amount = stakes[a].amount + BankDeposits[a]
        /\ stakes'[a].unstaking_amount = stakes[a].unstaking_amount
  BY <1>2 DEF Initialize, NoRowNoAmount
<1>4. \A a \in Accounts : Owned(a)' = Owned(a) + BankDeposits[a]
  BY <1>2, <1>3 DEF Owned
<1>5. \A a \in Accounts : Wealth'[a] = Wealth[a] + BankDeposits[a]
  BY <1>1, <1>2, <1>4, OutsideFacts
<1>6. Migrated = 0 /\ Migrated' = InitialAmount /\ InitialAmount \in Nat
  BY <1>1, MigrationAssumption DEF Migrated
<1>7. Fund' = Fund - InitialAmount /\ UNCHANGED <<Committed.supply, Backing>>
  BY <1>1, <1>6, OutsideFacts
<1>8. Wealth \in [Accounts -> Nat] /\ Wealth' \in [Accounts -> Nat]
  BY <1>1, OutsideFacts
<1> QED BY <1>1, <1>5, <1>7, <1>8, StepMigrate

(* A swap of RAMS is a payment by RAMS_DAO. *)
LEMMA Rams2VStep ==
    ASSUME TokenInv, TokenInv', ~ InTransaction, NEW a \in Accounts, NEW n \in Nat,
           Rams2V(a, n), UNCHANGED tokenVars
    PROVE  LedgerStep
<1>1. /\ UNCHANGED <<pending, supply, balance>>
      /\ UNCHANGED <<vIgnored, vaultRam, stat, config>>
      /\ stakes[RamsDao].exists /\ n <= stakes[RamsDao].amount
      /\ stakes' = Swapped(a, n)
  BY DEF Rams2V, tokenVars, ledger, loanVars
<1>2. /\ stakes \in [Accounts -> StakeRow] /\ RamsDao \in Accounts
      /\ \A x \in Accounts : stakes[x].amount \in Nat /\ stakes[x].unstaking_amount \in Nat
  BY StakeAssumption DEF TokenInv, IndInv, VaultInv, VaultTypes, StakeRow
<1>3. /\ \A x \in Accounts : stakes'[x].unstaking_amount = stakes[x].unstaking_amount
      /\ \A x \in Accounts \ {a, RamsDao} : stakes'[x] = stakes[x]
      /\ a = RamsDao => stakes'[a].amount = stakes[a].amount
      /\ a # RamsDao => /\ stakes'[a].amount = stakes[a].amount + n
                        /\ stakes'[RamsDao].amount = stakes[RamsDao].amount - n
  BY <1>1, <1>2, SwappedRows
<1>4. Migrated' = Migrated /\ config'.init_done = config.init_done
  BY <1>1 DEF Migrated
<1>5. CASE a = RamsDao
  <2>1. \A x \in Accounts : balance'[x] + Owned(x)' = balance[x] + Owned(x)
    BY <1>1, <1>3, <1>5 DEF Owned
  <2> QED BY <1>1, <1>4, <2>1, IdleLedgerStep
<1>6. CASE a # RamsDao
  <2>1. /\ Owned(a)' = Owned(a) + n /\ Owned(RamsDao)' = Owned(RamsDao) - n
        /\ n <= Owned(RamsDao)
        /\ \A x \in Accounts \ {a, RamsDao} : Owned(x)' = Owned(x)
    BY <1>1, <1>2, <1>3, <1>6 DEF Owned
  <2>2. /\ \A x \in Accounts : /\ balance'[x] = balance[x] /\ balance[x] \in Nat
                              /\ Owned(x) \in Nat /\ Owned(x)' \in Nat
                              /\ Wealth[x] = balance[x] + Owned(x)
                              /\ Wealth'[x] = balance'[x] + Owned(x)'
        /\ Wealth \in [Accounts -> Nat] /\ Wealth' \in [Accounts -> Nat]
    BY <1>1, OutsideFacts
  <2>3. /\ Wealth'[a] = Wealth[a] + n /\ Wealth'[RamsDao] = Wealth[RamsDao] - n
        /\ n <= Wealth[RamsDao]
        /\ \A x \in Accounts \ {RamsDao, a} : Wealth'[x] = Wealth[x]
    <3>1. Wealth'[a] = Wealth[a] + n
      BY <2>1, <2>2
    <3>2. Wealth'[RamsDao] = Wealth[RamsDao] - n /\ n <= Wealth[RamsDao]
      BY <1>2, <2>1, <2>2
    <3>3. \A x \in Accounts \ {RamsDao, a} : Wealth'[x] = Wealth[x]
      BY <2>1, <2>2
    <3> QED BY <3>1, <3>2, <3>3
  <2>4. UNCHANGED <<Fund, Committed.supply, Backing, config.init_done>>
    BY <1>1, <1>4, OutsideFacts
  <2> QED BY <1>2, <1>6, <2>2, <2>3, <2>4, StepPay
<1> QED BY <1>5, <1>6

(* What stake.rms does without moving V: the migration, a payment, or nothing that
   the ledger sees. *)
LEMMA StakeOnlyStep ==
    ASSUME TokenInv, TokenInv', ~ InTransaction, StakeOnlyNext
    PROVE  LedgerStep
<1>1. /\ UNCHANGED tokenVars /\ UNCHANGED <<pending, supply, balance>>
      /\ VaultInv /\ \A n \in Amounts \cup {0} : n \in Nat
      /\ config \in ConfigRow
  BY StakeAssumption DEF StakeOnlyNext, tokenVars, ledger, TokenInv, IndInv, VaultInv, VaultTypes
<1>2. CASE Initialize
  BY <1>1, <1>2, InitializeStep
<1>3. CASE \E a \in Accounts, n \in Amounts : Rams2V(a, n)
  BY <1>1, <1>3, Rams2VStep
<1>4. CASE \/ \E a \in Accounts, n \in Amounts \cup {0} : Unstake(a, n)
           \/ \E a \in Accounts, i \in UnstakeIds : Restake(a, i)
  <2>1. PICK a \in Accounts, n \in Nat : Unstake(a, n) \/ \E i \in UnstakeIds : Restake(a, i)
    BY <1>1, <1>4
  <2>2. \A x \in Accounts : Owned(x)' = Owned(x)
    BY <1>1, <2>1, OwnedKept
  <2>3. /\ vIgnored' = vIgnored /\ config' = config /\ vaultRam' = vaultRam
        /\ stat'.used_amount = stat.used_amount
    <3>1. stat \in [stake_amount : Nat, used_amount : Nat]
      BY <1>1 DEF VaultInv, VaultTypes
    <3> QED BY <2>1, <3>1 DEF Unstake, Restake, loanVars
  <2> QED BY <1>1, <2>2, <2>3, IdleLedgerStep
<1>5. CASE \E a \in Accounts, n \in Amounts : Borrow(a, n) \/ RepayRam(a, n)
  <2>1. PICK a \in Accounts, n \in Nat : Borrow(a, n) \/ RepayRam(a, n)
    BY <1>1, <1>5
  <2>2. vaultRam' + stat'.used_amount = vaultRam + stat.used_amount
    BY <1>1, <2>1, RamKept
  <2>3. stakes' = stakes /\ vIgnored' = vIgnored /\ config' = config
    BY <2>1 DEF Borrow, RepayRam
  <2>4. \A x \in Accounts : balance'[x] + Owned(x)' = balance[x] + Owned(x)
    BY <1>1, <2>3 DEF Owned
  <2> QED BY <1>1, <2>2, <2>3, <2>4, IdleLedgerStep
<1>6. CASE \/ \E row \in ConfigRows : Config(row)
           \/ \E t \in Tokens : AddRentToken(t)
           \/ RentNext \/ Tick
  <2>1. /\ stakes' = stakes /\ vIgnored' = vIgnored /\ vaultRam' = vaultRam /\ stat' = stat
        /\ config'.init_done = config.init_done
    <3>1. CASE \E row \in ConfigRows : Config(row)
      BY <3>1 DEF Config, stakeVars, loanVars
    <3>2. CASE (\E t \in Tokens : AddRentToken(t)) \/ RentNext \/ Tick
      <4>1. UNCHANGED <<config, stakeVars, loanVars>>
        BY <3>2, Zenon DEF AddRentToken, RentNext, Rent, Claim, IgnoredToken, Tick
      <4> QED BY <4>1 DEF stakeVars, loanVars
    <3> QED BY <1>6, <3>1, <3>2
  <2>2. \A x \in Accounts : balance'[x] + Owned(x)' = balance[x] + Owned(x)
    BY <1>1, <2>1 DEF Owned
  <2> QED BY <1>1, <2>1, <2>2, IdleLedgerStep
<1> QED BY <1>2, <1>3, <1>4, <1>5, <1>6 DEF StakeOnlyNext, OwnNext

(* V sent to stake.rms is staked, and stays its owner's, or it is given. *)
LEMMA TransferToStakeStep ==
    ASSUME TokenInv, TokenInv', ~ InTransaction, NEW a \in Accounts, NEW n \in Nat,
           TransferToStake(a, n)
    PROVE  LedgerStep
<1>1. /\ n <= balance[a] /\ balance' = [balance EXCEPT ![a] = @ - n]
      /\ UNCHANGED <<pending, supply>>
      /\ balance \in [Accounts -> Nat] /\ stakes \in [Accounts -> StakeRow]
      /\ \A x \in Accounts :
           /\ balance[x] \in Nat /\ stakes[x].amount \in Nat
           /\ stakes[x].unstaking_amount \in Nat
      /\ stat \in [stake_amount : Nat, used_amount : Nat]
  BY DEF TransferToStake, OutOfTransaction, TokenInv, TokenTypeOK, IndInv, VaultInv,
         VaultTypes, StakeRow
<1>2. balance'[a] = balance[a] - n /\ \A x \in Accounts \ {a} : balance'[x] = balance[x]
  BY <1>1
<1>3. CASE OnStake(a, n)
  <2>1. /\ stakes' = Credited(a, n) /\ vIgnored' = vIgnored /\ config' = config
        /\ vaultRam' = vaultRam /\ stat'.used_amount = stat.used_amount
    BY <1>1, <1>3 DEF OnStake, loanVars
  <2>2. /\ stakes'[a].amount = stakes[a].amount + n
        /\ stakes'[a].unstaking_amount = stakes[a].unstaking_amount
        /\ \A x \in Accounts \ {a} : stakes'[x] = stakes[x]
    BY <1>1, <2>1 DEF Credited, StakeRow
  <2>3. Owned(a)' = Owned(a) + n /\ \A x \in Accounts \ {a} : Owned(x)' = Owned(x)
    BY <1>1, <2>2 DEF Owned
  <2>4. Owned(a) \in Nat
    BY <1>1 DEF Owned
  <2>5. \A x \in Accounts : balance'[x] + Owned(x)' = balance[x] + Owned(x)
    BY <1>1, <1>2, <2>3, <2>4
  <2> QED BY <1>1, <2>1, <2>5, IdleLedgerStep
<1>4. CASE IgnoredV(n)
  <2>1. /\ vIgnored' = vIgnored + n
        /\ UNCHANGED <<config, stat, stakes, vaultRam>>
    BY <1>4 DEF IgnoredV, loanVars
  <2>2. Migrated' = Migrated /\ \A x \in Accounts : Owned(x)' = Owned(x)
    BY <2>1 DEF Migrated, Owned
  <2>3. /\ \A x \in Accounts : /\ Owned(x) \in Nat /\ Wealth[x] = balance[x] + Owned(x)
                              /\ Wealth'[x] = balance'[x] + Owned(x)'
        /\ Wealth \in [Accounts -> Nat] /\ Wealth' \in [Accounts -> Nat]
    BY <1>1, OutsideFacts
  <2>4. /\ Wealth'[a] = Wealth[a] - n /\ n <= Wealth[a]
        /\ \A x \in Accounts \ {a} : Wealth'[x] = Wealth[x]
    BY <1>1, <1>2, <2>2, <2>3
  <2>5. Fund' = Fund + n /\ Fund \in Int
    BY <1>1, <2>1, <2>2, OutsideFacts
  <2>6. UNCHANGED <<Committed.supply, Backing, config.init_done>>
    BY <1>1, <2>1, OutsideFacts
  <2> QED BY <2>3, <2>4, <2>5, <2>6, StepGive
<1> QED BY <1>3, <1>4 DEF TransferToStake

(* What is withdrawn was its owner's already. *)
LEMMA WithdrawVStep ==
    ASSUME TokenInv, TokenInv', ~ InTransaction, NEW a \in Accounts, WithdrawV(a)
    PROVE  LedgerStep
<1>1. /\ balance' = [balance EXCEPT ![a] = @ + (vBalance - vBalance')]
      /\ UNCHANGED <<pending, supply>>
      /\ UNCHANGED <<config, stat, vIgnored, vaultRam>>
      /\ balance \in [Accounts -> Nat] /\ stakes \in [Accounts -> StakeRow]
      /\ vBalance \in Nat /\ balance[a] \in Nat
      /\ stakes[a].amount \in Nat /\ stakes[a].unstaking_amount \in Nat
  BY DEF WithdrawV, Withdraw, OutOfTransaction, TokenInv, TokenTypeOK, IndInv, VaultInv,
         VaultTypes, StakeRow, loanVars
<1>2. PICK n \in Nat : vBalance' = vBalance - n /\ stakes' = Released(a, n)
  <2>1. PICK S \in SUBSET Rows(a) : /\ vBalance' = vBalance - AmountOf(a, S)
                                    /\ stakes' = Released(a, AmountOf(a, S))
    BY DEF WithdrawV, Withdraw
  <2>2. AmountOf(a, S) \in Nat
    <3> DEFINE f == [i \in UnstakeIds |-> unstakes[a][i].amount]
    <3>1. IsFiniteSet(Rows(a)) /\ \A i \in Rows(a) : f[i] \in Nat
      BY RowFacts DEF TokenInv, IndInv, VaultInv
    <3> HIDE DEF f
    <3>2. SumFunctionOnSet(f, S) \in Nat
      BY <3>1, SumPart
    <3> QED BY <3>2 DEF AmountOf, f
  <2> QED BY <2>1, <2>2
<1>3. vBalance - vBalance' = n
  BY <1>1, <1>2
<1>4. balance'[a] = balance[a] + n /\ \A x \in Accounts \ {a} : balance'[x] = balance[x]
  BY <1>1, <1>3
<1>5. /\ stakes'[a].amount = stakes[a].amount
      /\ stakes'[a].unstaking_amount = stakes[a].unstaking_amount - n
      /\ \A x \in Accounts \ {a} : stakes'[x] = stakes[x]
  BY <1>1, <1>2 DEF Released, StakeRow
<1>6. Owned(a)' = Owned(a) - n /\ \A x \in Accounts \ {a} : Owned(x)' = Owned(x)
  BY <1>1, <1>5 DEF Owned
<1>7. Owned(a) \in Nat
  BY <1>1 DEF Owned
<1>8. \A x \in Accounts : balance'[x] + Owned(x)' = balance[x] + Owned(x)
  BY <1>1, <1>4, <1>6, <1>7
<1> QED BY <1>1, <1>8, IdleLedgerStep

(* Outside a transaction, what moves on the ledger of token.rms. *)
LEMMA LedgerNextStep ==
    ASSUME TokenInv, TokenInv', ~ InTransaction, LedgerNext
    PROVE  LedgerStep
<1>1. /\ balance \in [Accounts -> Nat] /\ supply \in Nat /\ MaxSupply \in Nat
      /\ Issuer \in Accounts /\ BalanceTotal \in Nat /\ vBalance \in Nat
      /\ supply = BalanceTotal + vBalance
      /\ \A x \in Accounts : balance[x] \in Nat /\ balance[x] <= BalanceTotal
      /\ \A n \in Amounts : n \in Nat
  BY TokenFacts, StakeAssumption
<1>2. CASE UNCHANGED vars /\ \E r, e \in BOOLEAN : SetConfig(r, e)
  <2>1. /\ UNCHANGED <<pending, supply, balance, stakes, vIgnored, config, vaultRam, stat>>
    BY <1>2 DEF SetConfig, OutOfTransaction, ledger, vars, stakeVars, loanVars
  <2>2. \A x \in Accounts : balance'[x] + Owned(x)' = balance[x] + Owned(x)
    BY <2>1 DEF Owned
  <2> QED BY <2>1, <2>2, IdleLedgerStep
<1>3. CASE \/ \E n \in Amounts : Issue(n) \/ Retire(n)
           \/ \E a, b \in Accounts, n \in Amounts : Transfer(a, b, n)
  <2>1. UNCHANGED <<pending, stakes, vIgnored, config, vaultRam, stat, vBalance>>
    BY <1>3 DEF Issue, Retire, Transfer, OutOfTransaction, vars, stakeVars, loanVars
  <2>2. Migrated' = Migrated /\ \A x \in Accounts : Owned(x)' = Owned(x)
    BY <2>1 DEF Migrated, Owned
  <2>3. /\ Wealth \in [Accounts -> Nat] /\ Wealth' \in [Accounts -> Nat]
        /\ \A x \in Accounts : /\ Owned(x) \in Nat /\ Wealth[x] = balance[x] + Owned(x)
                              /\ Wealth'[x] = balance'[x] + Owned(x)'
        /\ Committed.supply = supply /\ Committed'.supply = supply'
        /\ UNCHANGED <<Fund, Backing, config.init_done>>
    BY <2>1, <2>2, OutsideFacts
  <2>4. CASE \E n \in Amounts : Issue(n)
    <3>1. PICK n \in Nat : /\ n <= MaxSupply - supply /\ supply' = supply + n
                           /\ balance' = [balance EXCEPT ![Issuer] = @ + n]
      BY <1>1, <2>4 DEF Issue
    <3>2. /\ balance'[Issuer] = balance[Issuer] + n
          /\ \A x \in Accounts \ {Issuer} : balance'[x] = balance[x]
      BY <1>1, <3>1
    <3>3. Wealth'[Issuer] = Wealth[Issuer] + n
      BY <1>1, <2>2, <2>3, <3>2
    <3>4. \A x \in Accounts \ {Issuer} : Wealth'[x] = Wealth[x]
      BY <2>2, <2>3, <3>2
    <3>5. supply + n <= MaxSupply
      BY <1>1, <3>1
    <3> QED BY <1>1, <2>3, <3>1, <3>3, <3>4, <3>5, StepIssue
  <2>5. CASE \E n \in Amounts : Retire(n)
    <3>1. PICK n \in Nat : /\ n <= balance[Issuer] /\ supply' = supply - n
                           /\ balance' = [balance EXCEPT ![Issuer] = @ - n]
      BY <1>1, <2>5 DEF Retire
    <3>2. /\ balance'[Issuer] = balance[Issuer] - n
          /\ \A x \in Accounts \ {Issuer} : balance'[x] = balance[x]
      BY <1>1, <3>1
    <3>3. Wealth'[Issuer] = Wealth[Issuer] - n /\ n <= Wealth[Issuer]
      BY <1>1, <2>2, <2>3, <3>1, <3>2
    <3>4. \A x \in Accounts \ {Issuer} : Wealth'[x] = Wealth[x]
      BY <2>2, <2>3, <3>2
    <3>5. n <= supply
      BY <1>1, <3>1
    <3> QED BY <1>1, <2>3, <3>1, <3>3, <3>4, <3>5, StepRetire
  <2>6. CASE \E a, b \in Accounts, n \in Amounts : Transfer(a, b, n)
    <3>1. PICK a \in Accounts, b \in Accounts, n \in Nat :
            /\ a # b /\ n <= balance[a] /\ supply' = supply
            /\ balance' = [balance EXCEPT ![a] = @ - n, ![b] = @ + n]
      BY <1>1, <2>6 DEF Transfer
    <3>2. /\ balance'[a] = balance[a] - n /\ balance'[b] = balance[b] + n
          /\ \A x \in Accounts \ {a, b} : balance'[x] = balance[x]
      BY <1>1, <3>1
    <3>3. Wealth'[a] = Wealth[a] - n /\ n <= Wealth[a]
      BY <1>1, <2>2, <2>3, <3>1, <3>2
    <3>4. Wealth'[b] = Wealth[b] + n
      BY <1>1, <2>2, <2>3, <3>2
    <3>5. \A x \in Accounts \ {a, b} : Wealth'[x] = Wealth[x]
      BY <2>2, <2>3, <3>2
    <3> QED BY <2>3, <3>1, <3>3, <3>4, <3>5, StepPay
  <2> QED BY <1>3, <2>4, <2>5, <2>6
<1>4. CASE \E a \in Accounts, n \in Amounts : TransferToStake(a, n)
  BY <1>1, <1>4, TransferToStakeStep
<1>5. CASE \E a \in Accounts : WithdrawV(a)
  BY <1>5, WithdrawVStep
<1> QED BY <1>2, <1>3, <1>4, <1>5 DEF LedgerNext, SetConfig

(* What is committed before and after a step of a conversion. *)
LEMMA CommittedFacts ==
    ASSUME TokenInv
    PROVE  /\ Committed.supply \in 0..MaxSupply /\ Committed.vaultRam \in Nat
           /\ Committed.balance \in [Accounts -> Nat]
           /\ Committed.supply = SumFunctionOnSet(Committed.balance, Accounts) + vBalance
           /\ Committed.supply <= supply
           /\ supply - Committed.supply = vaultRam - Committed.vaultRam
           /\ \A a \in Accounts : Committed.balance[a] <= balance[a]
           /\ Committed.balance[Issuer] = balance[Issuer]
<1>1. CASE InTransaction
  BY <1>1 DEF TokenInv, Committed, Restorable, SavedTotal
<1>2. CASE ~ InTransaction
  <2>1. /\ Committed.supply = supply /\ Committed.balance = balance
        /\ Committed.vaultRam = vaultRam
    BY <1>2 DEF Committed
  <2> QED BY <2>1, TokenFacts DEF BalanceTotal
<1> QED BY <1>1, <1>2

(* A transaction that goes on, or is aborted, commits nothing. *)
LEMMA UncommittedStep ==
    ASSUME TokenInv, UNCHANGED <<config, stat, stakes, vBalance>>,
           UNCHANGED <<Committed.supply, Committed.balance, Committed.vaultRam>>
    PROVE  LedgerStep
<1>1. \A a \in Accounts : Owned(a) \in Nat
  BY DEF Owned, TokenInv, IndInv, VaultInv, VaultTypes, StakeRow
<1>2. Wealth \in [Accounts -> Nat] /\ Wealth' = Wealth
  <2>1. \A a \in Accounts : Committed.balance[a] \in Nat
    BY CommittedFacts
  <2> QED BY <1>1, <2>1 DEF Wealth, Owned
<1>3. UNCHANGED <<Fund, Backing, config.init_done>>
  BY DEF Fund, Backing, Owned
<1> QED BY <1>2, <1>3, StepSame

(* V that is made and committed is a conversion of the ledger. *)
LEMMA CommitStep ==
    ASSUME TokenInv, TokenInv', ~ InTransaction', NEW to \in Accounts, NEW bytes \in Nat,
           IssueV(to, bytes)
    PROVE  LedgerStep
<1>1. /\ Committed.supply \in 0..MaxSupply /\ Committed.vaultRam \in Nat
      /\ Committed.balance \in [Accounts -> Nat]
      /\ Committed.supply = SumFunctionOnSet(Committed.balance, Accounts) + vBalance
      /\ supply - Committed.supply = vaultRam - Committed.vaultRam
      /\ \A a \in Accounts : Committed.balance[a] <= balance[a]
      /\ Committed.balance[Issuer] = balance[Issuer]
  BY CommittedFacts
<1>2. /\ Committed'.supply = supply' /\ Committed'.balance = balance'
      /\ Committed'.vaultRam = vaultRam'
  BY DEF Committed
<1>3. /\ to # Issuer /\ supply' = supply + bytes /\ supply' \in 0..MaxSupply
      /\ vaultRam' = vaultRam + bytes /\ balance' \in [Accounts -> Nat]
      /\ supply' = SumFunctionOnSet(balance', Accounts) + vBalance
      /\ balance'[to] = balance[to] + bytes
      /\ \A x \in Accounts \ {to} : balance'[x] = balance[x]
      /\ UNCHANGED <<stat, stakes, vBalance, config>>
  BY IssueVFacts DEF BalanceTotal, stakeVars
<1>4. /\ supply \in Nat /\ vaultRam \in Nat /\ vBalance \in Nat /\ Issuer \in Accounts
      /\ \A x \in Accounts : balance[x] \in Nat
      /\ stat.used_amount \in Nat /\ stakes \in [Accounts -> StakeRow]
  BY TokenFacts DEF TokenInv, IndInv, VaultInv, VaultTypes
<1>5. \A x \in Accounts : Committed.balance[x] <= balance'[x]
  <2> SUFFICES ASSUME NEW x \in Accounts PROVE Committed.balance[x] <= balance'[x]
    OBVIOUS
  <2>1. /\ Committed.balance[x] \in Nat /\ balance[x] \in Nat
        /\ Committed.balance[x] <= balance[x]
    BY <1>1, <1>4
  <2>2. CASE x = to
    BY <1>3, <2>1, <2>2
  <2>3. CASE x # to
    BY <1>3, <2>1, <2>3
  <2> QED BY <2>2, <2>3
<1>6. vaultRam' - Committed.vaultRam = supply' - Committed.supply
  BY <1>1, <1>3, <1>4
<1>7. vaultRam' \in Nat /\ Committed.balance[Issuer] = balance'[Issuer]
  BY <1>1, <1>3, <1>4
<1> QED BY <1>1, <1>2, <1>3, <1>4, <1>5, <1>6, <1>7, StepConvert

(* The steps of a conversion. *)
LEMMA ConversionStep ==
    ASSUME TokenInv, TokenInv', ConversionNext
    PROVE  LedgerStep
<1>1. \A n \in Amounts : n \in Nat
  BY StakeAssumption
<1>2. CASE \E a \in Accounts, n \in Amounts :
             IssueV(a, n) /\ (InTransaction' => InTransaction /\ saved' = saved)
  <2>1. PICK a \in Accounts, n \in Amounts :
          IssueV(a, n) /\ (InTransaction' => InTransaction /\ saved' = saved)
    BY <1>2
  <2>2. CASE InTransaction'
    <3>1. UNCHANGED <<Committed.supply, Committed.balance, Committed.vaultRam>>
      BY <2>1, <2>2 DEF Committed
    <3>2. UNCHANGED <<config, stat, stakes, vBalance>>
      BY <2>1 DEF IssueV, stakeVars
    <3> QED BY <3>1, <3>2, UncommittedStep
  <2>3. CASE ~ InTransaction'
    BY <1>1, <2>1, <2>3, CommitStep
  <2> QED BY <2>2, <2>3
<1>3. CASE \E a \in Accounts, n \in Amounts : RamToV(a, n) \/ DirectBuy(a, n)
  <2>1. \E a \in Accounts, n \in Amounts :
          IssueV(a, n) /\ (InTransaction' => InTransaction /\ saved' = saved)
    BY <1>3 DEF RamToV, DirectBuy, InTransaction
  <2> QED BY <1>2, <2>1
<1>4. CASE \E n \in Amounts : LogBuyRam(n)
  <2>1. tokenConfig.payer # None => tokenConfig.payer \in Accounts
    BY TokenFacts
  <2>2. \E a \in Accounts, n \in Amounts :
          IssueV(a, n) /\ (InTransaction' => InTransaction /\ saved' = saved)
    BY <1>4, <2>1 DEF LogBuyRam, InTransaction
  <2> QED BY <1>2, <2>2
<1>5. CASE \E a \in Accounts : SendA(a)
  <2>1. /\ InTransaction' /\ UNCHANGED <<supply, balance, vaultRam, config, stat, stakes, vBalance>>
        /\ saved' = IF InTransaction THEN saved
                    ELSE [supply |-> supply, balance |-> balance, vaultRam |-> vaultRam]
    <3>1. PICK a \in Accounts : SendA(a)
      BY <1>5
    <3>2. pending' = <<a>> \o pending /\ pending \in Seq(Accounts)
      BY <3>1, TokenFacts DEF SendA
    <3>3. pending' # <<>>
      BY <3>2
    <3> QED BY <3>1, <3>3 DEF SendA, InTransaction, vars, ledger, stakeVars, loanVars
  <2>2. UNCHANGED <<Committed.supply, Committed.balance, Committed.vaultRam>>
    BY <2>1 DEF Committed
  <2> QED BY <2>1, <2>2, UncommittedStep
<1>6. CASE Abort
  <2>1. /\ InTransaction /\ ~ InTransaction' /\ UNCHANGED <<config, stat, stakes, vBalance>>
        /\ supply' = saved.supply /\ balance' = saved.balance /\ vaultRam' = saved.vaultRam
    BY <1>6 DEF Abort, InTransaction, stakeVars
  <2>2. UNCHANGED <<Committed.supply, Committed.balance, Committed.vaultRam>>
    BY <2>1 DEF Committed
  <2> QED BY <2>1, <2>2, UncommittedStep
<1> QED BY <1>3, <1>4, <1>5, <1>6 DEF ConversionNext

(* Every step of the two contracts is a step of the ledger or none. *)
LEMMA TokenStep ==
    ASSUME TokenInv, TokenInv', [TokenNext]_allVars
    PROVE  LedgerStep
<1>1. CASE ConversionNext
  BY <1>1, ConversionStep
<1>2. CASE ~ InTransaction /\ LedgerNext
  BY <1>2, LedgerNextStep
<1>3. CASE ~ InTransaction /\ StakeOnlyNext
  BY <1>3, StakeOnlyStep
<1>4. CASE UNCHANGED allVars
  <2>1. UNCHANGED <<config, stat, stakes, vBalance, supply, balance, vaultRam, pending, saved>>
    BY <1>4 DEF allVars, vars, stakeVars, loanVars, tokenVars, ledger
  <2>2. UNCHANGED <<Committed.supply, Committed.balance, Committed.vaultRam>>
    BY <2>1 DEF Committed, InTransaction
  <2> QED BY <2>1, <2>2, UncommittedStep
<1> QED BY <1>1, <1>2, <1>3, <1>4 DEF TokenNext

(* The ledger begins empty, with the RAM that bank.rms holds and has lent. *)
LEMMA LedgerBegins == TokenInit => Ledger!LedgerInit
<1> SUFFICES ASSUME TokenInit PROVE Ledger!LedgerInit
  OBVIOUS
<1>1. /\ Committed.supply = 0 /\ Committed.vaultRam = InitialVaultRam
      /\ \A a \in Accounts : Committed.balance[a] = 0
  BY DEF TokenInit, Init, Committed, InTransaction
<1>2. \A a \in Accounts : Owned(a) = 0
  BY DEF TokenInit, Init, Owned
<1>3. Wealth = [a \in Accounts |-> 0]
  BY <1>1, <1>2 DEF Wealth
<1>4. Fund = 0
  <2> DEFINE f == [a \in Accounts |-> Owned(a)]
  <2>1. \A a \in Accounts : f[a] = 0
    BY <1>2
  <2> HIDE DEF f
  <2>2. SumFunctionOnSet(f, Accounts) = 0
    BY <2>1, StakeAssumption, SumZero
  <2> QED BY <2>2 DEF Fund, f, TokenInit, Init
<1>5. Backing = InitialVaultRam + InitialAmount /\ config.init_done = FALSE
  BY <1>1 DEF Backing, TokenInit, Init
<1> QED BY <1>1, <1>3, <1>4, <1>5 DEF Ledger!LedgerInit

-----------------------------------------------------------------------------
(* The theorems. *)

(* The inductive invariant holds throughout. *)
THEOREM TokenInvariance == TokenSpec => []TokenInv
<1>1. TokenInv /\ [TokenNext]_allVars => TokenInv'
  BY TokenSafe
<1> QED BY <1>1, TokenInitSafe, PTL DEF TokenSpec

(* The supply is what the balances and stake.rms hold, also when a transaction that
   converted aborts, and the payer noted is that of the purchase sent last. *)
THEOREM TokenTypesHold == TokenSpec => []TokenTypeOK
<1>1. TokenInv => TokenTypeOK
  BY DEF TokenInv
<1> QED BY <1>1, TokenInvariance, PTL

(* With token.rms beside it, stake.rms still keeps its books. *)
THEOREM StakeBooksStayKept ==
    TokenSpec => [](/\ StakesTotalled /\ UnstakingMatchesRows /\ VaultCovered
                    /\ StakeDebtCovered /\ RewardFunded)
<1>1. TokenInv => /\ StakesTotalled /\ UnstakingMatchesRows /\ VaultCovered
                  /\ StakeDebtCovered /\ RewardFunded
  BY FundedByInv DEF TokenInv, IndInv, VaultInv, RewardInv
<1> QED BY <1>1, TokenInvariance, PTL

(* V bought with A goes to the account that sent this A. *)
THEOREM BuyerIsCredited == TokenSpec => BuyerCredited
<1>1. TokenInv /\ [TokenNext]_allVars =>
        [InTransaction /\ supply' > supply /\ Len(pending') < Len(pending) =>
           balance' = [balance EXCEPT ![Head(pending)] = @ + (supply' - supply)]]_allVars
  <2> SUFFICES ASSUME TokenInv, [TokenNext]_allVars,
                      InTransaction, supply' > supply, Len(pending') < Len(pending)
               PROVE  balance' = [balance EXCEPT ![Head(pending)] = @ + (supply' - supply)]
    OBVIOUS
  <2>1. supply \in Nat /\ pending \in Seq(Accounts) /\ Len(pending) \in Nat
    BY TokenFacts
  <2>2. pending' # pending /\ ~ (Len(pending') > Len(pending))
    BY <2>1
  <2>3. ~ Abort
    <3>1. saved.supply \in Nat /\ saved.supply <= supply
      BY StakeAssumption DEF TokenInv, Restorable
    <3> QED BY <2>1, <3>1 DEF Abort
  <2>4. \A a \in Accounts : ~ SendA(a)
    <3> SUFFICES ASSUME NEW a \in Accounts, SendA(a) PROVE FALSE
      OBVIOUS
    <3>1. Len(<<a>> \o pending) = 1 + Len(pending)
      BY <2>1
    <3> QED BY <2>1, <3>1 DEF SendA
  <2>5. PICK n \in Amounts : LogBuyRam(n)
    BY <2>2, <2>3, <2>4
       DEF TokenNext, ConversionNext, RamToV, DirectBuy, allVars, tokenVars
  <2>6. n \in Nat
    BY StakeAssumption
  <2>7. /\ tokenConfig.payer = Head(pending) /\ supply' = supply + n
        /\ balance' = [balance EXCEPT ![tokenConfig.payer] = @ + n]
    BY <2>5 DEF TokenInv, TokenTypeOK, LogBuyRam, IssueV
  <2>8. supply' - supply = n
    BY <2>1, <2>6, <2>7
  <2> QED BY <2>7, <2>8
<1> QED BY <1>1, TokenInvariance, PTL DEF TokenSpec, BuyerCredited

(* The two contracts implement VLedger: V is made only against RAM, whatever
   transactions are nested or aborted, and staking, unstaking, withdrawing, swapping
   RAMS and lending are payments between owners or no step of the ledger. *)
THEOREM TokenKeepsLedger == TokenSpec => KeepsLedger
<1>1. TokenInv /\ TokenInv' /\ [TokenNext]_allVars => [Ledger!LedgerNext]_(Ledger!ledgerVars)
  BY TokenStep DEF LedgerStep
<1> QED BY <1>1, LedgerBegins, TokenInvariance, PTL DEF TokenSpec, KeepsLedger, Ledger!LedgerSpec

=============================================================================
