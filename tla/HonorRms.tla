-------------------------------- MODULE HonorRms --------------------------------
(***************************************************************************)
(* honor.rms: RAMS are converted into stake of RAMS_DAO at stake.rms, those *)
(* who convert before a deadline are veterans, and veterans share a part   *)
(* of the gas fund.  Composed with the swap that issues RAMS, with         *)
(* stake.rms, and with do_distribute_gasfund of rambank.eos.               *)
(*                                                                         *)
(* The gas fund is one transaction over three contracts: the transfers     *)
(* rambank.eos sends, and the handlers they notify, all pass or none does. *)
(***************************************************************************)
EXTENDS StakeRms, SwapRams

CONSTANTS
    NameValue,        \* the value of each account name
    Btc,              \* BTC of btc.xsat
    UtxoManager,      \* UTXO_MANAGER_CONTRACT, the borrower that pays rent from the fund
    VeteranRatio, RatioPrecision,  \* VETERAN_RATIO, RATIO_PRECISION of rambank.eos
    DefaultDeadline,  \* the default of veteran_deadline
    \* Bounds of the instance: deadlines set, BTC received and their total.
    Deadlines, GasFunds, MaxGasFund

ASSUME HonorAssumption ==
    /\ Holders \subseteq Accounts
    /\ NameValue \in [Accounts -> Nat]
    /\ \A a, b \in Accounts : NameValue[a] = NameValue[b] => a = b
    /\ Btc \in Tokens /\ UtxoManager \in Accounts
    /\ RatioPrecision \in Nat \ {0} /\ VeteranRatio \in 0..RatioPrecision
    /\ DefaultDeadline \in Nat /\ Deadlines \subseteq Nat
    /\ GasFunds \subseteq Nat \ {0} /\ MaxGasFund \in Nat

VARIABLES
    honorConfig,  \* the config singleton of honor.rms
    veterans,     \* the veterans table
    veteranStat,  \* the veteranstats singleton
    btcHeld,      \* BTC held by honor.rms
    btcIgnored,   \* BTC received with another memo than "gasfund"
    stakeGiven    \* history: stake that rams2v has moved to those who converted

fundVars  == <<veterans, veteranStat, btcHeld, btcIgnored>>
honorVars == <<honorConfig, fundVars, stakeGiven>>
allVars   == <<vars, swapVars, honorVars>>

VeteranRow == [exists : BOOLEAN, rams : Nat, bytes : Nat, unclaimed : Nat, claimed : Nat]
NoVeteran  == [exists |-> FALSE, rams |-> 0, bytes |-> 0, unclaimed |-> 0, claimed |-> 0]

(* Every table holds rows of its type; the three tables of inscriptions agree, so
   that erase never walks into the rows of another account; an account that is no
   veteran has no share. *)
HonorTypeOK ==
    /\ SwapTypeOK
    /\ \A a \in Holders :
         /\ usermints[a] = mintcount[a]
         /\ mints[a] = mintcount[a] + IF a = Deployer THEN 1 ELSE 0
    /\ honorConfig \in [disabled_convert : BOOLEAN, veteran_deadline : Nat]
    /\ veterans \in [Accounts -> VeteranRow]
    /\ \A a \in Accounts : ~ veterans[a].exists => veterans[a] = NoVeteran
    /\ veteranStat \in [total_rams : Nat, total_bytes : Nat, total_veterans : Nat,
                        total_unclaimed : Nat, total_claimed : Nat]
    /\ btcHeld \in Nat /\ btcIgnored \in Nat /\ stakeGiven \in Nat

HonorInit ==
    /\ Init /\ SwapInit
    /\ honorConfig = [disabled_convert |-> FALSE, veteran_deadline |-> DefaultDeadline]
    /\ veterans = [a \in Accounts |-> NoVeteran]
    /\ veteranStat = [total_rams |-> 0, total_bytes |-> 0, total_veterans |-> 0,
                      total_unclaimed |-> 0, total_claimed |-> 0]
    /\ btcHeld = 0 /\ btcIgnored = 0 /\ stakeGiven = 0

-----------------------------------------------------------------------------
(* Conversion. *)

(* Mutant: the bytes are rounded up. *)
BytesOfUp(rams) ==
    (rams * BytesPerInscription + RamsPerInscription - 1) \div RamsPerInscription

(* 494 bytes for 10 RAMS, rounded down. *)
BytesOf(rams) == (rams * BytesPerInscription) \div RamsPerInscription

(* Mutant: every conversion counts a veteran. *)
VeteranStatAgain(from, rams) ==
    [veteranStat EXCEPT !.total_veterans = @ + 1,
                        !.total_rams = @ + rams, !.total_bytes = @ + BytesOf(rams)]

VeteranStat(from, rams) ==
    [veteranStat EXCEPT !.total_veterans = @ + IF veterans[from].exists THEN 0 ELSE 1,
                        !.total_rams = @ + rams, !.total_bytes = @ + BytesOf(rams)]

(* RAMS sent to honor.rms. After the deadline they are converted all the same. *)
Convert(from, rams) ==
    /\ ~ honorConfig.disabled_convert
    /\ RamsMoved(from, HonorAccount, rams)
    /\ Rams2V(from, BytesOf(rams))
    /\ IF now > honorConfig.veteran_deadline THEN UNCHANGED <<veterans, veteranStat>>
       ELSE /\ veterans' = [veterans EXCEPT
                 ![from].exists = TRUE, ![from].rams = @ + rams, ![from].bytes = @ + BytesOf(rams)]
            /\ veteranStat' = VeteranStat(from, rams)
    /\ stakeGiven' = stakeGiven + stakes'[from].amount - stakes[from].amount
    /\ UNCHANGED <<honorConfig, btcHeld, btcIgnored>>

UpdateStatus(disabled, deadline) ==
    /\ honorConfig' = [disabled_convert |-> disabled, veteran_deadline |-> deadline]
    /\ UNCHANGED <<vars, swapVars, fundVars, stakeGiven>>

-----------------------------------------------------------------------------
(* The gas fund. *)

Veterans == {a \in Accounts : veterans[a].exists}

(* Mutant: the smallest veteran comes first. *)
ServedBeforeUp(a, b) ==
    \/ veterans[a].bytes < veterans[b].bytes
    \/ veterans[a].bytes = veterans[b].bytes /\ NameValue[a] < NameValue[b]

(* The index bybytes walked backwards. *)
ServedBefore(a, b) ==
    \/ veterans[a].bytes > veterans[b].bytes
    \/ veterans[a].bytes = veterans[b].bytes /\ NameValue[a] > NameValue[b]

ServedLast(a) == \A b \in Veterans \ {a} : ServedBefore(b, a)

Proportion(a, amount) == (veterans[a].bytes * amount) \div veteranStat.total_bytes

(* What a veteran gets: its proportion, the last one what the others left, and
   nobody anything from the first that gets 0 on. *)
Gain(a, amount) ==
    LET proportions == [b \in Accounts |-> Proportion(b, amount)]
        others      == {b \in Veterans : ~ ServedLast(b)}
        served      == \A b \in others :
                          b = a \/ ServedBefore(b, a) => proportions[b] > 0
    IN CASE ~ served                -> 0
         [] served /\ ServedLast(a) -> amount - SumFunctionOnSet(proportions, others)
         [] OTHER                   -> proportions[a]

(* BTC sent to honor.rms with memo "gasfund", by rambank.eos or anyone else. *)
DistributeToVeterans(amount) ==
    /\ veteranStat.total_bytes > 0
    /\ veteranStat.total_veterans > 0
    /\ veterans' = [a \in Accounts |->
         IF a \in Veterans THEN [veterans[a] EXCEPT !.unclaimed = @ + Gain(a, amount)]
         ELSE veterans[a]]
    /\ veteranStat' = [veteranStat EXCEPT !.total_unclaimed = @ + amount]
    /\ btcHeld' = btcHeld + amount
    /\ UNCHANGED <<honorConfig, btcIgnored, stakeGiven>>

(* do_distribute_gasfund: the part of the veterans, and rent paid by
   UtxoManager with the rest; no transfer of 0 is sent. *)
GasFund(amount) ==
    LET forVeterans == (amount * VeteranRatio) \div RatioPrecision
        forStakers  == amount - forVeterans IN
    /\ IF forVeterans > 0 THEN DistributeToVeterans(forVeterans) ELSE UNCHANGED honorVars
    /\ IF forStakers > 0 THEN Rent(Btc, UtxoManager, forStakers) ELSE UNCHANGED vars
    /\ UNCHANGED swapVars

DirectGasFund(amount) == DistributeToVeterans(amount) /\ UNCHANGED <<vars, swapVars>>

IgnoredBtc(amount) ==
    /\ btcHeld' = btcHeld + amount
    /\ btcIgnored' = btcIgnored + amount
    /\ UNCHANGED <<vars, swapVars, honorConfig, veterans, veteranStat, stakeGiven>>

(* claim asks for nobody's authority: anyone can have a veteran paid. *)
ClaimGas(a) ==
    LET amount == veterans[a].unclaimed IN
    /\ amount > 0
    /\ veteranStat.total_unclaimed >= amount
    /\ amount <= btcHeld
    /\ veterans' = [veterans EXCEPT ![a].claimed = @ + amount, ![a].unclaimed = 0]
    /\ veteranStat' = [veteranStat EXCEPT !.total_unclaimed = @ - amount,
                                          !.total_claimed = @ + amount]
    /\ btcHeld' = btcHeld - amount
    /\ UNCHANGED <<vars, swapVars, honorConfig, btcIgnored, stakeGiven>>

-----------------------------------------------------------------------------

FundReceived == veteranStat.total_unclaimed + veteranStat.total_claimed + btcIgnored

HonorNext ==
    \/ \E a \in Holders, n \in RamsAmounts : Convert(a, n)
    \/ \E disabled \in BOOLEAN, t \in Deadlines : UpdateStatus(disabled, t)
    \/ \E n \in GasFunds :
         /\ FundReceived + n <= MaxGasFund
         /\ rentTokens[Btc].total_rent_received + n <= MaxRent
         /\ GasFund(n)
    \/ \E n \in GasFunds : FundReceived + n <= MaxGasFund /\ DirectGasFund(n)
    \/ \E n \in GasFunds : FundReceived + n <= MaxGasFund /\ IgnoredBtc(n)
    \/ \E a \in Accounts : ClaimGas(a)

(* The other actions of stake.rms. *)
StakeOnlyNext ==
    /\ \/ OwnNext
       \/ \E a \in Accounts, n \in Amounts : vBalance + n <= MaxSupply /\ OnStake(a, n)
       \/ \E a \in Accounts, n \in Amounts \cup {0} : Unstake(a, n)
       \/ \E a \in Accounts, i \in UnstakeIds : Restake(a, i)
       \/ \E a \in Accounts : Withdraw(a)
       \/ \E a \in Accounts, n \in Amounts : RepayRam(a, n)
       \/ \E n \in Amounts : vBalance + n <= MaxSupply /\ IgnoredV(n)
       \/ RentNext
       \/ Tick
    /\ UNCHANGED <<swapVars, honorVars>>

RamsNext == SwapNext /\ UNCHANGED <<vars, honorVars>>

HonorSpec == HonorInit /\ [][HonorNext \/ StakeOnlyNext \/ RamsNext]_allVars

-----------------------------------------------------------------------------
(* Properties. *)

SumOver(value(_), S) == SumFunctionOnSet([a \in S |-> value(a)], S)

(* Across three contracts, RAMS_DAO never gives more stake than the RAM that was
   sent to ramsdao.eos: the stake that rams2v has moved to those who converted, before
   the deadline or after it, is no more than those bytes, and is covered by the RAMS
   that honor.rms took; the RAMS that can still be converted are covered as well. What
   is written into the rows of the veterans is worth no more than their RAMS.  No RAMS
   exist but those of erased inscriptions. *)
RamsBacked ==
    LET held(a) == ramsBalance[a]
        bytes(a) == veterans[a].bytes
        rams(a) == veterans[a].rams
        erased(a) == Minted[a] - mintcount[a]
    IN
    /\ stakeGiven <= bytesToDao
    /\ RamsPerInscription * stakeGiven <= BytesPerInscription * ramsBalance[HonorAccount]
    /\ BytesPerInscription * SumOver(held, Holders \cup {HonorAccount})
         <= RamsPerInscription * bytesToDao
    /\ SumOver(rams, Accounts) <= ramsBalance[HonorAccount]
    /\ RamsPerInscription * SumOver(bytes, Accounts) <= BytesPerInscription * SumOver(rams, Accounts)
    /\ ramsSupply = SumOver(held, RamsAccounts)
    /\ ramsSupply = RamsPerInscription * SumOver(erased, Holders)

(* The totals the fund is divided by are those of the table, what is counted as
   unclaimed is held, and it covers what the veterans can claim, so that no claim
   is refused for want of BTC. *)
VeteransTotalled ==
    LET bytes(a) == veterans[a].bytes
        claimed(a) == veterans[a].claimed
        unclaimed(a) == veterans[a].unclaimed
    IN
    /\ veteranStat.total_veterans = Cardinality(Veterans)
    /\ veteranStat.total_bytes = SumOver(bytes, Accounts)
    /\ veteranStat.total_claimed = SumOver(claimed, Accounts)
    /\ btcHeld = veteranStat.total_unclaimed + btcIgnored
    /\ SumOver(unclaimed, Accounts) <= veteranStat.total_unclaimed

(* A distribution gives every veteran at least its proportion of the amount,
   rounded down, although it stops at the first veteran who gets nothing; it never
   gives out more than the amount, and gives it out whole when every veteran but
   the last is due something. *)
GasFundShared ==
    [][veteranStat'.total_unclaimed > veteranStat.total_unclaimed =>
         LET amount == veteranStat'.total_unclaimed - veteranStat.total_unclaimed
             gains  == [a \in Accounts |-> veterans'[a].unclaimed - veterans[a].unclaimed]
             given  == SumFunctionOnSet(gains, Accounts)
         IN /\ \A a \in Veterans : gains[a] >= Proportion(a, amount)
            /\ given <= amount
            /\ (\A a \in Veterans : ServedLast(a) \/ Proportion(a, amount) > 0)
                 => given = amount]_allVars

=============================================================================
