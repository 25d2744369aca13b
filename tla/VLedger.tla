-------------------------------- MODULE VLedger --------------------------------
(***************************************************************************)
(* What the token V promises, whatever contracts hold it: V is made for    *)
(* its owners only against as much RAM, and an owner's V is its own until  *)
(* it pays it out, whether it is held, staked or waiting to be withdrawn.  *)
(* The issuer alone may issue and retire V without RAM, its own.           *)
(***************************************************************************)
EXTENDS Integers, FiniteSets, Functions

CONSTANTS
    Owners,          \* accounts that own V
    Issuer,          \* the account of the token contract, an owner
    Deposits,        \* what each account is given when the migration runs
    InitialBacking,  \* RAM behind V at the beginning
    MaxSupply        \* max_supply of V

(* What the constants are. *)
LedgerAssumption ==
    /\ IsFiniteSet(Owners) /\ Issuer \in Owners
    /\ Deposits \in [Owners -> Nat]
    /\ InitialBacking \in Nat /\ MaxSupply \in Nat

VARIABLES
    wealth,   \* V of each owner
    fund,     \* V given for the migrated deposits, less those deposits
    supply,   \* supply of V
    backing,  \* RAM behind V: held or lent
    migrated  \* whether the migration has run

ledgerVars == <<wealth, fund, supply, backing, migrated>>

LedgerTypeOK ==
    /\ wealth \in [Owners -> Nat] /\ fund \in Int
    /\ supply \in 0..MaxSupply /\ backing \in Nat /\ migrated \in BOOLEAN

LedgerInit ==
    /\ wealth = [a \in Owners |-> 0] /\ fund = 0
    /\ supply = 0 /\ backing = InitialBacking /\ migrated = FALSE

Positive == 1..MaxSupply

(* The amounts an owner can pay out: the migrated deposits may add up to more
   than was issued. *)
Payable(a) == 1..wealth[a]

(* One transaction may convert for several owners. *)
Convert(gain) ==
    LET made == SumFunctionOnSet(gain, Owners) IN
    /\ gain[Issuer] = 0
    /\ supply + made <= MaxSupply
    /\ wealth' = [a \in Owners |-> wealth[a] + gain[a]]
    /\ supply' = supply + made
    /\ backing' = backing + made
    /\ UNCHANGED <<fund, migrated>>

Pay(a, b, n) ==
    /\ a # b
    /\ wealth' = [wealth EXCEPT ![a] = @ - n, ![b] = @ + n]
    /\ UNCHANGED <<fund, supply, backing, migrated>>

Give(a, n) ==
    /\ wealth' = [wealth EXCEPT ![a] = @ - n]
    /\ fund' = fund + n
    /\ UNCHANGED <<supply, backing, migrated>>

IssueOwn(n) ==
    /\ supply + n <= MaxSupply
    /\ wealth' = [wealth EXCEPT ![Issuer] = @ + n]
    /\ supply' = supply + n
    /\ UNCHANGED <<fund, backing, migrated>>

RetireOwn(n) ==
    /\ n <= supply
    /\ wealth' = [wealth EXCEPT ![Issuer] = @ - n]
    /\ supply' = supply - n
    /\ UNCHANGED <<fund, backing, migrated>>

Migrate ==
    /\ ~ migrated
    /\ migrated' = TRUE
    /\ wealth' = [a \in Owners |-> wealth[a] + Deposits[a]]
    /\ fund' = fund - SumFunctionOnSet(Deposits, Owners)
    /\ UNCHANGED <<supply, backing>>

LedgerNext ==
    \/ \E gain \in [Owners -> 0..MaxSupply] : Convert(gain)
    \/ \E a, b \in Owners : \E n \in Payable(a) : Pay(a, b, n)
    \/ \E a \in Owners : \E n \in Payable(a) : Give(a, n)
    \/ \E n \in Positive : IssueOwn(n)
    \/ \E n \in Payable(Issuer) : RetireOwn(n)
    \/ Migrate

LedgerSpec == LedgerInit /\ [][LedgerNext]_ledgerVars

(* Every V of the supply is somebody's, or in the fund. *)
LedgerConserved == SumFunctionOnSet(wealth, Owners) + fund = supply

=============================================================================
