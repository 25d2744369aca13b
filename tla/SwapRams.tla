-------------------------------- MODULE SwapRams --------------------------------
(***************************************************************************)
(* RAMS: the inscriptions of rams.eos, their swap for RAMS tokens at       *)
(* ramstge.eos (swaprams.eos), and the balances of newrams.eos.            *)
(*                                                                         *)
(* Minting and transfers of inscriptions are closed, so inscriptions are   *)
(* only erased: each gives RamsPerInscription RAMS, to its owner against   *)
(* BytesPerInscription bytes of RAM, or to eosio.null when it is burnt.    *)
(***************************************************************************)
EXTENDS Integers, FiniteSets, Functions

CONSTANTS
    Holders,              \* accounts that hold inscriptions and RAMS
    NullAccount,          \* eosio.null
    HonorAccount,         \* honor.rms
    Deployer,             \* the account whose mints row is the deployment
    BytesPerInscription,  \* RAM_BYTES_PER_INSCRIPTION
    RamsPerInscription,   \* RAMS issued for one inscription, 10 in the code
    Minted,               \* inscriptions of each account when swapping begins
    MaxRams,              \* max_supply of RAMS
    \* Bounds of the instance: inscriptions burnt, bytes sent, RAMS transferred.
    Nums, SwapBytes, RamsAmounts

ASSUME SwapAssumption ==
    /\ IsFiniteSet(Holders) /\ Deployer \in Holders
    /\ NullAccount \notin Holders /\ HonorAccount \notin Holders
    /\ NullAccount # HonorAccount
    /\ BytesPerInscription \in Nat \ {0} /\ RamsPerInscription \in Nat \ {0}
    /\ Minted \in [Holders -> Nat] /\ MaxRams \in Nat
    /\ Nums \subseteq Nat /\ SwapBytes \subseteq Nat /\ RamsAmounts \subseteq Nat

VARIABLES
    swapDisabled,  \* the config singleton of ramstge.eos
    mintcount,     \* the users table of rams.eos; a count of 0 is no row
    mints,         \* number of rows of an account in mints
    usermints,     \* number of rows in usermints of an account
    ramsSupply,    \* supply of RAMS
    ramsBalance,   \* the accounts table of newrams.eos
    bytesToDao     \* bytes of RAM ramstge.eos sent on to ramsdao.eos

tables   == <<mintcount, mints, usermints>>
ramsVars == <<ramsSupply, ramsBalance>>
swapVars == <<swapDisabled, tables, ramsVars, bytesToDao>>

RamsAccounts == Holders \cup {NullAccount, HonorAccount}

SwapTypeOK ==
    /\ swapDisabled \in BOOLEAN
    /\ mintcount \in [Holders -> Nat]
    /\ mints \in [Holders -> Nat] /\ usermints \in [Holders -> Nat]
    /\ ramsSupply \in 0..MaxRams
    /\ ramsBalance \in [RamsAccounts -> Nat]
    /\ bytesToDao \in Nat

SwapInit ==
    /\ swapDisabled = FALSE
    /\ mintcount = Minted /\ usermints = Minted
    /\ mints = [a \in Holders |-> Minted[a] + IF a = Deployer THEN 1 ELSE 0]
    /\ ramsSupply = 0
    /\ ramsBalance = [a \in RamsAccounts |-> 0]
    /\ bytesToDao = 0

-----------------------------------------------------------------------------

SetSwap(disabled) ==
    /\ swapDisabled' = disabled
    /\ UNCHANGED <<tables, ramsVars, bytesToDao>>

(* Mutant: the count is decremented before it is tested. *)
WalkedShort(owner, nums) ==
    IF mints[owner] = 0 THEN 0
    ELSE IF nums - 1 < usermints[owner] THEN nums - 1 ELSE usermints[owner]

(* Rows over which the walks of erase go, until one table ends. *)
Walked(owner, nums) ==
    IF mints[owner] = 0 THEN 0 ELSE IF nums < usermints[owner] THEN nums ELSE usermints[owner]

(* rams::erase. *)
Erase(owner, nums) ==
    /\ nums > 0
    /\ mintcount[owner] > 0
    /\ mintcount[owner] >= nums
    /\ mintcount' = [mintcount EXCEPT ![owner] = @ - nums]
    /\ mints' = [mints EXCEPT ![owner] = @ - Walked(owner, nums)]
    /\ usermints' = [usermints EXCEPT ![owner] = @ - Walked(owner, nums)]

(* token::issue to ramstge.eos, which passes the RAMS on. *)
IssueRams(to, nums) ==
    LET amount == nums * RamsPerInscription IN
    /\ ramsSupply + amount <= MaxRams
    /\ ramsSupply' = ramsSupply + amount
    /\ ramsBalance' = [ramsBalance EXCEPT ![to] = @ + amount]

Burn(owner, nums) ==
    /\ ~ swapDisabled
    /\ Erase(owner, nums)
    /\ IssueRams(NullAccount, nums)
    /\ UNCHANGED <<swapDisabled, bytesToDao>>

(* do_swap: the bytes go to ramsdao.eos whole. *)
Swap(owner, bytes) ==
    LET nums == bytes \div BytesPerInscription IN
    /\ ~ swapDisabled
    /\ bytes > 0 /\ bytes % BytesPerInscription = 0
    /\ Erase(owner, nums)
    /\ IssueRams(owner, nums)
    /\ bytesToDao' = bytesToDao + bytes
    /\ UNCHANGED swapDisabled

(* token::transfer; ramstge.eos refuses to be sent tokens. *)
RamsMoved(from, to, amount) ==
    /\ from # to
    /\ amount > 0
    /\ amount <= ramsBalance[from]
    /\ ramsBalance' = [ramsBalance EXCEPT ![from] = @ - amount, ![to] = @ + amount]
    /\ UNCHANGED <<swapDisabled, tables, ramsSupply, bytesToDao>>

SwapNext ==
    \/ \E disabled \in BOOLEAN : SetSwap(disabled)
    \/ \E a \in Holders, n \in Nums : Burn(a, n)
    \/ \E a \in Holders, n \in SwapBytes : Swap(a, n)
    \/ \E a \in Holders, b \in Holders \cup {NullAccount}, n \in RamsAmounts : RamsMoved(a, b, n)

=============================================================================
