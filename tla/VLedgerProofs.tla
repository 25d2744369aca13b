----------------------------- MODULE VLedgerProofs -----------------------------
(***************************************************************************)
(* What the promise of the V ledger is worth: whatever conversions,        *)
(* payments, migrations and acts of the issuer happen, every V of the      *)
(* supply is somebody's, or given for the migrated deposits.               *)
(***************************************************************************)
EXTENDS VLedger, NumberLemmas

(* A ledger never turns negative, and it adds up. *)
LedgerInv == LedgerTypeOK /\ LedgerConserved

(* A change of one owner's V changes the sum as much. *)
LEMMA OneOwner ==
    ASSUME LedgerAssumption, wealth \in [Owners -> Nat], wealth' \in [Owners -> Nat],
           NEW a \in Owners, NEW n \in Int, wealth'[a] = wealth[a] + n,
           \A x \in Owners \ {a} : wealth'[x] = wealth[x]
    PROVE  SumFunctionOnSet(wealth', Owners) = SumFunctionOnSet(wealth, Owners) + n
<1>1. \A x \in Owners : wealth[x] \in Int /\ wealth'[x] \in Int
  OBVIOUS
<1>2. \A x \in Owners : x # a => wealth'[x] = wealth[x]
  OBVIOUS
<1>3. SumFunctionOnSet(wealth', Owners)
        = SumFunctionOnSet(wealth, Owners) + wealth'[a] - wealth[a]
  BY <1>1, <1>2, SumUpdate DEF LedgerAssumption
<1>4. SumFunctionOnSet(wealth, Owners) \in Int
  BY <1>1, SumInt DEF LedgerAssumption
<1> QED BY <1>1, <1>3, <1>4

(* What several owners gain together adds up. *)
LEMMA ManyOwners ==
    ASSUME LedgerAssumption, wealth \in [Owners -> Nat], NEW gain \in [Owners -> Int]
    PROVE  SumFunctionOnSet([a \in Owners |-> wealth[a] + gain[a]], Owners)
             = SumFunctionOnSet(wealth, Owners) + SumFunctionOnSet(gain, Owners)
<1> DEFINE after == [a \in Owners |-> wealth[a] + gain[a]]
<1>1. \A x \in Owners : wealth[x] \in Int /\ gain[x] \in Int
  OBVIOUS
<1>2. \A x \in Owners : after[x] = wealth[x] + gain[x]
  OBVIOUS
<1> HIDE DEF after
<1>3. SumFunctionOnSet(after, Owners)
        = SumFunctionOnSet(wealth, Owners) + SumFunctionOnSet(gain, Owners)
  BY <1>1, <1>2, SumPlus DEF LedgerAssumption
<1> QED BY <1>3 DEF after

(* Every step keeps the books. *)
LEMMA LedgerStep ==
    ASSUME LedgerAssumption, LedgerInv, [LedgerNext]_ledgerVars
    PROVE  LedgerInv'
<1> DEFINE Total == SumFunctionOnSet(wealth, Owners)
<1> USE DEF LedgerInv, LedgerTypeOK, LedgerConserved
<1>1. Total \in Int
  BY SumInt DEF LedgerAssumption
<1> USE <1>1
<1>2. CASE \E gain \in [Owners -> 0..MaxSupply] : Convert(gain)
  <2>1. PICK gain \in [Owners -> 0..MaxSupply] : Convert(gain)
    BY <1>2
  <2> DEFINE made == SumFunctionOnSet(gain, Owners)
  <2>2. \A x \in Owners : gain[x] \in Nat
    BY DEF LedgerAssumption
  <2>3. made \in Nat
    BY <2>2, SumNat DEF LedgerAssumption
  <2>4. gain \in [Owners -> Int]
    BY DEF LedgerAssumption
  <2>5. SumFunctionOnSet(wealth', Owners) = Total + made
    BY <2>1, <2>4, ManyOwners DEF Convert
  <2>6. wealth' \in [Owners -> Nat]
    BY <2>1, <2>2 DEF Convert
  <2>7. supply' = supply + made /\ supply' <= MaxSupply /\ backing' = backing + made
        /\ fund' = fund /\ migrated' = migrated
    BY <2>1 DEF Convert
  <2> HIDE DEF made, Total
  <2>8. SumFunctionOnSet(wealth', Owners) + fund' = supply'
    BY <2>5, <2>7, <2>3 DEF Total
  <2>9. supply' \in 0..MaxSupply /\ backing' \in Nat
    BY <2>3, <2>7 DEF LedgerAssumption
  <2> QED BY <2>6, <2>7, <2>8, <2>9
<1>3. CASE \E a, b \in Owners : \E n \in Payable(a) : Pay(a, b, n)
  <2>1. PICK a \in Owners, b \in Owners, n \in Nat : n \in Payable(a) /\ Pay(a, b, n)
    BY <1>3 DEF Payable
  <2>2. n \in Nat /\ n <= wealth[a] /\ a # b
    BY <2>1 DEF Pay, Payable
  <2> DEFINE gain == [x \in Owners |-> IF x = a THEN -n ELSE IF x = b THEN n ELSE 0]
  <2> DEFINE rest == [x \in Owners |-> IF x = b THEN n ELSE 0]
  <2> DEFINE none == [x \in Owners |-> 0]
  <2>3. gain \in [Owners -> Int] /\ rest \in [Owners -> Int] /\ none \in [Owners -> Int]
    BY <2>2
  <2>4. wealth' = [x \in Owners |-> wealth[x] + gain[x]] /\ wealth' \in [Owners -> Nat]
    <3>1. wealth' = [wealth EXCEPT ![a] = @ - n, ![b] = @ + n]
      BY <2>1 DEF Pay
    <3>2. wealth' \in [Owners -> Nat]
      BY <2>2, <3>1
    <3>3. \A x \in Owners : wealth'[x] = wealth[x] + gain[x]
      BY <2>2, <3>1
    <3> QED BY <3>2, <3>3
  <2>5. gain[a] = -n /\ rest[a] = 0 /\ \A x \in Owners : x # a => gain[x] = rest[x]
    BY <2>2
  <2>6. rest[b] = n /\ none[b] = 0 /\ \A x \in Owners : x # b => rest[x] = none[x]
    BY <2>2
  <2>7. \A x \in Owners : none[x] = 0
    OBVIOUS
  <2> HIDE DEF gain, rest, none
  <2>8. SumFunctionOnSet(none, Owners) = 0
    BY <2>7, SumZero DEF LedgerAssumption
  <2>9. SumFunctionOnSet(rest, Owners) = SumFunctionOnSet(none, Owners) + rest[b] - none[b]
    BY <2>3, <2>6, SumUpdate DEF LedgerAssumption
  <2>10. SumFunctionOnSet(gain, Owners) = SumFunctionOnSet(rest, Owners) + gain[a] - rest[a]
    BY <2>3, <2>5, SumUpdate DEF LedgerAssumption
  <2>11. SumFunctionOnSet(gain, Owners) = 0
    BY <2>2, <2>5, <2>6, <2>8, <2>9, <2>10
  <2>12. SumFunctionOnSet(wealth', Owners) = Total + SumFunctionOnSet(gain, Owners)
    BY <2>3, <2>4, ManyOwners
  <2>13. UNCHANGED <<fund, supply, backing, migrated>>
    BY <2>1 DEF Pay
  <2> QED BY <2>4, <2>11, <2>12, <2>13
<1>4. CASE \E a \in Owners : \E n \in Payable(a) : Give(a, n)
  <2>1. PICK a \in Owners, n \in Nat : n \in Payable(a) /\ Give(a, n)
    BY <1>4 DEF Payable
  <2>2. n \in Nat /\ -n \in Int /\ n <= wealth[a]
    BY <2>1 DEF Give, Payable
  <2>3. wealth' \in [Owners -> Nat] /\ wealth'[a] = wealth[a] + (-n)
        /\ \A x \in Owners \ {a} : wealth'[x] = wealth[x]
    BY <2>1, <2>2 DEF Give
  <2>4. SumFunctionOnSet(wealth', Owners) = Total + (-n)
    BY <2>2, <2>3, OneOwner
  <2>5. fund' = fund + n /\ UNCHANGED <<supply, backing, migrated>>
    BY <2>1 DEF Give
  <2> QED BY <2>2, <2>3, <2>4, <2>5
<1>5. CASE \E n \in Positive : IssueOwn(n)
  <2>1. PICK n \in Positive : IssueOwn(n)
    BY <1>5
  <2>2. n \in Nat /\ Issuer \in Owners
    BY DEF Positive, LedgerAssumption
  <2>3. wealth' \in [Owners -> Nat] /\ wealth'[Issuer] = wealth[Issuer] + n
        /\ \A x \in Owners \ {Issuer} : wealth'[x] = wealth[x]
    BY <2>1, <2>2 DEF IssueOwn
  <2>4. SumFunctionOnSet(wealth', Owners) = Total + n
    BY <2>2, <2>3, OneOwner
  <2>5. supply' = supply + n /\ supply' <= MaxSupply /\ UNCHANGED <<fund, backing, migrated>>
    BY <2>1 DEF IssueOwn
  <2> QED BY <2>2, <2>3, <2>4, <2>5 DEF LedgerAssumption
<1>6. CASE \E n \in Payable(Issuer) : RetireOwn(n)
  <2>1. PICK n \in Payable(Issuer) : RetireOwn(n)
    BY <1>6
  <2>2. n \in Nat /\ -n \in Int /\ Issuer \in Owners /\ n <= wealth[Issuer]
    BY <2>1 DEF RetireOwn, Payable, LedgerAssumption
  <2>3. wealth' \in [Owners -> Nat] /\ wealth'[Issuer] = wealth[Issuer] + (-n)
        /\ \A x \in Owners \ {Issuer} : wealth'[x] = wealth[x]
    BY <2>1, <2>2 DEF RetireOwn
  <2>4. SumFunctionOnSet(wealth', Owners) = Total + (-n)
    BY <2>2, <2>3, OneOwner
  <2>5. supply' = supply - n /\ n <= supply /\ UNCHANGED <<fund, backing, migrated>>
    BY <2>1 DEF RetireOwn
  <2> QED BY <2>2, <2>3, <2>4, <2>5 DEF LedgerAssumption
<1>7. CASE Migrate
  <2>1. Deposits \in [Owners -> Int] /\ \A x \in Owners : Deposits[x] \in Nat
    BY DEF LedgerAssumption
  <2>2. SumFunctionOnSet(Deposits, Owners) \in Nat
    BY <2>1, SumNat DEF LedgerAssumption
  <2>3. wealth' = [a \in Owners |-> wealth[a] + Deposits[a]] /\ wealth' \in [Owners -> Nat]
    BY <1>7, <2>1 DEF Migrate
  <2>4. SumFunctionOnSet(wealth', Owners) = Total + SumFunctionOnSet(Deposits, Owners)
    BY <2>1, <2>3, ManyOwners
  <2>5. fund' = fund - SumFunctionOnSet(Deposits, Owners)
        /\ migrated' = TRUE /\ UNCHANGED <<supply, backing>>
    BY <1>7 DEF Migrate
  <2> QED BY <2>2, <2>3, <2>4, <2>5
<1>8. CASE UNCHANGED ledgerVars
  BY <1>8 DEF ledgerVars
<1> QED BY <1>2, <1>3, <1>4, <1>5, <1>6, <1>7, <1>8 DEF LedgerNext

(* The supply of V is never more nor less than what its owners hold and what was
   given for the migrated deposits, with any number of owners. *)
THEOREM LedgerStaysConserved ==
    ASSUME LedgerAssumption PROVE LedgerSpec => []LedgerConserved
<1>1. LedgerInit => LedgerInv
  <2> SUFFICES ASSUME LedgerInit PROVE LedgerInv
    OBVIOUS
  <2>1. SumFunctionOnSet(wealth, Owners) = 0
    <3>1. \A x \in Owners : wealth[x] = 0
      BY DEF LedgerInit
    <3> QED BY <3>1, SumZero DEF LedgerAssumption
  <2>2. LedgerConserved
    BY <2>1 DEF LedgerInit, LedgerConserved
  <2>3. wealth \in [Owners -> Nat] /\ migrated \in BOOLEAN
    BY DEF LedgerInit
  <2>4. fund \in Int /\ supply \in 0..MaxSupply /\ backing \in Nat
    BY DEF LedgerInit, LedgerAssumption
  <2> QED BY <2>2, <2>3, <2>4 DEF LedgerInv, LedgerTypeOK
<1>2. LedgerInv /\ [LedgerNext]_ledgerVars => LedgerInv'
  BY LedgerStep
<1>3. LedgerInv => LedgerConserved
  BY DEF LedgerInv
<1> QED BY <1>1, <1>2, <1>3, PTL DEF LedgerSpec

=============================================================================
