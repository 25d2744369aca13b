---------------------------- MODULE HonorRmsProofs ----------------------------
(***************************************************************************)
(* Proofs about honor.rms composed with the swap of inscriptions and with  *)
(* stake.rms: RAMS_DAO gives no more stake for RAMS than the RAM that was  *)
(* sent for them, the totals of the veterans stay those of their table,    *)
(* and a gas fund is shared as promised, for any number of holders,        *)
(* veterans and distributions.                                             *)
(***************************************************************************)
EXTENDS HonorRms, StakeRmsProofs

(* The three tables of inscriptions agree. *)
TablesAgree ==
    \A a \in Holders :
        /\ usermints[a] = mintcount[a]
        /\ mints[a] = mintcount[a] + IF a = Deployer THEN 1 ELSE 0

(* The rows of the veterans and of their totals. *)
VeteranTypes ==
    /\ honorConfig \in [disabled_convert : BOOLEAN, veteran_deadline : Nat]
    /\ veterans \in [Accounts -> VeteranRow]
    /\ veteranStat \in [total_rams : Nat, total_bytes : Nat, total_veterans : Nat,
                        total_unclaimed : Nat, total_claimed : Nat]
    /\ btcHeld \in Nat /\ btcIgnored \in Nat

(* An account that is no veteran has no share. *)
NoShare == \A a \in Accounts : ~ veterans[a].exists => veterans[a] = NoVeteran

(* The sums the properties compare: RAMS held by the accounts of S, inscriptions
   erased, and each column of the table of veterans. *)
HeldIn(table, S) == SumFunctionOnSet([a \in S |-> table[a]], S)
HeldBy(S)      == HeldIn(ramsBalance, S)
ErasedTotal    == SumFunctionOnSet([a \in Holders |-> Minted[a] - mintcount[a]], Holders)
RamsTotal      == SumFunctionOnSet([a \in Accounts |-> veterans[a].rams], Accounts)
BytesTotal     == SumFunctionOnSet([a \in Accounts |-> veterans[a].bytes], Accounts)
ClaimedTotal   == SumFunctionOnSet([a \in Accounts |-> veterans[a].claimed], Accounts)
UnclaimedTotal == SumFunctionOnSet([a \in Accounts |-> veterans[a].unclaimed], Accounts)

(* RAMS are issued for inscriptions, against RAM or to eosio.null. *)
Convertible == Holders \cup {HonorAccount}

RamsIssued ==
    /\ BytesPerInscription * HeldBy(Convertible) <= RamsPerInscription * bytesToDao
    /\ ramsSupply = HeldBy(RamsAccounts)
    /\ ramsSupply = RamsPerInscription * ErasedTotal

(* What the veterans hold is worth what honor.rms took. *)
BytesGiven ==
    /\ RamsTotal <= ramsBalance[HonorAccount]
    /\ RamsPerInscription * BytesTotal <= BytesPerInscription * RamsTotal

(* The stake rams2v has moved is covered by the RAMS that honor.rms took. *)
GivenCovered ==
    /\ stakeGiven \in Nat
    /\ RamsPerInscription * stakeGiven <= BytesPerInscription * ramsBalance[HonorAccount]

(* The invariant needs no strengthening but the rows that are not there: a step
   preserves the properties of the two halves together.  What rams2v moves is in the
   tables of stake.rms, so GivenCovered needs the invariant of stake.rms as well, and
   is shown beside this one. *)
RamsInv == SwapTypeOK /\ TablesAgree /\ RamsIssued
FundInv == VeteranTypes /\ NoShare /\ VeteransTotalled
HonorInv == RamsInv /\ FundInv /\ BytesGiven

LEMMA InvariantParts ==
    /\ HonorTypeOK <=> SwapTypeOK /\ TablesAgree /\ VeteranTypes /\ NoShare
                         /\ stakeGiven \in Nat
    /\ RamsBacked <=>
         /\ stakeGiven <= bytesToDao
         /\ RamsPerInscription * stakeGiven <= BytesPerInscription * ramsBalance[HonorAccount]
         /\ RamsIssued /\ BytesGiven
    /\ VeteransTotalled <=>
         /\ veteranStat.total_veterans = Cardinality(Veterans)
         /\ veteranStat.total_bytes = BytesTotal
         /\ veteranStat.total_claimed = ClaimedTotal
         /\ btcHeld = veteranStat.total_unclaimed + btcIgnored
         /\ UnclaimedTotal <= veteranStat.total_unclaimed
<1>1. HonorTypeOK <=> SwapTypeOK /\ TablesAgree /\ VeteranTypes /\ NoShare
                        /\ stakeGiven \in Nat
  BY DEF HonorTypeOK, TablesAgree, VeteranTypes, NoShare
<1>2. RamsBacked <=>
         /\ stakeGiven <= bytesToDao
         /\ RamsPerInscription * stakeGiven <= BytesPerInscription * ramsBalance[HonorAccount]
         /\ RamsIssued /\ BytesGiven
  BY DEF RamsBacked, RamsIssued, BytesGiven, SumOver, HeldIn, HeldBy, Convertible, ErasedTotal,
         RamsTotal, BytesTotal
<1>3. VeteransTotalled <=>
         /\ veteranStat.total_veterans = Cardinality(Veterans)
         /\ veteranStat.total_bytes = BytesTotal
         /\ veteranStat.total_claimed = ClaimedTotal
         /\ btcHeld = veteranStat.total_unclaimed + btcIgnored
         /\ UnclaimedTotal <= veteranStat.total_unclaimed
  BY DEF VeteransTotalled, SumOver, BytesTotal, ClaimedTotal, UnclaimedTotal
<1> QED BY <1>1, <1>2, <1>3

-----------------------------------------------------------------------------
(* RAMS. *)

LEMMA AccountsOfRams ==
    /\ IsFiniteSet(Holders) /\ IsFiniteSet(RamsAccounts) /\ IsFiniteSet(Accounts)
    /\ Convertible \subseteq RamsAccounts /\ Holders \subseteq Accounts
    /\ HonorAccount \in RamsAccounts /\ NullAccount \in RamsAccounts
    /\ NullAccount \notin Convertible /\ HonorAccount \notin Holders
<1>1. IsFiniteSet(Holders) /\ IsFiniteSet(Accounts) /\ Holders \subseteq Accounts
  BY SwapAssumption, StakeAssumption, HonorAssumption
<1>2. IsFiniteSet(Holders \cup {NullAccount, HonorAccount})
  <2>1. IsFiniteSet({NullAccount}) /\ IsFiniteSet({HonorAccount})
    BY FS_Singleton
  <2>2. {NullAccount, HonorAccount} = {NullAccount} \cup {HonorAccount}
    OBVIOUS
  <2> QED BY <1>1, <2>1, <2>2, FS_Union
<1> QED BY <1>1, <1>2, SwapAssumption DEF Convertible, RamsAccounts

(* The RAMS of one account change, from one table to the next. *)
Added(f, g, to, n) ==
    \A a \in RamsAccounts : g[a] = IF a = to THEN f[a] + n ELSE f[a]

LEMMA HeldChange ==
    ASSUME NEW f, NEW g, NEW to \in RamsAccounts, NEW n \in Int,
           Added(f, g, to, n), \A a \in RamsAccounts : f[a] \in Int,
           NEW S \in SUBSET RamsAccounts
    PROVE  /\ HeldIn(g, S) = HeldIn(f, S) + IF to \in S THEN n ELSE 0
           /\ HeldIn(f, S) \in Int
<1> DEFINE u == [a \in S |-> f[a]]  v == [a \in S |-> g[a]]
<1>1. IsFiniteSet(S)
  BY AccountsOfRams, FS_Subset
<1>2. \A a \in RamsAccounts : f[a] \in Int /\ g[a] = IF a = to THEN f[a] + n ELSE f[a]
  BY DEF Added
<1>3. \A a \in S : u[a] \in Int /\ v[a] = IF a = to THEN u[a] + n ELSE u[a]
  BY <1>2
<1> HIDE DEF u, v
<1>4. SumFunctionOnSet(u, S) \in Int
  BY <1>1, <1>3, SumInt
<1>5. SumFunctionOnSet(v, S) = SumFunctionOnSet(u, S) + IF to \in S THEN n ELSE 0
  <2>1. CASE to \in S
    <3>1. \A a \in S : u[a] \in Int /\ v[a] \in Int
      BY <1>3
    <3>2. \A a \in S : a # to => v[a] = u[a]
      BY <1>3
    <3>3. SumFunctionOnSet(v, S) = SumFunctionOnSet(u, S) + v[to] - u[to]
      BY <1>1, <2>1, <3>1, <3>2, SumUpdate
    <3> QED BY <1>3, <1>4, <2>1, <3>3
  <2>2. CASE to \notin S
    <3>1. \A a \in S : u[a] \in Int /\ v[a] = u[a]
      BY <1>3, <2>2
    <3> QED BY <1>1, <1>4, <2>2, <3>1, SumSame
  <2> QED BY <2>1, <2>2
<1> QED BY <1>4, <1>5 DEF HeldIn, u, v

(* RAMS move from one account to another. *)
Moved(f, g, from, to, n) ==
    /\ from # to
    /\ \A a \in RamsAccounts : g[a] =
         IF a = from THEN f[a] - n ELSE IF a = to THEN f[a] + n ELSE f[a]

LEMMA HeldMoved ==
    ASSUME NEW f, NEW g, NEW from \in RamsAccounts, NEW to \in RamsAccounts, NEW n \in Int,
           Moved(f, g, from, to, n), \A a \in RamsAccounts : f[a] \in Int,
           NEW S \in SUBSET RamsAccounts
    PROVE  /\ HeldIn(f, S) \in Int
           /\ HeldIn(g, S) = HeldIn(f, S) + (IF from \in S THEN -n ELSE 0)
                               + (IF to \in S THEN n ELSE 0)
<1> DEFINE h == [a \in RamsAccounts |-> IF a = from THEN f[a] + (-n) ELSE f[a]]  m == -n
<1>1. /\ \A a \in RamsAccounts : h[a] \in Int
      /\ Added(f, h, from, m) /\ Added(h, g, to, n) /\ m \in Int
  BY DEF Added, Moved
<1> HIDE DEF h, m
<1>2. /\ HeldIn(h, S) = HeldIn(f, S) + IF from \in S THEN m ELSE 0
      /\ HeldIn(f, S) \in Int
  BY <1>1, HeldChange
<1>3. HeldIn(g, S) = HeldIn(h, S) + IF to \in S THEN n ELSE 0
  BY <1>1, HeldChange
<1> QED BY <1>2, <1>3 DEF m

(* What a step of RAMS leaves of the other half. *)
RamsStep == RamsInv' /\ ramsBalance[HonorAccount] <= ramsBalance'[HonorAccount]

(* erase takes as many rows from each table as it takes off the count. *)
LEMMA EraseFacts ==
    ASSUME SwapTypeOK, TablesAgree, NEW owner \in Holders, NEW nums \in Nat, Erase(owner, nums)
    PROVE  /\ mintcount' \in [Holders -> Nat] /\ mints' \in [Holders -> Nat]
           /\ usermints' \in [Holders -> Nat]
           /\ TablesAgree'
           /\ ErasedTotal \in Int /\ ErasedTotal' = ErasedTotal + nums
<1> DEFINE dep(a) == IF a = Deployer THEN 1 ELSE 0
<1>1. /\ mintcount \in [Holders -> Nat] /\ mints \in [Holders -> Nat]
      /\ usermints \in [Holders -> Nat]
      /\ \A a \in Holders : usermints[a] = mintcount[a] /\ mints[a] = mintcount[a] + dep(a)
      /\ \A a \in Holders : dep(a) \in Nat
  BY DEF SwapTypeOK, TablesAgree
<1> HIDE DEF dep
<1>2. /\ mintcount[owner] > 0 /\ mintcount[owner] >= nums
      /\ mintcount' = [mintcount EXCEPT ![owner] = @ - nums]
      /\ mints' = [mints EXCEPT ![owner] = @ - Walked(owner, nums)]
      /\ usermints' = [usermints EXCEPT ![owner] = @ - Walked(owner, nums)]
  BY DEF Erase
<1>3. Walked(owner, nums) = nums
  BY <1>1, <1>2 DEF Walked
<1>4. mintcount[owner] - nums \in Nat /\ mints[owner] - nums \in Nat
  BY <1>1, <1>2
<1>5. /\ mintcount' \in [Holders -> Nat] /\ mints' \in [Holders -> Nat]
      /\ usermints' \in [Holders -> Nat]
      /\ \A a \in Holders :
           /\ mintcount'[a] = IF a = owner THEN mintcount[a] - nums ELSE mintcount[a]
           /\ mints'[a] = IF a = owner THEN mints[a] - nums ELSE mints[a]
           /\ usermints'[a] = IF a = owner THEN usermints[a] - nums ELSE usermints[a]
  BY <1>1, <1>2, <1>3, <1>4
<1>6. ASSUME NEW a \in Holders
      PROVE  usermints'[a] = mintcount'[a] /\ mints'[a] = mintcount'[a] + dep(a)
  BY <1>1, <1>5
<1>7. TablesAgree'
  BY <1>6 DEF TablesAgree, dep
<1> DEFINE u == [a \in Holders |-> Minted[a] - mintcount[a]]
           v == [a \in Holders |-> Minted[a] - mintcount'[a]]
<1>8. \A a \in Holders : u[a] \in Int /\ v[a] = IF a = owner THEN u[a] + nums ELSE u[a]
  BY <1>1, <1>5, SwapAssumption
<1> HIDE DEF u, v
<1>9. SumFunctionOnSet(u, Holders) \in Int
  BY <1>8, AccountsOfRams, SumInt
<1>10. SumFunctionOnSet(v, Holders) = SumFunctionOnSet(u, Holders) + nums
  <2>1. \A a \in Holders : u[a] \in Int /\ v[a] \in Int
    BY <1>8
  <2>2. \A a \in Holders : a # owner => v[a] = u[a]
    BY <1>8
  <2>3. SumFunctionOnSet(v, Holders) = SumFunctionOnSet(u, Holders) + v[owner] - u[owner]
    BY <2>1, <2>2, AccountsOfRams, SumUpdate
  <2> QED BY <1>8, <1>9, <2>3
<1> QED BY <1>5, <1>7, <1>9, <1>10 DEF ErasedTotal, u, v

(* The RAMS of an inscription, issued against RAM or against none. *)
LEMMA IssueSafe ==
    ASSUME RamsInv, NEW owner \in Holders, NEW nums \in Nat, Erase(owner, nums),
           NEW to \in RamsAccounts, IssueRams(to, nums), UNCHANGED swapDisabled,
           \/ to \notin Convertible /\ UNCHANGED bytesToDao
           \/ bytesToDao' = bytesToDao + nums * BytesPerInscription
    PROVE  RamsStep
<1> DEFINE amount == nums * RamsPerInscription
<1>1. /\ ramsBalance \in [RamsAccounts -> Nat] /\ ramsSupply \in Nat /\ bytesToDao \in Nat
      /\ swapDisabled \in BOOLEAN
  BY SwapAssumption DEF RamsInv, SwapTypeOK
<1>2. /\ amount \in Nat /\ nums * BytesPerInscription \in Nat
      /\ BytesPerInscription \in Nat \ {0} /\ RamsPerInscription \in Nat \ {0}
  BY SwapAssumption, ProductNat
<1>3. /\ ramsSupply + amount <= MaxRams /\ ramsSupply' = ramsSupply + amount
      /\ ramsBalance' = [ramsBalance EXCEPT ![to] = @ + amount]
  BY DEF IssueRams
<1> HIDE DEF amount
<1>4. /\ ramsBalance' \in [RamsAccounts -> Nat]
      /\ \A a \in RamsAccounts : ramsBalance[a] <= ramsBalance'[a]
  BY <1>1, <1>2, <1>3
<1>5. /\ mintcount' \in [Holders -> Nat] /\ mints' \in [Holders -> Nat]
      /\ usermints' \in [Holders -> Nat]
      /\ TablesAgree' /\ ErasedTotal \in Int /\ ErasedTotal' = ErasedTotal + nums
  BY EraseFacts DEF RamsInv
<1>6. SwapTypeOK'
  BY <1>1, <1>2, <1>3, <1>4, <1>5, SwapAssumption DEF SwapTypeOK
<1>7. ASSUME NEW S \in SUBSET RamsAccounts
      PROVE  HeldBy(S) \in Int /\ HeldBy(S)' = HeldBy(S) + IF to \in S THEN amount ELSE 0
  <2>1. /\ \A a \in RamsAccounts : ramsBalance[a] \in Int
        /\ amount \in Int
        /\ Added(ramsBalance, ramsBalance', to, amount)
    BY <1>1, <1>2, <1>3, <1>4 DEF Added
  <2>2. /\ HeldIn(ramsBalance', S) = HeldIn(ramsBalance, S) + IF to \in S THEN amount ELSE 0
        /\ HeldIn(ramsBalance, S) \in Int
    BY <2>1, HeldChange
  <2> QED BY <2>2 DEF HeldBy, HeldIn
<1>8. /\ HeldBy(Convertible) \in Int /\ HeldBy(RamsAccounts) \in Int
      /\ HeldBy(RamsAccounts)' = HeldBy(RamsAccounts) + amount
      /\ HeldBy(Convertible)' = HeldBy(Convertible) + IF to \in Convertible THEN amount ELSE 0
  BY <1>7, AccountsOfRams
<1>9. /\ BytesPerInscription * HeldBy(Convertible) <= RamsPerInscription * bytesToDao
      /\ ramsSupply = HeldBy(RamsAccounts)
      /\ ramsSupply = RamsPerInscription * ErasedTotal
  BY DEF RamsInv, RamsIssued
<1>10. ramsSupply' = RamsPerInscription * ErasedTotal'
  <2>1. RamsPerInscription * (ErasedTotal + nums)
          = RamsPerInscription * ErasedTotal + nums * RamsPerInscription
    BY <1>2, <1>5
  <2> QED BY <1>3, <1>5, <1>9, <2>1 DEF amount
<1>11. BytesPerInscription * HeldBy(Convertible)' <= RamsPerInscription * bytesToDao'
  <2> DEFINE B == BytesPerInscription  R == RamsPerInscription  held == HeldBy(Convertible)
             paid == nums * B
  <2>1. CASE to \notin Convertible /\ UNCHANGED bytesToDao
    BY <1>8, <1>9, <2>1
  <2>2. CASE to \in Convertible /\ bytesToDao' = bytesToDao + paid
    <3>1. B * (held + nums * R) = B * held + B * (nums * R)
      BY <1>2, <1>8
    <3>2. R * (bytesToDao + paid) = R * bytesToDao + R * paid
      BY <1>1, <1>2
    <3>3. B * (nums * R) = R * paid
      BY <1>2
    <3>4. B * held \in Int /\ R * bytesToDao \in Int /\ R * paid \in Int
      BY <1>1, <1>2, <1>8
    <3> HIDE DEF paid
    <3> QED BY <1>8, <1>9, <2>2, <3>1, <3>2, <3>3, <3>4 DEF amount
  <2>3. CASE to \notin Convertible /\ bytesToDao' = bytesToDao + paid
    <3>1. R * (bytesToDao + paid) = R * bytesToDao + R * paid
      BY <1>1, <1>2
    <3>2. R * paid \in Nat /\ R * bytesToDao \in Nat /\ B * held \in Int
      BY <1>1, <1>2, <1>8, ProductNat
    <3> HIDE DEF paid
    <3> QED BY <1>8, <1>9, <2>3, <3>1, <3>2
  <2> QED BY <2>1, <2>2, <2>3
<1>12. RamsIssued'
  BY <1>3, <1>8, <1>9, <1>10, <1>11 DEF RamsIssued
<1> QED BY <1>4, <1>5, <1>6, <1>12, AccountsOfRams DEF RamsStep, RamsInv

(* RAMS that change hands are no more than they were. *)
LEMMA MoveSafe ==
    ASSUME RamsInv, NEW from \in Holders, NEW to \in RamsAccounts, NEW n \in Nat,
           RamsMoved(from, to, n)
    PROVE  /\ RamsStep
           /\ to = HonorAccount => ramsBalance'[to] = ramsBalance[to] + n
<1>1. /\ ramsBalance \in [RamsAccounts -> Nat] /\ from \in RamsAccounts
      /\ RamsPerInscription \in Nat /\ BytesPerInscription \in Nat
  BY SwapAssumption DEF RamsInv, SwapTypeOK, RamsAccounts
<1>2. /\ from # to /\ n <= ramsBalance[from]
      /\ ramsBalance' = [ramsBalance EXCEPT ![from] = @ - n, ![to] = @ + n]
      /\ UNCHANGED <<swapDisabled, tables, ramsSupply, bytesToDao>>
  BY DEF RamsMoved
<1>3. /\ ramsBalance' \in [RamsAccounts -> Nat]
      /\ \A a \in RamsAccounts : a # from => ramsBalance[a] <= ramsBalance'[a]
      /\ ramsBalance'[to] = ramsBalance[to] + n
  <2>1. ramsBalance[from] - n \in Nat /\ ramsBalance[to] + n \in Nat
    BY <1>1, <1>2
  <2>2. \A a \in RamsAccounts : ramsBalance'[a] =
          IF a = from THEN ramsBalance[from] - n
          ELSE IF a = to THEN ramsBalance[to] + n ELSE ramsBalance[a]
    BY <1>1, <1>2
  <2> QED BY <1>1, <1>2, <2>1, <2>2
<1>4. SwapTypeOK' /\ TablesAgree' /\ ErasedTotal' = ErasedTotal
  BY <1>2, <1>3 DEF RamsInv, SwapTypeOK, TablesAgree, ErasedTotal, tables
<1>5. /\ \A a \in RamsAccounts : ramsBalance[a] \in Int
      /\ n \in Int
      /\ Moved(ramsBalance, ramsBalance', from, to, n)
  BY <1>1, <1>2 DEF Moved
<1>6. ASSUME NEW S \in SUBSET RamsAccounts
      PROVE  /\ HeldBy(S) \in Int
             /\ HeldBy(S)' = HeldBy(S) + (IF from \in S THEN -n ELSE 0)
                               + (IF to \in S THEN n ELSE 0)
  <2>1. /\ HeldIn(ramsBalance, S) \in Int
        /\ HeldIn(ramsBalance', S) = HeldIn(ramsBalance, S)
              + (IF from \in S THEN -n ELSE 0) + (IF to \in S THEN n ELSE 0)
    BY <1>1, <1>5, HeldMoved
  <2> QED BY <2>1 DEF HeldBy, HeldIn
<1>7. from \in Convertible /\ Convertible \subseteq RamsAccounts
  BY AccountsOfRams DEF Convertible
<1>8. /\ HeldBy(RamsAccounts)' = HeldBy(RamsAccounts)
      /\ HeldBy(Convertible) \in Int /\ HeldBy(Convertible)' \in Int
      /\ HeldBy(Convertible)' <= HeldBy(Convertible)
  BY <1>1, <1>6, <1>7
<1>9. BytesPerInscription * HeldBy(Convertible)' <= BytesPerInscription * HeldBy(Convertible)
  <2> DEFINE h == HeldBy(Convertible)  k == h - HeldBy(Convertible)'
             B == BytesPerInscription
  <2>1. k \in Nat /\ h \in Int /\ HeldBy(Convertible)' = h - k /\ B \in Nat
    BY <1>1, <1>8
  <2> HIDE DEF h, k, B
  <2>2. B * k \in Nat /\ B * (h - k) = B * h - B * k /\ B * h \in Int
    BY <2>1, ProductNat
  <2> QED BY <2>1, <2>2 DEF h, B
<1>10. RamsIssued'
  <2>1. /\ BytesPerInscription * HeldBy(Convertible) <= RamsPerInscription * bytesToDao
        /\ ramsSupply = HeldBy(RamsAccounts)
        /\ ramsSupply = RamsPerInscription * ErasedTotal
        /\ bytesToDao \in Nat
    BY DEF RamsInv, RamsIssued, SwapTypeOK
  <2>2. /\ BytesPerInscription * HeldBy(Convertible) \in Int
        /\ BytesPerInscription * HeldBy(Convertible)' \in Int
        /\ RamsPerInscription * bytesToDao \in Int
    BY <1>1, <1>8, <2>1
  <2>3. BytesPerInscription * HeldBy(Convertible)' <= RamsPerInscription * bytesToDao'
    BY <1>2, <1>9, <2>1, <2>2
  <2> QED BY <1>2, <1>4, <1>8, <2>1, <2>3 DEF RamsIssued
<1>11. HonorAccount # from
  BY AccountsOfRams
<1> QED BY <1>3, <1>4, <1>10, <1>11, AccountsOfRams DEF RamsStep, RamsInv

LEMMA SwapSafe ==
    ASSUME RamsInv, SwapNext
    PROVE  RamsStep
<1>0. /\ \A n \in Nums \cup SwapBytes \cup RamsAmounts : n \in Nat
      /\ BytesPerInscription \in Nat \ {0}
      /\ ramsBalance[HonorAccount] \in Nat
  BY SwapAssumption, AccountsOfRams DEF RamsInv, SwapTypeOK
<1>1. CASE \E disabled \in BOOLEAN : SetSwap(disabled)
  BY <1>0, <1>1 DEF SetSwap, RamsStep, RamsInv, SwapTypeOK, TablesAgree, RamsIssued, HeldBy,
                    HeldIn, ErasedTotal, tables, ramsVars
<1>2. CASE \E a \in Holders, n \in Nums : Burn(a, n)
  BY <1>0, <1>2, IssueSafe, AccountsOfRams DEF Burn
<1>3. CASE \E a \in Holders, n \in SwapBytes : Swap(a, n)
  <2>1. PICK a \in Holders, n \in SwapBytes : Swap(a, n)
    BY <1>3
  <2> DEFINE nums == n \div BytesPerInscription
  <2>2. nums \in Nat /\ n = nums * BytesPerInscription
    <3> DEFINE rest == n % BytesPerInscription
    <3>1. n \in Nat /\ rest = 0
      BY <1>0, <2>1 DEF Swap
    <3>2. nums \in Nat /\ n = BytesPerInscription * nums + rest
      BY <1>0, <3>1, Division
    <3> HIDE DEF nums, rest
    <3> QED BY <1>0, <3>1, <3>2
  <2>3. /\ Erase(a, nums) /\ IssueRams(a, nums) /\ UNCHANGED swapDisabled
        /\ bytesToDao' = bytesToDao + n
    BY <2>1 DEF Swap
  <2>4. a \in RamsAccounts
    BY DEF RamsAccounts
  <2> HIDE DEF nums
  <2> QED BY <2>2, <2>3, <2>4, IssueSafe
<1>4. CASE \E a \in Holders, b \in Holders \cup {NullAccount}, n \in RamsAmounts :
             RamsMoved(a, b, n)
  BY <1>0, <1>4, MoveSafe DEF RamsAccounts
<1> QED BY <1>1, <1>2, <1>3, <1>4 DEF SwapNext


-----------------------------------------------------------------------------
(* The table of veterans. *)

LEMMA VeteranFields ==
    ASSUME NEW row \in VeteranRow
    PROVE  /\ row.exists \in BOOLEAN
           /\ row.rams \in Nat /\ row.bytes \in Nat /\ row.unclaimed \in Nat /\ row.claimed \in Nat
           /\ \A n, m \in Nat :
                [row EXCEPT !.exists = TRUE, !.rams = n, !.bytes = m] \in VeteranRow
  BY Zenon DEF VeteranRow

(* The sums are natural numbers, and no veteran holds more than they count. *)
LEMMA VeteranSums ==
    ASSUME VeteranTypes
    PROVE  /\ RamsTotal \in Nat /\ BytesTotal \in Nat
           /\ ClaimedTotal \in Nat /\ UnclaimedTotal \in Nat
           /\ \A a \in Accounts : /\ veterans[a].bytes <= BytesTotal
                                  /\ veterans[a].unclaimed <= UnclaimedTotal
<1> DEFINE r == [a \in Accounts |-> veterans[a].rams]
           b == [a \in Accounts |-> veterans[a].bytes]
           c == [a \in Accounts |-> veterans[a].claimed]
           u == [a \in Accounts |-> veterans[a].unclaimed]
<1>1. \A a \in Accounts : veterans[a] \in VeteranRow
  BY DEF VeteranTypes
<1>2. /\ \A a \in Accounts : r[a] \in Nat
      /\ \A a \in Accounts : b[a] \in Nat
      /\ \A a \in Accounts : c[a] \in Nat
      /\ \A a \in Accounts : u[a] \in Nat
  BY <1>1, VeteranFields
<1>3. \A a \in Accounts : b[a] = veterans[a].bytes /\ u[a] = veterans[a].unclaimed
  OBVIOUS
<1> HIDE DEF r, b, c, u
<1>4. SumFunctionOnSet(r, Accounts) \in Nat /\ SumFunctionOnSet(c, Accounts) \in Nat
  BY <1>2, AccountsOfRams, SumNat
<1>5. SumFunctionOnSet(b, Accounts) \in Nat /\ SumFunctionOnSet(u, Accounts) \in Nat
  BY <1>2, AccountsOfRams, SumNat
<1>6. \A a \in Accounts : b[a] <= SumFunctionOnSet(b, Accounts)
  BY <1>2, AccountsOfRams, SumAtLeast
<1>7. \A a \in Accounts : u[a] <= SumFunctionOnSet(u, Accounts)
  BY <1>2, AccountsOfRams, SumAtLeast
<1> QED BY <1>3, <1>4, <1>5, <1>6, <1>7
        DEF RamsTotal, BytesTotal, ClaimedTotal, UnclaimedTotal, r, b, c, u

(* Every sum changes by as much as the one row that changes. *)
LEMMA VeteranRowStep ==
    ASSUME VeteranTypes, NEW x \in Accounts, NEW row \in VeteranRow,
           veterans' = [veterans EXCEPT ![x] = row]
    PROVE  /\ veterans' \in [Accounts -> VeteranRow] /\ veterans'[x] = row
           /\ \A a \in Accounts : a # x => veterans'[a] = veterans[a]
           /\ RamsTotal' = RamsTotal + row.rams - veterans[x].rams
           /\ BytesTotal' = BytesTotal + row.bytes - veterans[x].bytes
           /\ ClaimedTotal' = ClaimedTotal + row.claimed - veterans[x].claimed
           /\ UnclaimedTotal' = UnclaimedTotal + row.unclaimed - veterans[x].unclaimed
<1> DEFINE r == [a \in Accounts |-> veterans[a].rams]
           b == [a \in Accounts |-> veterans[a].bytes]
           c == [a \in Accounts |-> veterans[a].claimed]
           u == [a \in Accounts |-> veterans[a].unclaimed]
           rr == [a \in Accounts |-> veterans'[a].rams]
           bb == [a \in Accounts |-> veterans'[a].bytes]
           cc == [a \in Accounts |-> veterans'[a].claimed]
           uu == [a \in Accounts |-> veterans'[a].unclaimed]
<1>1. /\ veterans \in [Accounts -> VeteranRow]
      /\ veterans' \in [Accounts -> VeteranRow] /\ veterans'[x] = row
      /\ \A a \in Accounts : a # x => veterans'[a] = veterans[a]
  BY DEF VeteranTypes
<1>2. \A a \in Accounts : veterans[a] \in VeteranRow /\ veterans'[a] \in VeteranRow
  BY <1>1
<1>3. /\ \A a \in Accounts : r[a] \in Int /\ rr[a] \in Int
      /\ \A a \in Accounts : b[a] \in Int /\ bb[a] \in Int
      /\ \A a \in Accounts : c[a] \in Int /\ cc[a] \in Int
      /\ \A a \in Accounts : u[a] \in Int /\ uu[a] \in Int
  <2>1. /\ \A a \in Accounts : /\ veterans[a].rams \in Nat /\ veterans[a].bytes \in Nat
                               /\ veterans[a].claimed \in Nat /\ veterans[a].unclaimed \in Nat
        /\ \A a \in Accounts : /\ veterans'[a].rams \in Nat /\ veterans'[a].bytes \in Nat
                               /\ veterans'[a].claimed \in Nat /\ veterans'[a].unclaimed \in Nat
    BY <1>2, VeteranFields
  <2> QED BY <2>1
<1>4. /\ \A a \in Accounts : a # x => rr[a] = r[a]
      /\ \A a \in Accounts : a # x => bb[a] = b[a]
      /\ \A a \in Accounts : a # x => cc[a] = c[a]
      /\ \A a \in Accounts : a # x => uu[a] = u[a]
  BY <1>1
<1>5. /\ rr[x] = row.rams /\ bb[x] = row.bytes /\ cc[x] = row.claimed /\ uu[x] = row.unclaimed
      /\ r[x] = veterans[x].rams /\ b[x] = veterans[x].bytes
      /\ c[x] = veterans[x].claimed /\ u[x] = veterans[x].unclaimed
  BY <1>1
<1> HIDE DEF r, b, c, u, rr, bb, cc, uu
<1>6. SumFunctionOnSet(rr, Accounts) = SumFunctionOnSet(r, Accounts) + rr[x] - r[x]
  BY <1>3, <1>4, AccountsOfRams, SumUpdate
<1>7. SumFunctionOnSet(bb, Accounts) = SumFunctionOnSet(b, Accounts) + bb[x] - b[x]
  BY <1>3, <1>4, AccountsOfRams, SumUpdate
<1>8. SumFunctionOnSet(cc, Accounts) = SumFunctionOnSet(c, Accounts) + cc[x] - c[x]
  BY <1>3, <1>4, AccountsOfRams, SumUpdate
<1>9. SumFunctionOnSet(uu, Accounts) = SumFunctionOnSet(u, Accounts) + uu[x] - u[x]
  BY <1>3, <1>4, AccountsOfRams, SumUpdate
<1> QED BY <1>1, <1>5, <1>6, <1>7, <1>8, <1>9
        DEF RamsTotal, BytesTotal, ClaimedTotal, UnclaimedTotal, r, b, c, u, rr, bb, cc, uu

(* What the types and the totals say of the singleton, field by field. *)
LEMMA FundFacts ==
    ASSUME FundInv
    PROVE  /\ veterans \in [Accounts -> VeteranRow]
           /\ veteranStat.total_rams \in Nat /\ veteranStat.total_bytes = BytesTotal
           /\ veteranStat.total_veterans = Cardinality(Veterans)
           /\ veteranStat.total_claimed = ClaimedTotal
           /\ veteranStat.total_unclaimed \in Nat
           /\ btcHeld = veteranStat.total_unclaimed + btcIgnored
           /\ btcHeld \in Nat /\ btcIgnored \in Nat
           /\ UnclaimedTotal <= veteranStat.total_unclaimed
           /\ veteranStat = [total_rams |-> veteranStat.total_rams,
                             total_bytes |-> veteranStat.total_bytes,
                             total_veterans |-> veteranStat.total_veterans,
                             total_unclaimed |-> veteranStat.total_unclaimed,
                             total_claimed |-> veteranStat.total_claimed]
           /\ IsFiniteSet(Veterans) /\ Cardinality(Veterans) \in Nat
           /\ RamsTotal \in Nat /\ BytesTotal \in Nat
           /\ ClaimedTotal \in Nat /\ UnclaimedTotal \in Nat
<1>1. IsFiniteSet(Veterans) /\ Cardinality(Veterans) \in Nat
  <2>1. Veterans \subseteq Accounts
    BY DEF Veterans
  <2> QED BY <2>1, AccountsOfRams, FS_Subset, FS_CardinalityType
<1>2. VeteranTypes /\ VeteransTotalled
  BY DEF FundInv
<1>3. /\ veteranStat \in [total_rams : Nat, total_bytes : Nat, total_veterans : Nat,
                          total_unclaimed : Nat, total_claimed : Nat]
      /\ veterans \in [Accounts -> VeteranRow] /\ btcHeld \in Nat /\ btcIgnored \in Nat
  BY <1>2 DEF VeteranTypes
<1>4. /\ veteranStat.total_rams \in Nat /\ veteranStat.total_unclaimed \in Nat
      /\ veteranStat = [total_rams |-> veteranStat.total_rams,
                        total_bytes |-> veteranStat.total_bytes,
                        total_veterans |-> veteranStat.total_veterans,
                        total_unclaimed |-> veteranStat.total_unclaimed,
                        total_claimed |-> veteranStat.total_claimed]
  BY <1>3
<1> QED BY <1>1, <1>2, <1>3, <1>4, InvariantParts, VeteranSums

(* The totals after a step, from those before it. *)
LEMMA FundKept ==
    ASSUME honorConfig' \in [disabled_convert : BOOLEAN, veteran_deadline : Nat],
           veterans' \in [Accounts -> VeteranRow], NoShare',
           veteranStat' \in [total_rams : Nat, total_bytes : Nat, total_veterans : Nat,
                             total_unclaimed : Nat, total_claimed : Nat],
           btcHeld' \in Nat, btcIgnored' \in Nat,
           veteranStat'.total_veterans = Cardinality(Veterans'),
           veteranStat'.total_bytes = BytesTotal',
           veteranStat'.total_claimed = ClaimedTotal',
           btcHeld' = veteranStat'.total_unclaimed + btcIgnored',
           UnclaimedTotal' <= veteranStat'.total_unclaimed
    PROVE  FundInv'
<1>1. VeteranTypes'
  BY DEF VeteranTypes
<1>2. VeteransTotalled'
  BY DEF VeteransTotalled, SumOver, BytesTotal, ClaimedTotal, UnclaimedTotal
<1> QED BY <1>1, <1>2 DEF FundInv


(* 494 bytes for 10 RAMS are worth no more than the RAMS. *)
LEMMA BytesFacts ==
    ASSUME NEW n \in Nat
    PROVE  BytesOf(n) \in Nat /\ RamsPerInscription * BytesOf(n) <= BytesPerInscription * n
<1> DEFINE k == n * BytesPerInscription  q == k \div RamsPerInscription
           m == k % RamsPerInscription
<1>1. BytesPerInscription \in Nat \ {0} /\ RamsPerInscription \in Nat \ {0}
  BY SwapAssumption
<1>2. k \in Nat /\ k = BytesPerInscription * n
  BY <1>1, ProductNat
<1>3. BytesOf(n) = q
  BY DEF BytesOf
<1> HIDE DEF k
<1>4. q \in Nat /\ m \in 0..(RamsPerInscription - 1) /\ k = RamsPerInscription * q + m
  BY <1>1, <1>2, Division
<1> HIDE DEF q, m
<1>5. RamsPerInscription * q \in Nat
  BY <1>1, <1>4, ProductNat
<1> QED BY <1>1, <1>2, <1>3, <1>4, <1>5

(* The row and the totals of the one who converts before the deadline. *)
LEMMA VeteranServed ==
    ASSUME FundInv, BytesGiven, NEW from \in Accounts, NEW rams \in Nat,
           veterans' = [veterans EXCEPT ![from].exists = TRUE, ![from].rams = @ + rams,
                                        ![from].bytes = @ + BytesOf(rams)],
           veteranStat' = VeteranStat(from, rams),
           UNCHANGED <<honorConfig, btcHeld, btcIgnored>>,
           ramsBalance[HonorAccount] \in Nat,
           ramsBalance'[HonorAccount] = ramsBalance[HonorAccount] + rams
    PROVE  FundInv' /\ BytesGiven'
<1> DEFINE new == BytesOf(rams)
           old == veterans[from]
           row == [old EXCEPT !.exists = TRUE, !.rams = @ + rams, !.bytes = @ + new]
           S == Veterans \cup {from}
<1>1. /\ VeteranTypes /\ NoShare /\ veterans \in [Accounts -> VeteranRow]
      /\ honorConfig \in [disabled_convert : BOOLEAN, veteran_deadline : Nat]
  BY DEF FundInv, VeteranTypes
<1>2. /\ new \in Nat /\ RamsPerInscription * new <= BytesPerInscription * rams
      /\ RamsPerInscription \in Nat /\ BytesPerInscription \in Nat
  BY BytesFacts, SwapAssumption
<1>3. /\ old \in VeteranRow /\ old.exists \in BOOLEAN /\ old.rams \in Nat /\ old.bytes \in Nat
      /\ old.unclaimed \in Nat /\ old.claimed \in Nat
  BY <1>1, VeteranFields
<1>4. veterans' = [veterans EXCEPT ![from] = row]
  OBVIOUS
<1>5. row \in VeteranRow
  <2> DEFINE n == old.rams + rams  m == old.bytes + new
  <2>1. n \in Nat /\ m \in Nat
    BY <1>2, <1>3
  <2>2. row = [old EXCEPT !.exists = TRUE, !.rams = n, !.bytes = m]
    OBVIOUS
  <2> HIDE DEF row, old, n, m
  <2> QED BY <1>3, <2>1, <2>2, VeteranFields
<1>6. /\ row.exists /\ row.rams = old.rams + rams /\ row.bytes = old.bytes + new
      /\ row.unclaimed = old.unclaimed /\ row.claimed = old.claimed
  BY <1>3 DEF VeteranRow
<1> HIDE DEF row, new
<1>7. /\ veterans' \in [Accounts -> VeteranRow] /\ veterans'[from] = row
      /\ \A a \in Accounts : a # from => veterans'[a] = veterans[a]
      /\ RamsTotal' = RamsTotal + row.rams - old.rams
      /\ BytesTotal' = BytesTotal + row.bytes - old.bytes
      /\ ClaimedTotal' = ClaimedTotal + row.claimed - old.claimed
      /\ UnclaimedTotal' = UnclaimedTotal + row.unclaimed - old.unclaimed
  BY <1>1, <1>4, <1>5, VeteranRowStep
<1> HIDE DEF old
<1>8. /\ RamsTotal \in Nat /\ BytesTotal \in Nat /\ ClaimedTotal \in Nat /\ UnclaimedTotal \in Nat
      /\ RamsTotal' = RamsTotal + rams /\ BytesTotal' = BytesTotal + new
      /\ ClaimedTotal' = ClaimedTotal /\ UnclaimedTotal' = UnclaimedTotal
  <2>1. RamsTotal \in Nat /\ BytesTotal \in Nat /\ ClaimedTotal \in Nat /\ UnclaimedTotal \in Nat
    BY FundFacts
  <2> QED BY <1>2, <1>3, <1>6, <1>7, <2>1
<1>9. /\ Veterans' = S /\ IsFiniteSet(Veterans)
      /\ from \in Veterans <=> old.exists
  BY <1>6, <1>7, FundFacts DEF Veterans, old
<1>10. Cardinality(S) = Cardinality(Veterans) + IF old.exists THEN 0 ELSE 1
  <2>1. CASE old.exists
    <3>1. S = Veterans /\ Cardinality(Veterans) \in Nat
      BY <1>9, <2>1, FundFacts
    <3>2. Cardinality(S) = Cardinality(Veterans)
      BY <3>1
    <3> HIDE DEF S
    <3> QED BY <2>1, <3>1, <3>2
  <2>2. CASE ~ old.exists
    <3>1. Cardinality(S) = Cardinality(Veterans) + 1
      BY <1>9, <2>2, FS_AddElement
    <3> HIDE DEF S
    <3> QED BY <2>2, <3>1
  <2> QED BY <2>1, <2>2
<1>11. /\ veteranStat' = [veteranStat EXCEPT
              !.total_veterans = @ + IF old.exists THEN 0 ELSE 1,
              !.total_rams = @ + rams, !.total_bytes = @ + new]
       /\ Cardinality(S) \in Nat
  BY <1>9, <1>10, FundFacts DEF VeteranStat, new, old
<1> HIDE DEF S
<1> DEFINE st == veteranStat
<1>12. /\ st.total_rams \in Nat /\ st.total_bytes = BytesTotal
       /\ st.total_veterans = Cardinality(Veterans)
       /\ st.total_claimed = ClaimedTotal /\ st.total_unclaimed \in Nat
       /\ btcHeld = st.total_unclaimed + btcIgnored
       /\ btcHeld \in Nat /\ btcIgnored \in Nat
       /\ UnclaimedTotal <= st.total_unclaimed
       /\ veteranStat = [total_rams |-> st.total_rams, total_bytes |-> st.total_bytes,
                         total_veterans |-> st.total_veterans,
                         total_unclaimed |-> st.total_unclaimed,
                         total_claimed |-> st.total_claimed]
  BY FundFacts
<1>13. veteranStat' = [total_rams |-> st.total_rams + rams, total_bytes |-> BytesTotal + new,
                       total_veterans |-> Cardinality(S),
                       total_unclaimed |-> st.total_unclaimed, total_claimed |-> ClaimedTotal]
  BY <1>10, <1>11, <1>12
<1> HIDE DEF st
<1>14. /\ veteranStat' \in [total_rams : Nat, total_bytes : Nat, total_veterans : Nat,
                            total_unclaimed : Nat, total_claimed : Nat]
       /\ veteranStat'.total_veterans = Cardinality(S)
       /\ veteranStat'.total_bytes = BytesTotal + new
       /\ veteranStat'.total_claimed = ClaimedTotal
       /\ veteranStat'.total_unclaimed = st.total_unclaimed
  <2>1. st.total_rams + rams \in Nat /\ BytesTotal + new \in Nat /\ Cardinality(S) \in Nat
    BY <1>2, <1>8, <1>11, <1>12
  <2> QED BY <1>8, <1>12, <1>13, <2>1
<1>15. NoShare'
  BY <1>1, <1>6, <1>7 DEF NoShare
<1>16. FundInv'
  BY <1>1, <1>7, <1>8, <1>9, <1>12, <1>14, <1>15, FundKept
<1>17. BytesGiven'
  <2>1. /\ RamsTotal <= ramsBalance[HonorAccount]
        /\ RamsPerInscription * BytesTotal <= BytesPerInscription * RamsTotal
    BY DEF BytesGiven
  <2>2. /\ RamsPerInscription * (BytesTotal + new)
             = RamsPerInscription * BytesTotal + RamsPerInscription * new
        /\ BytesPerInscription * (RamsTotal + rams)
             = BytesPerInscription * RamsTotal + BytesPerInscription * rams
    BY <1>2, <1>8
  <2>3. /\ RamsPerInscription * BytesTotal \in Nat /\ RamsPerInscription * new \in Nat
        /\ BytesPerInscription * RamsTotal \in Nat /\ BytesPerInscription * rams \in Nat
    BY <1>2, <1>8, ProductNat
  <2>4. RamsPerInscription * BytesTotal' <= BytesPerInscription * RamsTotal'
    BY <1>2, <1>8, <2>1, <2>2, <2>3
  <2>5. RamsTotal' <= ramsBalance'[HonorAccount]
    BY <1>8, <2>1
  <2> QED BY <2>4, <2>5 DEF BytesGiven
<1> QED BY <1>16, <1>17

(* A step that does not touch the veterans. *)
LEMMA VeteransSame ==
    ASSUME FundInv, BytesGiven, UNCHANGED <<veterans, veteranStat, btcHeld, btcIgnored>>,
           honorConfig' \in [disabled_convert : BOOLEAN, veteran_deadline : Nat],
           ramsBalance[HonorAccount] \in Nat, ramsBalance'[HonorAccount] \in Nat,
           ramsBalance[HonorAccount] <= ramsBalance'[HonorAccount]
    PROVE  FundInv' /\ BytesGiven'
<1>1. /\ RamsTotal' = RamsTotal /\ BytesTotal' = BytesTotal
      /\ ClaimedTotal' = ClaimedTotal /\ UnclaimedTotal' = UnclaimedTotal
  BY DEF RamsTotal, BytesTotal, ClaimedTotal, UnclaimedTotal
<1>2. Veterans' = Veterans
  BY DEF Veterans
<1>3. VeteranTypes' /\ NoShare'
  BY DEF FundInv, VeteranTypes, NoShare
<1>4. VeteransTotalled'
  BY <1>2 DEF FundInv, VeteransTotalled, SumOver
<1>5. RamsTotal \in Nat
  BY FundFacts
<1>6. BytesGiven'
  BY <1>1, <1>5 DEF BytesGiven
<1> QED BY <1>3, <1>4, <1>6 DEF FundInv

(* RAMS converted: the RAMS are taken, and their bytes given. *)
LEMMA ConvertSafe ==
    ASSUME HonorInv, NEW from \in Holders, NEW rams \in Nat, Convert(from, rams)
    PROVE  HonorInv'
<1>1. /\ RamsInv /\ FundInv /\ BytesGiven
      /\ RamsMoved(from, HonorAccount, rams)
      /\ UNCHANGED <<honorConfig, btcHeld, btcIgnored>>
  BY DEF HonorInv, Convert
<1>2. /\ RamsInv' /\ ramsBalance[HonorAccount] <= ramsBalance'[HonorAccount]
      /\ ramsBalance'[HonorAccount] = ramsBalance[HonorAccount] + rams
  BY <1>1, AccountsOfRams, MoveSafe DEF RamsStep
<1>3. ramsBalance[HonorAccount] \in Nat /\ ramsBalance'[HonorAccount] \in Nat
  BY <1>1, <1>2, AccountsOfRams DEF RamsInv, SwapTypeOK
<1>4. FundInv' /\ BytesGiven'
  <2>1. CASE now > honorConfig.veteran_deadline
    <3>1. /\ UNCHANGED <<veterans, veteranStat, btcHeld, btcIgnored>>
          /\ honorConfig' \in [disabled_convert : BOOLEAN, veteran_deadline : Nat]
      BY <1>1, <2>1 DEF Convert, FundInv, VeteranTypes
    <3> QED BY <1>1, <1>2, <1>3, <3>1, VeteransSame
  <2>2. CASE ~ (now > honorConfig.veteran_deadline)
    <3>1. /\ veterans' = [veterans EXCEPT ![from].exists = TRUE, ![from].rams = @ + rams,
                                          ![from].bytes = @ + BytesOf(rams)]
          /\ veteranStat' = VeteranStat(from, rams)
      BY <2>2 DEF Convert
    <3>2. from \in Accounts
      BY AccountsOfRams
    <3> QED BY <1>1, <1>2, <1>3, <3>1, <3>2, VeteranServed
  <2> QED BY <2>1, <2>2
<1> QED BY <1>2, <1>4 DEF HonorInv

(* claim: what was unclaimed is paid, and counted as claimed. *)
LEMMA ClaimGasSafe ==
    ASSUME HonorInv, NEW x \in Accounts, ClaimGas(x)
    PROVE  HonorInv'
<1> DEFINE old == veterans[x]
           amount == old.unclaimed
           row == [exists |-> old.exists, rams |-> old.rams, bytes |-> old.bytes,
                   unclaimed |-> 0, claimed |-> old.claimed + amount]
<1>1. /\ RamsInv /\ FundInv /\ BytesGiven /\ VeteranTypes /\ NoShare
      /\ veterans \in [Accounts -> VeteranRow]
      /\ honorConfig \in [disabled_convert : BOOLEAN, veteran_deadline : Nat]
  BY DEF HonorInv, FundInv, VeteranTypes
<1>2. /\ amount > 0 /\ veteranStat.total_unclaimed >= amount
      /\ veterans' = [veterans EXCEPT ![x].claimed = @ + amount, ![x].unclaimed = 0]
      /\ veteranStat' = [veteranStat EXCEPT !.total_unclaimed = @ - amount,
                                            !.total_claimed = @ + amount]
      /\ btcHeld' = btcHeld - amount
      /\ UNCHANGED <<vars, swapVars, honorConfig, btcIgnored>>
  BY DEF ClaimGas
<1>3. /\ old \in VeteranRow /\ old.exists \in BOOLEAN /\ old.rams \in Nat /\ old.bytes \in Nat
      /\ amount \in Nat /\ old.claimed \in Nat
  BY <1>1, VeteranFields
<1>4. veterans' = [veterans EXCEPT ![x] = row]
  BY <1>1, <1>2, <1>3 DEF VeteranRow
<1>5. row \in VeteranRow
  BY <1>3 DEF VeteranRow
<1>6. /\ row.exists = old.exists /\ row.rams = old.rams /\ row.bytes = old.bytes
      /\ row.unclaimed = 0 /\ row.claimed = old.claimed + amount
  OBVIOUS
<1>7. old.exists
  BY <1>1, <1>2, <1>3 DEF NoShare, NoVeteran
<1> HIDE DEF row
<1>8. /\ veterans' \in [Accounts -> VeteranRow] /\ veterans'[x] = row
      /\ \A a \in Accounts : a # x => veterans'[a] = veterans[a]
      /\ RamsTotal' = RamsTotal + row.rams - old.rams
      /\ BytesTotal' = BytesTotal + row.bytes - old.bytes
      /\ ClaimedTotal' = ClaimedTotal + row.claimed - old.claimed
      /\ UnclaimedTotal' = UnclaimedTotal + row.unclaimed - amount
  BY <1>1, <1>4, <1>5, VeteranRowStep
<1>9. Veterans' = Veterans
  BY <1>6, <1>7, <1>8 DEF Veterans
<1> HIDE DEF old, amount
<1>10. /\ RamsTotal \in Nat /\ BytesTotal \in Nat /\ ClaimedTotal \in Nat /\ UnclaimedTotal \in Nat
       /\ RamsTotal' = RamsTotal /\ BytesTotal' = BytesTotal
       /\ ClaimedTotal' = ClaimedTotal + amount /\ UnclaimedTotal' = UnclaimedTotal - amount
  BY <1>1, <1>3, <1>6, <1>8, FundFacts
<1> DEFINE st == veteranStat
<1>11. /\ st.total_rams \in Nat /\ st.total_bytes = BytesTotal
       /\ st.total_veterans = Cardinality(Veterans) /\ Cardinality(Veterans) \in Nat
       /\ st.total_claimed = ClaimedTotal /\ st.total_unclaimed \in Nat
       /\ btcHeld = st.total_unclaimed + btcIgnored
       /\ btcHeld \in Nat /\ btcIgnored \in Nat
       /\ UnclaimedTotal <= st.total_unclaimed
       /\ veteranStat = [total_rams |-> st.total_rams, total_bytes |-> st.total_bytes,
                         total_veterans |-> st.total_veterans,
                         total_unclaimed |-> st.total_unclaimed,
                         total_claimed |-> st.total_claimed]
  BY <1>1, FundFacts
<1>12. veteranStat' = [total_rams |-> st.total_rams, total_bytes |-> BytesTotal,
                       total_veterans |-> Cardinality(Veterans),
                       total_unclaimed |-> st.total_unclaimed - amount,
                       total_claimed |-> ClaimedTotal + amount]
  BY <1>2, <1>11
<1>13. st.total_unclaimed - amount \in Nat
  BY <1>2, <1>3, <1>11
<1> HIDE DEF st
<1>14. /\ veteranStat' \in [total_rams : Nat, total_bytes : Nat, total_veterans : Nat,
                            total_unclaimed : Nat, total_claimed : Nat]
       /\ veteranStat'.total_veterans = Cardinality(Veterans)
       /\ veteranStat'.total_bytes = BytesTotal
       /\ veteranStat'.total_claimed = ClaimedTotal + amount
       /\ veteranStat'.total_unclaimed = st.total_unclaimed - amount
  BY <1>3, <1>10, <1>11, <1>12, <1>13
<1>15. NoShare'
  BY <1>1, <1>6, <1>7, <1>8 DEF NoShare
<1>16. /\ btcHeld' = st.total_unclaimed - amount + btcIgnored' /\ btcHeld' \in Nat
       /\ UnclaimedTotal' <= st.total_unclaimed - amount
  BY <1>2, <1>3, <1>10, <1>11, <1>13
<1>17. FundInv'
  BY <1>1, <1>2, <1>8, <1>9, <1>10, <1>11, <1>14, <1>15, <1>16, FundKept
<1>18. RamsInv'
  BY <1>1, <1>2 DEF swapVars, tables, ramsVars, RamsInv, SwapTypeOK, TablesAgree, RamsIssued,
                    HeldBy, HeldIn, ErasedTotal
<1>19. BytesGiven'
  BY <1>1, <1>2, <1>10 DEF BytesGiven, swapVars, ramsVars
<1> QED BY <1>17, <1>18, <1>19 DEF HonorInv

-----------------------------------------------------------------------------
(* The gas fund. *)

LEMMA VeteranFacts ==
    ASSUME FundInv
    PROVE  /\ Veterans \subseteq Accounts /\ IsFiniteSet(Veterans)
           /\ \A a \in Accounts : veterans[a].bytes \in Nat /\ NameValue[a] \in Nat
           /\ \A a, b \in Accounts : NameValue[a] = NameValue[b] => a = b
<1>1. \A a \in Accounts : veterans[a].bytes \in Nat
  <2>1. \A a \in Accounts : veterans[a] \in VeteranRow
    BY FundFacts
  <2> QED BY <2>1, VeteranFields
<1> QED BY <1>1, FundFacts, HonorAssumption DEF Veterans

(* Exactly one of the veterans is served last: the names break the ties. *)
LEMMA LastVeteran ==
    ASSUME FundInv, Veterans # {}
    PROVE  \E z \in Veterans : ServedLast(z) /\ \A a \in Veterans : ServedLast(a) => a = z
<1> DEFINE T == {veterans[a].bytes : a \in Veterans}
<1>1. PICK m \in T : \A k \in T : m <= k
  <2>1. T \in SUBSET Nat /\ T # {}
    BY VeteranFacts
  <2> HIDE DEF T
  <2> QED BY <2>1, LeastNatural
<1> DEFINE S == {a \in Veterans : veterans[a].bytes = m}
           N == {NameValue[a] : a \in S}
<1>2. PICK v \in N : \A k \in N : v <= k
  <2>1. N \in SUBSET Nat /\ N # {}
    BY <1>1, VeteranFacts
  <2> HIDE DEF N
  <2> QED BY <2>1, LeastNatural
<1>3. PICK z \in S : v = NameValue[z]
  BY <1>2
<1>4. z \in Veterans /\ z \in Accounts /\ veterans[z].bytes = m
  BY <1>3, VeteranFacts
<1>5. ASSUME NEW b \in Veterans \ {z}
      PROVE  ServedBefore(b, z) /\ ~ ServedBefore(z, b)
  <2>1. b \in Accounts /\ m <= veterans[b].bytes /\ NameValue[b] # NameValue[z]
    BY <1>1, <1>4, VeteranFacts
  <2>2. veterans[b].bytes = m => NameValue[z] <= NameValue[b]
    BY <1>2, <1>3
  <2>3. /\ veterans[b].bytes \in Nat /\ NameValue[b] \in Nat
        /\ veterans[z].bytes \in Nat /\ NameValue[z] \in Nat
    BY <1>4, <2>1, VeteranFacts
  <2> QED BY <1>4, <2>1, <2>2, <2>3 DEF ServedBefore
<1>6. ServedLast(z)
  BY <1>5 DEF ServedLast
<1>7. ASSUME NEW a \in Veterans, ServedLast(a) PROVE a = z
  BY <1>4, <1>5, <1>7 DEF ServedLast
<1> QED BY <1>4, <1>6, <1>7

(* The proportions of some veterans add up to no more than the amount. *)
LEMMA ProportionFacts ==
    ASSUME FundInv, NEW amount \in Nat, veteranStat.total_bytes > 0
    PROVE  /\ \A a \in Accounts : Proportion(a, amount) \in Nat
           /\ \A a, b \in Accounts : veterans[a].bytes <= veterans[b].bytes =>
                Proportion(a, amount) <= Proportion(b, amount)
           /\ \A T \in SUBSET Accounts :
                SumFunctionOnSet([a \in Accounts |-> Proportion(a, amount)], T) \in 0..amount
<1> DEFINE K == veteranStat.total_bytes
           f == [a \in Accounts |-> veterans[a].bytes]
           g == [a \in Accounts |-> Proportion(a, amount)]
<1>1. K \in Nat \ {0} /\ K = BytesTotal
  BY FundFacts
<1>2. /\ \A a \in Accounts : veterans[a].bytes \in Nat
      /\ \A a \in Accounts : f[a] \in Nat
  BY VeteranFacts
<1>3. \A a \in Accounts : Proportion(a, amount) = (veterans[a].bytes * amount) \div K
  BY DEF Proportion
<1>4. \A a \in Accounts : f[a] = veterans[a].bytes /\ g[a] = (f[a] * amount) \div K
  BY <1>3
<1>5. SumFunctionOnSet(f, Accounts) = K
  BY <1>1 DEF BytesTotal
<1> HIDE DEF K, f, g
<1>6. ASSUME NEW a \in Accounts PROVE Proportion(a, amount) \in Nat
  <2>1. veterans[a].bytes * amount \in Nat
    BY <1>2, ProductNat
  <2> QED BY <1>1, <1>3, <2>1, Division
<1>7. ASSUME NEW a \in Accounts, NEW b \in Accounts, veterans[a].bytes <= veterans[b].bytes
      PROVE  Proportion(a, amount) <= Proportion(b, amount)
  <2>1. /\ veterans[a].bytes * amount \in Nat /\ veterans[b].bytes * amount \in Nat
        /\ veterans[a].bytes * amount <= veterans[b].bytes * amount
    BY <1>2, <1>7, ProductNat, ProductMonotone
  <2>2. (veterans[a].bytes * amount) \div K <= (veterans[b].bytes * amount) \div K
    BY <1>1, <2>1, DivMonotone
  <2> QED BY <1>3, <2>2
<1>8. ASSUME NEW T \in SUBSET Accounts PROVE SumFunctionOnSet(g, T) \in 0..amount
  <2>1. IsFiniteSet(T)
    BY AccountsOfRams, FS_Subset
  <2>2. SumFunctionOnSet(f, T) <= K
    BY <1>2, <1>5, AccountsOfRams, SumPart
  <2>3. \A a \in T : f[a] \in Nat /\ g[a] = (f[a] * amount) \div K
    BY <1>2, <1>4
  <2> QED BY <1>1, <2>1, <2>2, <2>3, SumOfParts
<1> QED BY <1>6, <1>7, <1>8 DEF g

(* What a distribution adds to the row of each account. *)
GainOf(amount) == [a \in Accounts |-> IF a \in Veterans THEN Gain(a, amount) ELSE 0]

(* A veteran is given its proportion, or what the others left if it is the last;
   the walk stops only where nothing is due any more. *)
LEMMA GainCases ==
    ASSUME FundInv, NEW amount \in Nat, veteranStat.total_bytes > 0,
           NEW z \in Veterans, ServedLast(z), \A a \in Veterans : ServedLast(a) => a = z,
           NEW a \in Veterans
    PROVE  LET p    == [b \in Accounts |-> Proportion(b, amount)]
               left == amount - SumFunctionOnSet(p, Veterans \ {z})
           IN \/ Gain(a, amount) = IF a = z THEN left ELSE p[a]
              \/ /\ Gain(a, amount) = 0 /\ p[a] = 0
                 /\ \E b \in Veterans \ {z} : p[b] = 0
<1> DEFINE p == [b \in Accounts |-> Proportion(b, amount)]
           others == {b \in Veterans : ~ ServedLast(b)}
           left == amount - SumFunctionOnSet(p, others)
           served == \A b \in others : b = a \/ ServedBefore(b, a) => p[b] > 0
<1>1. others = Veterans \ {z}
  OBVIOUS
<1>2. Gain(a, amount) = CASE ~ served -> 0
                          [] served /\ ServedLast(a) -> left
                          [] OTHER -> p[a]
  BY DEF Gain
<1>3. ServedLast(a) <=> a = z
  OBVIOUS
<1>4. \A b \in Accounts : p[b] = Proportion(b, amount) /\ p[b] \in Nat
  BY ProportionFacts
<1>5. Veterans \subseteq Accounts
  BY VeteranFacts
<1>6. CASE served
  <2> HIDE DEF served, p, left
  <2>1. Gain(a, amount) = IF a = z THEN left ELSE p[a]
    BY <1>2, <1>3, <1>6
  <2> QED BY <1>1, <2>1 DEF left, p
<1>7. CASE ~ served
  <2>1. PICK b \in others : (b = a \/ ServedBefore(b, a)) /\ ~ (p[b] > 0)
    BY <1>7
  <2>2. b \in Accounts /\ a \in Accounts /\ b \in Veterans \ {z} /\ p[b] = 0
    BY <1>1, <1>4, <1>5, <2>1
  <2>3. veterans[a].bytes <= veterans[b].bytes
    <3>1. veterans[a].bytes \in Nat /\ veterans[b].bytes \in Nat
      BY <2>2, VeteranFacts
    <3> QED BY <2>1, <3>1 DEF ServedBefore
  <2>4. Proportion(a, amount) <= Proportion(b, amount)
    BY <2>2, <2>3, ProportionFacts
  <2>5. p[a] = 0
    BY <1>4, <2>2, <2>4
  <2>6. Gain(a, amount) = 0
    <3> HIDE DEF served, p, left
    <3> QED BY <1>2, <1>7
  <2> QED BY <2>2, <2>5, <2>6
<1> QED BY <1>6, <1>7

(* The promise of a distribution. *)
LEMMA GainsShared ==
    ASSUME FundInv, NEW amount \in Nat,
           veteranStat.total_bytes > 0, veteranStat.total_veterans > 0
    PROVE  /\ \A a \in Accounts : GainOf(amount)[a] \in Nat
           /\ \A a \in Veterans : GainOf(amount)[a] >= Proportion(a, amount)
           /\ SumFunctionOnSet(GainOf(amount), Accounts) <= amount
           /\ (\A a \in Veterans : ServedLast(a) \/ Proportion(a, amount) > 0) =>
                SumFunctionOnSet(GainOf(amount), Accounts) = amount
<1> DEFINE p == [b \in Accounts |-> Proportion(b, amount)]
           G == GainOf(amount)
           f == [a \in Veterans |-> Gain(a, amount)]
<1>1. Veterans \subseteq Accounts /\ IsFiniteSet(Veterans) /\ IsFiniteSet(Accounts)
  BY VeteranFacts, AccountsOfRams
<1>2. Veterans # {}
  BY FundFacts, FS_EmptySet
<1>3. PICK z \in Veterans : ServedLast(z) /\ \A a \in Veterans : ServedLast(a) => a = z
  BY <1>2, LastVeteran
<1> DEFINE left == amount - SumFunctionOnSet(p, Veterans \ {z})
           h == [a \in Veterans |-> IF a = z THEN left ELSE p[a]]
<1>4. ASSUME NEW a \in Veterans
      PROVE  \/ f[a] = h[a]
             \/ f[a] = 0 /\ p[a] = 0 /\ \E b \in Veterans \ {z} : p[b] = 0
  BY <1>3, GainCases
<1>5. \A a \in Accounts : p[a] = Proportion(a, amount) /\ p[a] \in Nat
  BY ProportionFacts
<1>6. /\ SumFunctionOnSet(p, Veterans) \in 0..amount
      /\ SumFunctionOnSet(p, Veterans \ {z}) \in 0..amount
  BY <1>1, ProportionFacts
<1>7. /\ \A a \in Accounts : G[a] = IF a \in Veterans THEN f[a] ELSE 0
      /\ \A a \in Veterans : h[a] = IF a = z THEN left ELSE p[a]
  BY DEF GainOf
<1>8. left \in Nat /\ SumFunctionOnSet(p, Veterans \ {z}) = amount - left
  <2> DEFINE q == SumFunctionOnSet(p, Veterans \ {z})
  <2>1. q \in 0..amount /\ left = amount - q
    BY <1>6
  <2> HIDE DEF q
  <2>2. left \in Nat /\ q = amount - left
    BY <2>1
  <2> QED BY <2>2 DEF q
<1> HIDE DEF p, G, f, left, h
<1>9. SumFunctionOnSet(p, Veterans) = p[z] + SumFunctionOnSet(p, Veterans \ {z})
  <2>1. \A a \in Veterans : p[a] \in Int
    BY <1>1, <1>5
  <2> QED BY <1>1, <2>1, SumRemove
<1>10. p[z] <= left
  BY <1>1, <1>5, <1>6, <1>8, <1>9
<1>11. /\ \A a \in Veterans : h[a] \in Nat
       /\ \A a \in Veterans : h[a] >= p[a]
  BY <1>1, <1>5, <1>7, <1>8, <1>10
<1>12. /\ \A a \in Veterans : f[a] \in Nat
       /\ \A a \in Veterans : f[a] >= p[a]
       /\ \A a \in Veterans : f[a] <= h[a]
  <2> SUFFICES ASSUME NEW a \in Veterans PROVE f[a] \in Nat /\ f[a] >= p[a] /\ f[a] <= h[a]
    OBVIOUS
  <2>1. h[a] \in Nat /\ h[a] >= p[a] /\ p[a] \in Nat
    BY <1>1, <1>5, <1>11
  <2>2. f[a] = h[a] \/ (f[a] = 0 /\ p[a] = 0)
    BY <1>4
  <2> QED BY <2>1, <2>2
<1>13. SumFunctionOnSet(h, Veterans) = amount
  <2>1. SumFunctionOnSet(h, Veterans) = h[z] + SumFunctionOnSet(h, Veterans \ {z})
    <3>1. \A a \in Veterans : h[a] \in Int
      BY <1>11
    <3> QED BY <1>1, <3>1, SumRemove
  <2>2. SumFunctionOnSet(h, Veterans \ {z}) = SumFunctionOnSet(p, Veterans \ {z})
    <3>1. \A a \in Veterans \ {z} : p[a] \in Int /\ h[a] = p[a]
      BY <1>1, <1>5, <1>7
    <3>2. IsFiniteSet(Veterans \ {z})
      BY <1>1, FS_Subset
    <3> QED BY <3>1, <3>2, SumSame
  <2>3. h[z] = left
    BY <1>7
  <2> QED BY <1>8, <2>1, <2>2, <2>3
<1>14. SumFunctionOnSet(G, Accounts) = SumFunctionOnSet(f, Veterans)
  <2>1. \A a \in Veterans : f[a] \in Int
    BY <1>12
  <2> QED BY <1>1, <1>7, <2>1, SumFilter
<1>15. SumFunctionOnSet(f, Veterans) <= SumFunctionOnSet(h, Veterans)
  <2>1. \A a \in Veterans : f[a] \in Int /\ h[a] \in Int /\ f[a] <= h[a]
    BY <1>11, <1>12
  <2> QED BY <1>1, <2>1, SumMonotone
<1>16. ASSUME \A a \in Veterans : ServedLast(a) \/ Proportion(a, amount) > 0
       PROVE  SumFunctionOnSet(G, Accounts) = amount
  <2>1. ASSUME NEW b \in Veterans \ {z} PROVE p[b] # 0
    <3>1. ~ ServedLast(b)
      BY <1>3
    <3>2. Proportion(b, amount) > 0 /\ p[b] = Proportion(b, amount) /\ p[b] \in Nat
      BY <1>1, <1>5, <1>16, <3>1
    <3> QED BY <3>2
  <2>2. \A a \in Veterans : h[a] \in Int /\ f[a] = h[a]
    BY <1>4, <1>11, <2>1
  <2>3. SumFunctionOnSet(f, Veterans) = SumFunctionOnSet(h, Veterans)
    BY <1>1, <2>2, SumSame
  <2> QED BY <1>13, <1>14, <2>3
<1>17. \A a \in Accounts : G[a] \in Nat
  BY <1>7, <1>12
<1>18. \A a \in Veterans : G[a] >= Proportion(a, amount)
  BY <1>1, <1>5, <1>7, <1>12
<1>19. SumFunctionOnSet(G, Accounts) <= amount
  BY <1>13, <1>14, <1>15
<1> QED BY <1>16, <1>17, <1>18, <1>19 DEF G

(* What a distribution makes of the rows. *)
LEMMA DistributedRows ==
    ASSUME FundInv, NEW amount \in Nat, DistributeToVeterans(amount)
    PROVE  /\ veterans' \in [Accounts -> VeteranRow]
           /\ \A a \in Accounts :
                /\ veterans[a] \in VeteranRow
                /\ veterans'[a].exists = veterans[a].exists
                /\ veterans'[a].rams = veterans[a].rams
                /\ veterans'[a].bytes = veterans[a].bytes
                /\ veterans'[a].claimed = veterans[a].claimed
                /\ veterans'[a].unclaimed = veterans[a].unclaimed + GainOf(amount)[a]
           /\ \A a \in Accounts : ~ veterans[a].exists => veterans'[a] = veterans[a]
<1>1. /\ veterans \in [Accounts -> VeteranRow]
      /\ veteranStat.total_bytes > 0 /\ veteranStat.total_veterans > 0
      /\ veterans' = [a \in Accounts |->
           IF a \in Veterans THEN [veterans[a] EXCEPT !.unclaimed = @ + Gain(a, amount)]
           ELSE veterans[a]]
  BY FundFacts DEF DistributeToVeterans
<1> DEFINE G == GainOf(amount)
<1>2. /\ \A a \in Accounts : G[a] \in Nat
      /\ \A a \in Accounts : G[a] = IF a \in Veterans THEN Gain(a, amount) ELSE 0
  BY <1>1, GainsShared DEF GainOf
<1> HIDE DEF G
<1>3. ASSUME NEW a \in Accounts
      PROVE  /\ veterans[a] \in VeteranRow /\ veterans'[a] \in VeteranRow
             /\ veterans'[a].exists = veterans[a].exists
             /\ veterans'[a].rams = veterans[a].rams
             /\ veterans'[a].bytes = veterans[a].bytes
             /\ veterans'[a].claimed = veterans[a].claimed
             /\ veterans'[a].unclaimed = veterans[a].unclaimed + G[a]
             /\ ~ veterans[a].exists => veterans'[a] = veterans[a]
  <2> DEFINE old == veterans[a]  n == old.unclaimed + G[a]
  <2>1. old \in VeteranRow /\ old.unclaimed \in Nat /\ G[a] \in Nat
    BY <1>1, <1>2, VeteranFields
  <2>2. CASE a \in Veterans
    <3>1. veterans'[a] = [old EXCEPT !.unclaimed = n] /\ n \in Nat
      BY <1>1, <1>2, <2>1, <2>2
    <3>2. old.exists
      BY <2>2 DEF Veterans
    <3> HIDE DEF n, old
    <3>3. [old EXCEPT !.unclaimed = n] \in VeteranRow
      BY <2>1, <3>1 DEF VeteranRow
    <3>4. /\ [old EXCEPT !.unclaimed = n].exists = old.exists
          /\ [old EXCEPT !.unclaimed = n].rams = old.rams
          /\ [old EXCEPT !.unclaimed = n].bytes = old.bytes
          /\ [old EXCEPT !.unclaimed = n].claimed = old.claimed
          /\ [old EXCEPT !.unclaimed = n].unclaimed = n
      BY <2>1 DEF VeteranRow
    <3> QED BY <2>1, <3>1, <3>2, <3>3, <3>4 DEF n, old
  <2>3. CASE a \notin Veterans
    <3>1. veterans'[a] = veterans[a] /\ G[a] = 0
      BY <1>1, <1>2, <2>3
    <3> QED BY <2>1, <3>1
  <2> QED BY <2>2, <2>3
<1>4. veterans' \in [Accounts -> VeteranRow]
  <2>1. veterans' = [a \in Accounts |-> veterans'[a]]
    BY <1>1
  <2> QED BY <1>3, <2>1
<1> QED BY <1>3, <1>4 DEF G

(* The unclaimed shares grow by the gains, and nothing else changes. *)
LEMMA DistributedSums ==
    ASSUME FundInv, NEW amount \in Nat, DistributeToVeterans(amount)
    PROVE  /\ RamsTotal' = RamsTotal /\ BytesTotal' = BytesTotal /\ ClaimedTotal' = ClaimedTotal
           /\ UnclaimedTotal' = UnclaimedTotal + SumFunctionOnSet(GainOf(amount), Accounts)
           /\ SumFunctionOnSet(GainOf(amount), Accounts) \in 0..amount
<1> DEFINE r == [a \in Accounts |-> veterans[a].rams]
           b == [a \in Accounts |-> veterans[a].bytes]
           c == [a \in Accounts |-> veterans[a].claimed]
           u == [a \in Accounts |-> veterans[a].unclaimed]
           rr == [a \in Accounts |-> veterans'[a].rams]
           bb == [a \in Accounts |-> veterans'[a].bytes]
           cc == [a \in Accounts |-> veterans'[a].claimed]
           uu == [a \in Accounts |-> veterans'[a].unclaimed]
           G == GainOf(amount)
<1>1. \A a \in Accounts :
        /\ veterans[a] \in VeteranRow
        /\ veterans'[a].rams = veterans[a].rams
        /\ veterans'[a].bytes = veterans[a].bytes
        /\ veterans'[a].claimed = veterans[a].claimed
        /\ veterans'[a].unclaimed = veterans[a].unclaimed + G[a]
  BY DistributedRows
<1>2. \A a \in Accounts :
        /\ veterans[a].rams \in Nat /\ veterans[a].bytes \in Nat
        /\ veterans[a].claimed \in Nat /\ veterans[a].unclaimed \in Nat
  BY <1>1, VeteranFields
<1>3. /\ veteranStat.total_bytes > 0 /\ veteranStat.total_veterans > 0
  BY DEF DistributeToVeterans
<1>4. /\ \A a \in Accounts : G[a] \in Nat
      /\ SumFunctionOnSet(G, Accounts) <= amount
  BY <1>3, GainsShared
<1>5. /\ \A a \in Accounts : r[a] \in Int /\ rr[a] = r[a]
      /\ \A a \in Accounts : b[a] \in Int /\ bb[a] = b[a]
      /\ \A a \in Accounts : c[a] \in Int /\ cc[a] = c[a]
      /\ \A a \in Accounts : u[a] \in Int /\ G[a] \in Int
      /\ \A a \in Accounts : uu[a] = u[a] + G[a]
  BY <1>1, <1>2, <1>4
<1> HIDE DEF r, b, c, u, rr, bb, cc, uu, G
<1>6. SumFunctionOnSet(rr, Accounts) = SumFunctionOnSet(r, Accounts)
  BY <1>5, AccountsOfRams, SumSame
<1>7. SumFunctionOnSet(bb, Accounts) = SumFunctionOnSet(b, Accounts)
  BY <1>5, AccountsOfRams, SumSame
<1>8. SumFunctionOnSet(cc, Accounts) = SumFunctionOnSet(c, Accounts)
  BY <1>5, AccountsOfRams, SumSame
<1>9. SumFunctionOnSet(uu, Accounts) = SumFunctionOnSet(u, Accounts) + SumFunctionOnSet(G, Accounts)
  BY <1>5, AccountsOfRams, SumPlus
<1>10. SumFunctionOnSet(G, Accounts) \in Nat
  BY <1>4, AccountsOfRams, SumNat
<1> QED BY <1>4, <1>6, <1>7, <1>8, <1>9, <1>10
        DEF RamsTotal, BytesTotal, ClaimedTotal, UnclaimedTotal, r, b, c, u, rr, bb, cc, uu, G

(* The promise of GasFundShared, of one step. *)
SharedStep ==
    veteranStat'.total_unclaimed > veteranStat.total_unclaimed =>
      LET amount == veteranStat'.total_unclaimed - veteranStat.total_unclaimed
          gains  == [a \in Accounts |-> veterans'[a].unclaimed - veterans[a].unclaimed]
          given  == SumFunctionOnSet(gains, Accounts)
      IN /\ \A a \in Veterans : gains[a] >= Proportion(a, amount)
         /\ given <= amount
         /\ (\A a \in Veterans : ServedLast(a) \/ Proportion(a, amount) > 0)
              => given = amount

(* A distribution keeps what concerns the veterans, and shares the amount. *)
LEMMA DistributeSafe ==
    ASSUME FundInv, BytesGiven, NEW amount \in Nat, DistributeToVeterans(amount),
           UNCHANGED swapVars
    PROVE  FundInv' /\ BytesGiven' /\ SharedStep
<1> DEFINE st == veteranStat
<1>1. /\ st.total_bytes > 0 /\ st.total_veterans > 0
      /\ veteranStat' = [veteranStat EXCEPT !.total_unclaimed = @ + amount]
      /\ btcHeld' = btcHeld + amount
      /\ UNCHANGED <<honorConfig, btcIgnored>>
      /\ honorConfig \in [disabled_convert : BOOLEAN, veteran_deadline : Nat]
      /\ NoShare
  BY DEF DistributeToVeterans, FundInv, VeteranTypes
<1>2. /\ st.total_rams \in Nat /\ st.total_bytes = BytesTotal
      /\ st.total_veterans = Cardinality(Veterans) /\ Cardinality(Veterans) \in Nat
      /\ st.total_claimed = ClaimedTotal /\ st.total_unclaimed \in Nat
      /\ btcHeld = st.total_unclaimed + btcIgnored
      /\ btcHeld \in Nat /\ btcIgnored \in Nat
      /\ UnclaimedTotal <= st.total_unclaimed
      /\ veteranStat = [total_rams |-> st.total_rams, total_bytes |-> st.total_bytes,
                        total_veterans |-> st.total_veterans,
                        total_unclaimed |-> st.total_unclaimed,
                        total_claimed |-> st.total_claimed]
      /\ BytesTotal \in Nat /\ ClaimedTotal \in Nat /\ UnclaimedTotal \in Nat
  BY FundFacts
<1>3. veteranStat' = [total_rams |-> st.total_rams, total_bytes |-> BytesTotal,
                      total_veterans |-> Cardinality(Veterans),
                      total_unclaimed |-> st.total_unclaimed + amount,
                      total_claimed |-> ClaimedTotal]
  BY <1>1, <1>2
<1> HIDE DEF st
<1>4. /\ veteranStat' \in [total_rams : Nat, total_bytes : Nat, total_veterans : Nat,
                           total_unclaimed : Nat, total_claimed : Nat]
      /\ veteranStat'.total_veterans = Cardinality(Veterans)
      /\ veteranStat'.total_bytes = BytesTotal
      /\ veteranStat'.total_claimed = ClaimedTotal
      /\ veteranStat'.total_unclaimed = st.total_unclaimed + amount
  BY <1>2, <1>3
<1> DEFINE G == GainOf(amount)
<1>5. /\ veterans' \in [Accounts -> VeteranRow]
      /\ \A a \in Accounts : veterans[a] \in VeteranRow /\ veterans[a].unclaimed \in Nat
      /\ \A a \in Accounts : veterans'[a].exists = veterans[a].exists
      /\ \A a \in Accounts : veterans'[a].unclaimed = veterans[a].unclaimed + G[a]
      /\ \A a \in Accounts : ~ veterans[a].exists => veterans'[a] = veterans[a]
  <2>1. \A a \in Accounts : veterans[a] \in VeteranRow
    BY DistributedRows
  <2> QED BY <2>1, DistributedRows, VeteranFields
<1>6. /\ RamsTotal' = RamsTotal /\ BytesTotal' = BytesTotal /\ ClaimedTotal' = ClaimedTotal
      /\ UnclaimedTotal' = UnclaimedTotal + SumFunctionOnSet(G, Accounts)
      /\ SumFunctionOnSet(G, Accounts) \in 0..amount
  BY DistributedSums
<1>7. /\ \A a \in Accounts : G[a] \in Nat
      /\ \A a \in Veterans : G[a] >= Proportion(a, amount)
      /\ (\A a \in Veterans : ServedLast(a) \/ Proportion(a, amount) > 0) =>
            SumFunctionOnSet(G, Accounts) = amount
      /\ G = [a \in Accounts |-> G[a]]
  <2>1. G = [a \in Accounts |-> G[a]]
    BY DEF GainOf
  <2> QED BY <1>1, <2>1, GainsShared DEF st
<1> HIDE DEF G
<1>8. Veterans' = Veterans /\ NoShare' /\ Veterans \subseteq Accounts
  BY <1>1, <1>5 DEF Veterans, NoShare
<1>9. FundInv'
  <2>1. /\ btcHeld' \in Nat /\ btcHeld' = veteranStat'.total_unclaimed + btcIgnored'
        /\ UnclaimedTotal' <= veteranStat'.total_unclaimed
    BY <1>1, <1>2, <1>4, <1>6
  <2> QED BY <1>1, <1>2, <1>4, <1>5, <1>6, <1>8, <2>1, FundKept
<1>10. BytesGiven'
  BY <1>6 DEF BytesGiven, swapVars, ramsVars
<1>11. SharedStep
  <2> DEFINE gains == [a \in Accounts |-> veterans'[a].unclaimed - veterans[a].unclaimed]
  <2>1. veteranStat'.total_unclaimed - veteranStat.total_unclaimed = amount
    BY <1>2, <1>4 DEF st
  <2>2. \A a \in Accounts : veterans'[a].unclaimed - veterans[a].unclaimed = G[a]
    BY <1>5, <1>7
  <2>3. gains = G
    BY <1>7, <2>2
  <2>4. \A a \in Veterans : gains[a] >= Proportion(a, amount)
    BY <1>7, <2>3
  <2>5. SumFunctionOnSet(gains, Accounts) <= amount
    BY <1>6, <2>3
  <2>6. (\A a \in Veterans : ServedLast(a) \/ Proportion(a, amount) > 0) =>
            SumFunctionOnSet(gains, Accounts) = amount
    BY <1>7, <2>3
  <2> HIDE DEF gains
  <2> QED BY <2>1, <2>4, <2>5, <2>6 DEF SharedStep, gains
<1> QED BY <1>9, <1>10, <1>11

-----------------------------------------------------------------------------
(* Every step. *)

(* Steps that leave the veterans alone. *)
LEMMA IdleFund ==
    ASSUME HonorInv, RamsInv', UNCHANGED fundVars,
           honorConfig' \in [disabled_convert : BOOLEAN, veteran_deadline : Nat],
           ramsBalance[HonorAccount] <= ramsBalance'[HonorAccount]
    PROVE  HonorInv' /\ SharedStep
<1>1. ramsBalance[HonorAccount] \in Nat /\ ramsBalance'[HonorAccount] \in Nat
  BY AccountsOfRams DEF HonorInv, RamsInv, SwapTypeOK
<1>2. FundInv' /\ BytesGiven'
  BY <1>1, VeteransSame DEF HonorInv, fundVars
<1>3. SharedStep
  <2>1. veteranStat.total_unclaimed \in Nat /\ veteranStat' = veteranStat
    BY FundFacts DEF HonorInv, fundVars
  <2>2. ~ (veteranStat'.total_unclaimed > veteranStat.total_unclaimed)
    BY <2>1
  <2> QED BY <2>2 DEF SharedStep
<1> QED BY <1>2, <1>3 DEF HonorInv

(* Nothing of RAMS changes. *)
LEMMA RamsSame ==
    ASSUME RamsInv, UNCHANGED swapVars
    PROVE  RamsInv' /\ ramsBalance' = ramsBalance
  BY DEF swapVars, tables, ramsVars, RamsInv, SwapTypeOK, TablesAgree, RamsIssued,
         HeldBy, HeldIn, ErasedTotal

(* What RAMS of other accounts, claims and the settings do to the fund. *)
LEMMA QuietSafe ==
    ASSUME HonorInv,
           \/ StakeOnlyNext
           \/ RamsNext
           \/ UNCHANGED allVars
           \/ \E disabled \in BOOLEAN, t \in Deadlines : UpdateStatus(disabled, t)
    PROVE  HonorInv' /\ SharedStep
<1>1. /\ RamsInv /\ ramsBalance[HonorAccount] \in Nat
      /\ honorConfig \in [disabled_convert : BOOLEAN, veteran_deadline : Nat]
  BY AccountsOfRams DEF HonorInv, RamsInv, SwapTypeOK, FundInv, VeteranTypes
<1>2. UNCHANGED fundVars
  BY DEF StakeOnlyNext, RamsNext, UpdateStatus, allVars, honorVars
<1>3. honorConfig' \in [disabled_convert : BOOLEAN, veteran_deadline : Nat]
  <2>1. CASE \E disabled \in BOOLEAN, t \in Deadlines : UpdateStatus(disabled, t)
    BY <2>1, HonorAssumption DEF UpdateStatus
  <2>2. CASE StakeOnlyNext \/ RamsNext \/ UNCHANGED allVars
    BY <1>1, <2>2 DEF StakeOnlyNext, RamsNext, allVars, honorVars
  <2> QED BY <2>1, <2>2
<1>4. RamsInv' /\ ramsBalance[HonorAccount] <= ramsBalance'[HonorAccount]
  <2>1. CASE RamsNext
    BY <1>1, <2>1, SwapSafe DEF RamsNext, RamsStep
  <2>2. CASE UNCHANGED swapVars
    <3>1. RamsInv' /\ ramsBalance' = ramsBalance
      BY <1>1, <2>2, RamsSame
    <3> QED BY <1>1, <3>1
  <2>3. RamsNext \/ UNCHANGED swapVars
    BY DEF StakeOnlyNext, UpdateStatus, allVars
  <2> QED BY <2>1, <2>2, <2>3
<1> QED BY <1>2, <1>3, <1>4, IdleFund

(* The shares of a gas fund. *)
LEMMA GasShares ==
    ASSUME NEW amount \in Nat
    PROVE  LET forVeterans == (amount * VeteranRatio) \div RatioPrecision
           IN forVeterans \in Nat /\ amount - forVeterans \in Nat
<1> DEFINE forVeterans == (amount * VeteranRatio) \div RatioPrecision
<1>1. /\ RatioPrecision \in Nat \ {0} /\ VeteranRatio \in Nat
      /\ VeteranRatio <= RatioPrecision
  BY HonorAssumption
<1>2. forVeterans \in 0..amount
  BY <1>1, PartAtMost
<1> HIDE DEF forVeterans
<1>3. forVeterans \in Nat /\ amount - forVeterans \in Nat
  BY <1>2
<1> QED BY <1>3 DEF forVeterans

(* BTC sent to honor.rms. *)
LEMMA FundSafe ==
    ASSUME HonorInv, NEW amount \in Nat,
           GasFund(amount) \/ DirectGasFund(amount) \/ IgnoredBtc(amount)
    PROVE  HonorInv' /\ SharedStep
<1>1. RamsInv /\ FundInv /\ BytesGiven /\ UNCHANGED swapVars
  BY DEF HonorInv, GasFund, DirectGasFund, IgnoredBtc
<1>2. RamsInv' /\ ramsBalance' = ramsBalance
  BY <1>1, RamsSame
<1>3. ASSUME NEW n \in Nat, DistributeToVeterans(n)
      PROVE  HonorInv' /\ SharedStep
  BY <1>1, <1>2, <1>3, DistributeSafe DEF HonorInv
<1>4. CASE DirectGasFund(amount)
  BY <1>3, <1>4 DEF DirectGasFund
<1>5. CASE GasFund(amount)
  <2> DEFINE n == (amount * VeteranRatio) \div RatioPrecision
  <2>1. n \in Nat
    BY GasShares
  <2>2. IF n > 0 THEN DistributeToVeterans(n) ELSE UNCHANGED honorVars
    BY <1>5 DEF GasFund
  <2> HIDE DEF n
  <2>3. CASE DistributeToVeterans(n)
    BY <1>3, <2>1, <2>3
  <2>4. CASE UNCHANGED honorVars
    <3>1. /\ ramsBalance[HonorAccount] \in Nat /\ UNCHANGED fundVars
          /\ honorConfig' \in [disabled_convert : BOOLEAN, veteran_deadline : Nat]
      BY <1>1, <2>4, AccountsOfRams
         DEF RamsInv, SwapTypeOK, FundInv, VeteranTypes, honorVars
    <3> QED BY <1>2, <3>1, IdleFund
  <2> QED BY <2>2, <2>3, <2>4
<1>6. CASE IgnoredBtc(amount)
  <2>1. /\ btcHeld' = btcHeld + amount /\ btcIgnored' = btcIgnored + amount
        /\ UNCHANGED <<honorConfig, veterans, veteranStat>>
    BY <1>6 DEF IgnoredBtc
  <2>2. /\ RamsTotal' = RamsTotal /\ BytesTotal' = BytesTotal
        /\ ClaimedTotal' = ClaimedTotal /\ UnclaimedTotal' = UnclaimedTotal
        /\ Veterans' = Veterans
    BY <2>1 DEF RamsTotal, BytesTotal, ClaimedTotal, UnclaimedTotal, Veterans
  <2>3. /\ honorConfig \in [disabled_convert : BOOLEAN, veteran_deadline : Nat]
        /\ veterans \in [Accounts -> VeteranRow] /\ NoShare
        /\ veteranStat \in [total_rams : Nat, total_bytes : Nat, total_veterans : Nat,
                            total_unclaimed : Nat, total_claimed : Nat]
    BY <1>1 DEF FundInv, VeteranTypes
  <2>4. /\ veteranStat.total_bytes = BytesTotal
        /\ veteranStat.total_veterans = Cardinality(Veterans)
        /\ veteranStat.total_claimed = ClaimedTotal
        /\ veteranStat.total_unclaimed \in Nat
        /\ btcHeld = veteranStat.total_unclaimed + btcIgnored
        /\ btcHeld \in Nat /\ btcIgnored \in Nat
        /\ UnclaimedTotal <= veteranStat.total_unclaimed
    BY <1>1, FundFacts
  <2>5. /\ btcHeld' \in Nat /\ btcIgnored' \in Nat
        /\ btcHeld' = veteranStat.total_unclaimed + btcIgnored'
    BY <2>1, <2>4
  <2>6. NoShare'
    BY <2>1, <2>3 DEF NoShare
  <2>7. FundInv'
    BY <2>1, <2>2, <2>3, <2>4, <2>5, <2>6, FundKept
  <2>8. BytesGiven'
    BY <1>1, <1>2, <2>2 DEF BytesGiven
  <2>9. ~ (veteranStat'.total_unclaimed > veteranStat.total_unclaimed)
    BY <2>1, <2>4
  <2> QED BY <1>2, <2>7, <2>8, <2>9 DEF HonorInv, SharedStep
<1> QED BY <1>4, <1>5, <1>6

(* What veterans do adds nothing to what is unclaimed. *)
LEMMA VeteranSafe ==
    ASSUME HonorInv,
           \/ \E a \in Holders, n \in RamsAmounts : Convert(a, n)
           \/ \E a \in Accounts : ClaimGas(a)
    PROVE  HonorInv' /\ SharedStep
<1>1. /\ FundInv /\ veteranStat.total_unclaimed \in Nat
      /\ veteranStat \in [total_rams : Nat, total_bytes : Nat, total_veterans : Nat,
                          total_unclaimed : Nat, total_claimed : Nat]
  BY FundFacts DEF HonorInv, FundInv, VeteranTypes
<1>2. CASE \E a \in Holders, n \in RamsAmounts : Convert(a, n)
  <2>1. PICK a \in Holders, n \in RamsAmounts : Convert(a, n)
    BY <1>2
  <2>2. n \in Nat
    BY SwapAssumption
  <2>3. HonorInv'
    BY <2>1, <2>2, ConvertSafe
  <2>4. veteranStat'.total_unclaimed = veteranStat.total_unclaimed
    <3>1. veteranStat' = veteranStat \/ veteranStat' = VeteranStat(a, n)
      BY <2>1 DEF Convert
    <3>2. VeteranStat(a, n).total_unclaimed = veteranStat.total_unclaimed
      BY <1>1 DEF VeteranStat
    <3> QED BY <3>1, <3>2
  <2>5. ~ (veteranStat'.total_unclaimed > veteranStat.total_unclaimed)
    BY <1>1, <2>4
  <2> QED BY <2>3, <2>5 DEF SharedStep
<1>3. CASE \E a \in Accounts : ClaimGas(a)
  <2>1. PICK a \in Accounts : ClaimGas(a)
    BY <1>3
  <2>2. HonorInv'
    BY <2>1, ClaimGasSafe
  <2> DEFINE amount == veterans[a].unclaimed
  <2>3. amount \in Nat
    <3>1. veterans[a] \in VeteranRow
      BY <1>1 DEF FundInv, VeteranTypes
    <3> QED BY <3>1, VeteranFields
  <2>4. veteranStat'.total_unclaimed = veteranStat.total_unclaimed - amount
    BY <1>1, <2>1 DEF ClaimGas
  <2> HIDE DEF amount
  <2>5. ~ (veteranStat'.total_unclaimed > veteranStat.total_unclaimed)
    BY <1>1, <2>3, <2>4
  <2> QED BY <2>2, <2>5 DEF SharedStep
<1> QED BY <1>2, <1>3

LEMMA HonorStepSafe ==
    ASSUME HonorInv, [HonorNext \/ StakeOnlyNext \/ RamsNext]_allVars
    PROVE  HonorInv' /\ SharedStep
<1>1. \A n \in GasFunds : n \in Nat
  BY HonorAssumption
<1>2. CASE HonorNext
  BY <1>1, <1>2, QuietSafe, FundSafe, VeteranSafe DEF HonorNext
<1>3. CASE ~ HonorNext
  BY <1>3, QuietSafe
<1> QED BY <1>2, <1>3

(* stake.rms sees actions of its own. *)
LEMMA HonorStakeStep ==
    ASSUME IndInv, [HonorNext \/ StakeOnlyNext \/ RamsNext]_allVars
    PROVE  IndInv'
<1>1. CASE \E a \in Holders, n \in RamsAmounts : Convert(a, n)
  <2>1. PICK a \in Holders, n \in RamsAmounts : Rams2V(a, BytesOf(n))
    BY <1>1 DEF Convert
  <2>2. BytesOf(n) \in Nat /\ a \in Accounts
    BY BytesFacts, SwapAssumption, AccountsOfRams
  <2> QED BY <2>1, <2>2, StakerSafe DEF SafeStep
<1>2. CASE \E n \in GasFunds : GasFund(n)
  <2>1. PICK n \in GasFunds : GasFund(n)
    BY <1>2
  <2> DEFINE m == n - (n * VeteranRatio) \div RatioPrecision
  <2>2. m \in Nat
    <3>1. n \in Nat
      BY HonorAssumption
    <3> QED BY <3>1, GasShares
  <2>3. IF m > 0 THEN Rent(Btc, UtxoManager, m) ELSE UNCHANGED vars
    BY <2>1 DEF GasFund
  <2> HIDE DEF m
  <2>4. CASE UNCHANGED vars
    BY <2>4, IdleSafe DEF SafeStep
  <2>5. CASE Rent(Btc, UtxoManager, m)
    <3>1. /\ UNCHANGED <<config, stat, stakes, unstakes, borrows, vBalance, vIgnored,
                         vaultRam, now>>
          /\ config \in ConfigRow /\ vaultRam \in Nat /\ now \in Nat
      <4>1. config \in ConfigRow /\ vaultRam \in Nat /\ now \in Nat
        BY DEF IndInv, VaultInv, VaultTypes
      <4>2. UNCHANGED <<config, stat, stakes, unstakes, borrows, vBalance, vIgnored, vaultRam, now>>
        BY <2>5 DEF Rent, stakeVars, loanVars
      <4> QED BY <4>1, <4>2
    <3>2. VaultInv'
      BY <3>1, VaultSame DEF IndInv
    <3>3. Btc \in Tokens /\ UtxoManager \in Accounts
      BY HonorAssumption
    <3>4. RewardInv'
      BY <2>2, <2>5, <3>2, <3>3, RentReward DEF IndInv
    <3> QED BY <3>2, <3>4 DEF IndInv
  <2> QED BY <2>3, <2>4, <2>5
<1>3. CASE ~ (\E a \in Holders, n \in RamsAmounts : Convert(a, n))
           /\ ~ (\E n \in GasFunds : GasFund(n))
  <2>1. [Next]_vars
    <3>1. CASE HonorNext \/ RamsNext \/ UNCHANGED allVars
      BY <1>3, <3>1 DEF HonorNext, UpdateStatus, DirectGasFund, IgnoredBtc, ClaimGas, RamsNext,
                        allVars
    <3>2. CASE StakeOnlyNext
      BY <3>2 DEF StakeOnlyNext, Next, StakeNext
    <3> QED BY <3>1, <3>2
  <2> QED BY <2>1, NextSafe DEF SafeStep
<1> QED BY <1>1, <1>2, <1>3

(* What a conversion moves is worth no more than the RAMS it takes: nothing when it is
   RAMS_DAO that converts. *)
LEMMA ConvertGives ==
    ASSUME HonorInv, IndInv, GivenCovered, NEW from \in Holders, NEW rams \in Nat,
           Convert(from, rams)
    PROVE  GivenCovered'
<1> DEFINE B == BytesPerInscription  R == RamsPerInscription  n == BytesOf(rams)
           taken == ramsBalance[HonorAccount]
<1>1. /\ B \in Nat /\ R \in Nat /\ n \in Nat /\ R * n <= B * rams
      /\ from \in Accounts /\ stakeGiven \in Nat /\ R * stakeGiven <= B * taken
  BY SwapAssumption, BytesFacts, AccountsOfRams DEF GivenCovered
<1>2. taken \in Nat /\ ramsBalance'[HonorAccount] = taken + rams
  <2>1. RamsInv /\ RamsMoved(from, HonorAccount, rams)
    BY DEF HonorInv, Convert
  <2> QED BY <2>1, AccountsOfRams, MoveSafe DEF RamsInv, SwapTypeOK
<1>3. /\ stakes' = Swapped(from, n) /\ n <= stakes[RamsDao].amount /\ stakes[RamsDao].exists
      /\ stakeGiven' = stakeGiven + stakes'[from].amount - stakes[from].amount
  BY DEF Convert, Rams2V
<1> HIDE DEF B, R, n, taken
<1>4. stakes[from].amount \in Nat /\ stakes'[from].amount \in {stakes[from].amount,
                                                           stakes[from].amount + n}
  <2>1. stakes \in [Accounts -> StakeRow] /\ stakes[from].amount \in Nat
    BY <1>1, VaultTotals DEF IndInv, VaultInv, VaultTypes
  <2> QED BY <1>1, <1>3, <2>1, SwappedRows
<1>5. PICK given \in {0, n} : stakeGiven' = stakeGiven + given
  BY <1>1, <1>3, <1>4
<1>6. given \in Nat /\ stakeGiven' \in Nat /\ R * given <= B * rams
  BY <1>1, <1>5, ProductNat
<1>7. /\ R * (stakeGiven + given) = R * stakeGiven + R * given
      /\ B * (taken + rams) = B * taken + B * rams
      /\ R * stakeGiven \in Int /\ R * given \in Int /\ B * taken \in Int /\ B * rams \in Int
  BY <1>1, <1>2, <1>6
<1>8. R * stakeGiven' <= B * ramsBalance'[HonorAccount]
  BY <1>1, <1>2, <1>5, <1>6, <1>7
<1> QED BY <1>6, <1>8 DEF GivenCovered, B, R

(* Nothing else moves stake for RAMS, or takes RAMS from honor.rms. *)
LEMMA GivenStep ==
    ASSUME HonorInv, IndInv, GivenCovered, [HonorNext \/ StakeOnlyNext \/ RamsNext]_allVars
    PROVE  GivenCovered'
<1>1. CASE \E a \in Holders, n \in RamsAmounts : Convert(a, n)
  BY <1>1, ConvertGives, SwapAssumption
<1>2. CASE ~ (\E a \in Holders, n \in RamsAmounts : Convert(a, n))
  <2>1. stakeGiven' = stakeGiven /\ (RamsNext \/ UNCHANGED swapVars)
    BY <1>2 DEF HonorNext, UpdateStatus, GasFund, DirectGasFund, DistributeToVeterans, IgnoredBtc,
                ClaimGas, StakeOnlyNext, RamsNext, allVars, honorVars
  <2>2. /\ ramsBalance[HonorAccount] \in Nat /\ ramsBalance'[HonorAccount] \in Nat
        /\ ramsBalance[HonorAccount] <= ramsBalance'[HonorAccount]
    <3>1. RamsInv /\ RamsInv'
      BY HonorStepSafe DEF HonorInv
    <3>2. ramsBalance[HonorAccount] \in Nat /\ ramsBalance'[HonorAccount] \in Nat
      BY <3>1, AccountsOfRams DEF RamsInv, SwapTypeOK
    <3>3. CASE RamsNext
      BY <3>1, <3>2, <3>3, SwapSafe DEF RamsNext, RamsStep
    <3>4. CASE UNCHANGED swapVars
      BY <3>2, <3>4 DEF swapVars, ramsVars
    <3> QED BY <2>1, <3>3, <3>4
  <2> DEFINE B == BytesPerInscription  h == ramsBalance[HonorAccount]
             k == ramsBalance'[HonorAccount] - h
  <2>3. k \in Nat /\ h \in Nat /\ B \in Nat /\ ramsBalance'[HonorAccount] = h + k
    BY <2>2, SwapAssumption
  <2>4. RamsPerInscription * stakeGiven <= B * h /\ RamsPerInscription * stakeGiven \in Int
    BY SwapAssumption DEF GivenCovered
  <2> HIDE DEF B, h, k
  <2>5. B * k \in Nat /\ B * (h + k) = B * h + B * k /\ B * h \in Int
    BY <2>3, ProductNat
  <2>6. RamsPerInscription * stakeGiven <= B * ramsBalance'[HonorAccount]
    BY <2>3, <2>4, <2>5
  <2> QED BY <2>1, <2>6 DEF GivenCovered, B
<1> QED BY <1>1, <1>2

(* So it is covered by the bytes that were sent: no RAMS are convertible but those. *)
LEMMA GivenBacked ==
    ASSUME HonorInv, GivenCovered
    PROVE  stakeGiven <= bytesToDao
<1> DEFINE h == [a \in Convertible |-> ramsBalance[a]]
           B == BytesPerInscription  R == RamsPerInscription
           taken == ramsBalance[HonorAccount]  held == HeldBy(Convertible)  k == held - taken
<1>1. /\ \A a \in Convertible : h[a] \in Nat
      /\ IsFiniteSet(Convertible) /\ HonorAccount \in Convertible
      /\ h[HonorAccount] = taken /\ held = SumFunctionOnSet(h, Convertible)
  BY AccountsOfRams, FS_Subset DEF HonorInv, RamsInv, SwapTypeOK, Convertible, HeldBy, HeldIn
<1>2. B \in Nat /\ R \in Nat \ {0} /\ bytesToDao \in Nat /\ stakeGiven \in Nat
  BY SwapAssumption DEF HonorInv, RamsInv, SwapTypeOK, GivenCovered
<1>3. R * stakeGiven <= B * taken /\ B * held <= R * bytesToDao
  BY DEF GivenCovered, HonorInv, RamsInv, RamsIssued
<1> HIDE DEF h, B, R, taken, held
<1>4. SumFunctionOnSet(h, Convertible) \in Nat /\ h[HonorAccount] <= SumFunctionOnSet(h, Convertible)
  BY <1>1, SumNat, SumAtLeast
<1>5. taken \in Nat /\ k \in Nat /\ held = taken + k
  BY <1>1, <1>4
<1> HIDE DEF k
<1>6. B * (taken + k) = B * taken + B * k /\ B * k \in Nat /\ B * taken \in Nat
  BY <1>2, <1>5, ProductNat
<1>7. R * stakeGiven <= R * bytesToDao
  <2>1. R * stakeGiven \in Nat /\ R * bytesToDao \in Nat
    BY <1>2, ProductNat
  <2> QED BY <1>3, <1>5, <1>6, <2>1
<1>8. ASSUME stakeGiven > bytesToDao PROVE FALSE
  <2> DEFINE more == stakeGiven - bytesToDao - 1
  <2>1. more \in Nat /\ stakeGiven = bytesToDao + 1 + more
    BY <1>2, <1>8
  <2> HIDE DEF more
  <2>2. R * (bytesToDao + 1 + more) = R * bytesToDao + R + R * more
    BY <1>2, <2>1
  <2>3. R * more \in Nat /\ R * bytesToDao \in Nat
    BY <1>2, <2>1, ProductNat
  <2> QED BY <1>2, <1>7, <2>1, <2>2, <2>3
<1> QED BY <1>2, <1>8

(* At the beginning there are no RAMS and no veterans. *)
LEMMA HonorInitSafe == HonorInit => HonorInv
<1> SUFFICES ASSUME HonorInit PROVE HonorInv
  OBVIOUS
<1>1. SwapInit /\ veterans = [a \in Accounts |-> NoVeteran]
  BY DEF HonorInit
<1>2. SwapTypeOK /\ TablesAgree
  <2>1. /\ MaxRams \in Nat /\ Minted \in [Holders -> Nat]
        /\ mintcount = Minted /\ usermints = Minted
        /\ mints = [a \in Holders |-> Minted[a] + IF a = Deployer THEN 1 ELSE 0]
        /\ ramsSupply = 0 /\ ramsBalance = [a \in RamsAccounts |-> 0]
        /\ swapDisabled = FALSE /\ bytesToDao = 0
    BY <1>1, SwapAssumption DEF SwapInit
  <2>2. mints \in [Holders -> Nat]
    BY <2>1
  <2>3. TablesAgree
    BY <2>1 DEF TablesAgree
  <2>4. ramsSupply \in 0..MaxRams /\ ramsBalance \in [RamsAccounts -> Nat]
    BY <2>1
  <2> QED BY <2>1, <2>2, <2>3, <2>4 DEF SwapTypeOK
<1>3. RamsIssued
  <2> DEFINE e == [a \in Holders |-> Minted[a] - mintcount[a]]
  <2>1. \A a \in Holders : e[a] = 0
    BY <1>1, SwapAssumption DEF SwapInit
  <2> HIDE DEF e
  <2>2. SumFunctionOnSet(e, Holders) = 0
    BY <2>1, AccountsOfRams, SumZero
  <2>3. ASSUME NEW S \in SUBSET RamsAccounts PROVE HeldBy(S) = 0
    <3> DEFINE h == [a \in S |-> ramsBalance[a]]
    <3>1. IsFiniteSet(S) /\ \A a \in S : h[a] = 0
      BY <1>1, AccountsOfRams, FS_Subset DEF SwapInit
    <3> HIDE DEF h
    <3>2. SumFunctionOnSet(h, S) = 0
      BY <3>1, SumZero
    <3> QED BY <3>2 DEF HeldBy, HeldIn, h
  <2>4. HeldBy(Convertible) = 0 /\ HeldBy(RamsAccounts) = 0
    BY <2>3, AccountsOfRams
  <2> QED BY <1>1, <2>2, <2>4, SwapAssumption DEF SwapInit, RamsIssued, ErasedTotal, e
<1>4. RamsTotal = 0 /\ BytesTotal = 0 /\ ClaimedTotal = 0 /\ UnclaimedTotal = 0
  <2> DEFINE r == [a \in Accounts |-> veterans[a].rams]
             b == [a \in Accounts |-> veterans[a].bytes]
             c == [a \in Accounts |-> veterans[a].claimed]
             u == [a \in Accounts |-> veterans[a].unclaimed]
  <2>1. /\ \A a \in Accounts : r[a] = 0
        /\ \A a \in Accounts : b[a] = 0
        /\ \A a \in Accounts : c[a] = 0
        /\ \A a \in Accounts : u[a] = 0
    BY <1>1 DEF NoVeteran
  <2> HIDE DEF r, b, c, u
  <2>2. SumFunctionOnSet(r, Accounts) = 0 /\ SumFunctionOnSet(b, Accounts) = 0
    BY <2>1, AccountsOfRams, SumZero
  <2>3. SumFunctionOnSet(c, Accounts) = 0 /\ SumFunctionOnSet(u, Accounts) = 0
    BY <2>1, AccountsOfRams, SumZero
  <2> QED BY <2>2, <2>3 DEF RamsTotal, BytesTotal, ClaimedTotal, UnclaimedTotal, r, b, c, u
<1>5. VeteranTypes /\ NoShare
  BY <1>1, HonorAssumption DEF HonorInit, VeteranTypes, NoShare, VeteranRow, NoVeteran
<1>6. Cardinality(Veterans) = 0
  <2>1. Veterans = {}
    BY <1>1 DEF Veterans, NoVeteran
  <2> QED BY <2>1, FS_EmptySet
<1>7. VeteransTotalled
  BY <1>4, <1>6, InvariantParts DEF HonorInit
<1>8. BytesGiven
  BY <1>1, <1>4, AccountsOfRams, SwapAssumption DEF SwapInit, BytesGiven
<1> QED BY <1>2, <1>3, <1>5, <1>7, <1>8 DEF HonorInv, RamsInv, FundInv

-----------------------------------------------------------------------------
(* The theorems. *)

(* The inductive invariant holds throughout. *)
THEOREM HonorInvariance == HonorSpec => []HonorInv
<1>1. HonorInv /\ [HonorNext \/ StakeOnlyNext \/ RamsNext]_allVars => HonorInv'
  BY HonorStepSafe
<1> QED BY <1>1, HonorInitSafe, PTL DEF HonorSpec

(* The invariant of stake.rms holds beside honor.rms. *)
THEOREM StakeKeptByHonor == HonorSpec => []IndInv
<1>1. HonorInit => IndInv
  BY InitSafe DEF HonorInit
<1>2. IndInv /\ [HonorNext \/ StakeOnlyNext \/ RamsNext]_allVars => IndInv'
  BY HonorStakeStep
<1> QED BY <1>1, <1>2, PTL DEF HonorSpec

(* The stake given for RAMS is covered by the RAMS taken. *)
THEOREM GivenInvariance == HonorSpec => []GivenCovered
<1>1. HonorInit => GivenCovered
  <2>1. HonorInit => stakeGiven = 0 /\ ramsBalance[HonorAccount] = 0
    BY AccountsOfRams DEF HonorInit, SwapInit
  <2> QED BY <2>1, SwapAssumption DEF GivenCovered
<1>2. HonorInv /\ IndInv /\ GivenCovered /\ [HonorNext \/ StakeOnlyNext \/ RamsNext]_allVars
        => GivenCovered'
  BY GivenStep
<1> QED BY <1>1, <1>2, HonorInvariance, StakeKeptByHonor, PTL DEF HonorSpec

(* The tables hold rows of their type, and those of the inscriptions agree, so
   that erase never walks into the rows of another account. *)
THEOREM HonorTypesHold == HonorSpec => []HonorTypeOK
<1>1. HonorInv /\ GivenCovered => HonorTypeOK
  BY InvariantParts DEF HonorInv, RamsInv, FundInv, GivenCovered
<1> QED BY <1>1, HonorInvariance, GivenInvariance, PTL

(* The stake that rams2v has moved out of RAMS_DAO for RAMS, before the deadline and
   after it, is no more than the RAM that was sent to ramsdao.eos for them. *)
THEOREM RamsStaysBacked == HonorSpec => []RamsBacked
<1>1. HonorInv /\ GivenCovered => RamsBacked
  BY InvariantParts, GivenBacked DEF HonorInv, RamsInv, GivenCovered
<1> QED BY <1>1, HonorInvariance, GivenInvariance, PTL

(* The totals of the veterans are those of their table, and the BTC held covers
   what they can claim. *)
THEOREM VeteransStayTotalled == HonorSpec => []VeteransTotalled
<1>1. HonorInv => VeteransTotalled
  BY DEF HonorInv, FundInv
<1> QED BY <1>1, HonorInvariance, PTL

(* A gas fund gives each veteran its proportion at least, and no more than the
   amount in all. *)
THEOREM GasFundIsShared == HonorSpec => GasFundShared
<1>1. HonorInv /\ [HonorNext \/ StakeOnlyNext \/ RamsNext]_allVars =>
        [veteranStat'.total_unclaimed > veteranStat.total_unclaimed =>
           LET amount == veteranStat'.total_unclaimed - veteranStat.total_unclaimed
               gains  == [a \in Accounts |-> veterans'[a].unclaimed - veterans[a].unclaimed]
               given  == SumFunctionOnSet(gains, Accounts)
           IN /\ \A a \in Veterans : gains[a] >= Proportion(a, amount)
              /\ given <= amount
              /\ (\A a \in Veterans : ServedLast(a) \/ Proportion(a, amount) > 0)
                   => given = amount]_allVars
  <2> SUFFICES ASSUME HonorInv, [HonorNext \/ StakeOnlyNext \/ RamsNext]_allVars
               PROVE  SharedStep
    BY DEF SharedStep
  <2> QED BY HonorStepSafe
<1> QED BY <1>1, HonorInvariance, PTL DEF HonorSpec, GasFundShared

(* With honor.rms beside it, stake.rms still keeps its books. *)
THEOREM StakeBooksKeptByHonor ==
    HonorSpec => [](/\ StakesTotalled /\ UnstakingMatchesRows /\ VaultCovered
                    /\ StakeDebtCovered /\ RewardFunded)
<1>1. IndInv => /\ StakesTotalled /\ UnstakingMatchesRows /\ VaultCovered
                /\ StakeDebtCovered /\ RewardFunded
  BY FundedByInv DEF IndInv, VaultInv, RewardInv
<1> QED BY <1>1, StakeKeptByHonor, PTL

=============================================================================
