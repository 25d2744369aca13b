----------------------------- MODULE StakeRmsProofs -----------------------------
(***************************************************************************)
(* Proofs about the staking contract: the tables keep their types, the     *)
(* totals stay in step with the tables and with the V held, V is paid out  *)
(* after it has waited, and a settlement pays on the stake held, for any   *)
(* number of accounts, tokens and unstake rows, and whenever the migration *)
(* runs.                                                                   *)
(***************************************************************************)
EXTENDS StakeRms, NumberLemmas

(* The parts of the type invariant that the two halves of a step disturb. *)
VaultTypes ==
    /\ config \in ConfigRow
    /\ stat \in [stake_amount : Nat, used_amount : Nat]
    /\ stakes \in [Accounts -> StakeRow]
    /\ unstakes \in [Accounts -> [UnstakeIds -> UnstakeRow]]
    /\ borrows \in [Accounts -> BorrowRow]
    /\ vBalance \in Nat /\ vIgnored \in Nat
    /\ vaultRam \in Nat /\ now \in Nat

(* The tables of the rewards. *)
RewardTypes ==
    /\ rentTokens \in [Tokens -> RentTokenRow]
    /\ rents \in [Tokens -> [Accounts -> Nat]]
    /\ rewards \in [Tokens -> [Accounts -> RewardRow]]
    /\ tokenBalance \in [Tokens -> Nat] /\ tokenIgnored \in [Tokens -> Nat]

(* An account without a row has no stake and no loan: what init overwrites is
   nothing. *)
NoRowNoAmount ==
    /\ \A a \in Accounts :
         ~ stakes[a].exists => stakes[a].amount = 0 /\ stakes[a].unstaking_amount = 0
    /\ \A a \in Accounts : ~ borrows[a].exists => borrows[a].bytes = 0

(* A token that is not listed yet has distributed nothing. *)
UnlistedIdle ==
    \A t \in Tokens : ~ rentTokens[t].listed =>
        rentTokens[t].acc_per_share = 0 /\ rentTokens[t].reward_balance = 0

(* The sums that stat and the vault have to match. *)
StakedTotal    == SumFunctionOnSet(StakedOf, Accounts)
UnstakingTotal == SumFunctionOnSet(UnstakingOf, Accounts)
LentTotal      == SumFunctionOnSet(LentTo, Accounts)

(* The first part of LoansRecorded; the second says where the RAM comes from. *)
LoansTotalled == LentTotal + NotMigrated = stat.used_amount
RamConserved  == vaultRam + stat.used_amount = InitialVaultRam + InitialAmount

(* The strengthening of the safety properties that every step preserves.  The
   amounts need each other: unstaking_amount stays natural because the rows add
   up to it, stake_amount because the stakes do.  The debts need UnlistedIdle,
   since a token that is not listed is not settled, and init the missing rows. *)
VaultInv == /\ VaultTypes /\ NoRowNoAmount /\ StakesTotalled /\ UnstakingMatchesRows
            /\ VaultCovered /\ LoansTotalled
RewardInv == RewardTypes /\ StakeDebtCovered /\ UnlistedIdle /\ RewardsTotalled /\ TokensHeld
IndInv == VaultInv /\ RewardInv

-----------------------------------------------------------------------------
(* Sums over the tables. *)

(* The total of the stakes changes by as much as the one row that changes. *)
LEMMA StakeRowStep ==
    ASSUME VaultTypes, stakes' \in [Accounts -> StakeRow],
           NEW a \in Accounts, \A b \in Accounts \ {a} : stakes'[b] = stakes[b]
    PROVE  /\ StakedTotal' = StakedTotal + stakes'[a].amount - stakes[a].amount
           /\ UnstakingTotal' =
                UnstakingTotal + stakes'[a].unstaking_amount - stakes[a].unstaking_amount
<1> DEFINE f == [b \in Accounts |-> stakes[b].amount]
           g == [b \in Accounts |-> stakes'[b].amount]
           h == [b \in Accounts |-> stakes[b].unstaking_amount]
           k == [b \in Accounts |-> stakes'[b].unstaking_amount]
<1>1. \A b \in Accounts : f[b] \in Int /\ g[b] \in Int /\ h[b] \in Int /\ k[b] \in Int
  BY DEF VaultTypes, StakeRow
<1>2. \A b \in Accounts : b # a => g[b] = f[b] /\ k[b] = h[b]
  OBVIOUS
<1>3. /\ SumFunctionOnSet(g, Accounts) = SumFunctionOnSet(f, Accounts) + g[a] - f[a]
      /\ SumFunctionOnSet(k, Accounts) = SumFunctionOnSet(h, Accounts) + k[a] - h[a]
  <2> HIDE DEF f, g, h, k
  <2>1. SumFunctionOnSet(g, Accounts) = SumFunctionOnSet(f, Accounts) + g[a] - f[a]
    BY <1>1, <1>2, StakeAssumption, SumUpdate
  <2>2. SumFunctionOnSet(k, Accounts) = SumFunctionOnSet(h, Accounts) + k[a] - h[a]
    BY <1>1, <1>2, StakeAssumption, SumUpdate
  <2> QED BY <2>1, <2>2
<1> QED BY <1>3 DEF StakedTotal, UnstakingTotal, StakedOf, UnstakingOf

(* A swap of stake leaves the totals as they were. *)
LEMMA StakeMove ==
    ASSUME VaultTypes, stakes' \in [Accounts -> StakeRow],
           NEW a \in Accounts, NEW c \in Accounts, a # c,
           \A b \in Accounts \ {a, c} : stakes'[b].amount = stakes[b].amount,
           stakes'[a].amount + stakes'[c].amount = stakes[a].amount + stakes[c].amount
    PROVE  StakedTotal' = StakedTotal
<1> DEFINE f == [b \in Accounts |-> stakes[b].amount]
           g == [b \in Accounts |-> stakes'[b].amount]
           h == [b \in Accounts |-> IF b = a THEN stakes'[a].amount ELSE stakes[b].amount]
<1>1. \A b \in Accounts : f[b] \in Int /\ g[b] \in Int /\ h[b] \in Int
  BY DEF VaultTypes, StakeRow
<1>2. /\ \A b \in Accounts : b # a => h[b] = f[b]
      /\ \A b \in Accounts : b # c => g[b] = h[b]
      /\ h[a] = g[a] /\ h[c] = f[c] /\ g[a] + g[c] = f[a] + f[c]
  OBVIOUS
<1>3. SumFunctionOnSet(f, Accounts) \in Int
  BY <1>1, StakeAssumption, SumInt
<1>4. SumFunctionOnSet(g, Accounts) = SumFunctionOnSet(f, Accounts)
  <2> HIDE DEF f, g, h
  <2>1. SumFunctionOnSet(h, Accounts) = SumFunctionOnSet(f, Accounts) + h[a] - f[a]
    BY <1>1, <1>2, StakeAssumption, SumUpdate
  <2>2. SumFunctionOnSet(g, Accounts) = SumFunctionOnSet(h, Accounts) + g[c] - h[c]
    BY <1>1, <1>2, StakeAssumption, SumUpdate
  <2> QED BY <1>1, <1>2, <1>3, <2>1, <2>2
<1> QED BY <1>4 DEF StakedTotal, StakedOf

(* The total of unstaking_amount stays when no row changes it. *)
LEMMA UnstakingSame ==
    ASSUME VaultTypes, stakes' \in [Accounts -> StakeRow],
           \A b \in Accounts : stakes'[b].unstaking_amount = stakes[b].unstaking_amount
    PROVE  UnstakingTotal' = UnstakingTotal
<1> DEFINE h == [b \in Accounts |-> stakes[b].unstaking_amount]
           k == [b \in Accounts |-> stakes'[b].unstaking_amount]
<1>1. \A b \in Accounts : h[b] \in Int /\ k[b] = h[b]
  BY DEF VaultTypes, StakeRow
<1>2. SumFunctionOnSet(k, Accounts) = SumFunctionOnSet(h, Accounts)
  <2> HIDE DEF h, k
  <2> QED BY <1>1, StakeAssumption, SumSame
<1> QED BY <1>2 DEF UnstakingTotal, UnstakingOf

(* The total of the loans changes by as much as the one row that changes. *)
LEMMA LoanRowStep ==
    ASSUME VaultTypes, borrows' \in [Accounts -> BorrowRow],
           NEW a \in Accounts, \A b \in Accounts \ {a} : borrows'[b] = borrows[b]
    PROVE  LentTotal' = LentTotal + borrows'[a].bytes - borrows[a].bytes
<1> DEFINE f == [b \in Accounts |-> borrows[b].bytes]
           g == [b \in Accounts |-> borrows'[b].bytes]
<1>1. \A b \in Accounts : f[b] \in Int /\ g[b] \in Int
  BY DEF VaultTypes, BorrowRow
<1>2. \A b \in Accounts : b # a => g[b] = f[b]
  OBVIOUS
<1>3. SumFunctionOnSet(g, Accounts) = SumFunctionOnSet(f, Accounts) + g[a] - f[a]
  <2> HIDE DEF f, g
  <2> QED BY <1>1, <1>2, StakeAssumption, SumUpdate
<1> QED BY <1>3 DEF LentTotal, LentTo

(* What the totals bound, with the totals named. *)
LEMMA VaultTotals ==
    ASSUME VaultInv
    PROVE  /\ StakedTotal \in Nat /\ UnstakingTotal \in Nat /\ LentTotal \in Nat
           /\ stat.stake_amount \in Nat /\ stat.used_amount \in Nat
           /\ NotMigrated \in Nat /\ Migrated \in Nat
           /\ vBalance \in Nat /\ vIgnored \in Nat
           /\ StakedTotal + NotMigrated = stat.stake_amount
           /\ LentTotal + NotMigrated = stat.used_amount
           /\ vBalance + Migrated = StakedTotal + UnstakingTotal + vIgnored
           /\ \A a \in Accounts :
                /\ stakes[a] \in StakeRow /\ borrows[a] \in BorrowRow
                /\ stakes[a].amount \in Nat /\ stakes[a].amount <= StakedTotal
                /\ stakes[a].unstaking_amount \in Nat
                /\ stakes[a].unstaking_amount <= UnstakingTotal
                /\ borrows[a].bytes \in Nat /\ borrows[a].bytes <= LentTotal
<1>1. /\ stat.stake_amount \in Nat /\ stat.used_amount \in Nat
      /\ vBalance \in Nat /\ vIgnored \in Nat
      /\ \A a \in Accounts :
                /\ stakes[a] \in StakeRow /\ borrows[a] \in BorrowRow
                /\ stakes[a].amount \in Nat /\ stakes[a].unstaking_amount \in Nat
                /\ borrows[a].bytes \in Nat
  BY DEF VaultInv, VaultTypes, StakeRow, BorrowRow
<1>2. /\ \A a \in Accounts : StakedOf[a] = stakes[a].amount
      /\ \A a \in Accounts : UnstakingOf[a] = stakes[a].unstaking_amount
      /\ \A a \in Accounts : LentTo[a] = borrows[a].bytes
  BY DEF StakedOf, UnstakingOf, LentTo
<1>3. StakedTotal \in Nat /\ \A a \in Accounts : stakes[a].amount <= StakedTotal
  BY <1>1, <1>2, StakeAssumption, SumNat, SumAtLeast DEF StakedTotal
<1>4. UnstakingTotal \in Nat
      /\ \A a \in Accounts : stakes[a].unstaking_amount <= UnstakingTotal
  BY <1>1, <1>2, StakeAssumption, SumNat, SumAtLeast DEF UnstakingTotal
<1>5. LentTotal \in Nat /\ \A a \in Accounts : borrows[a].bytes <= LentTotal
  BY <1>1, <1>2, StakeAssumption, SumNat, SumAtLeast DEF LentTotal
<1>6. NotMigrated \in Nat /\ Migrated \in Nat
  BY MigrationAssumption DEF NotMigrated, Migrated
<1> QED BY <1>1, <1>3, <1>4, <1>5, <1>6
        DEF VaultInv, StakesTotalled, VaultCovered, LoansTotalled,
            StakedTotal, UnstakingTotal, LentTotal

-----------------------------------------------------------------------------
(* Unstake rows. *)

(* There are finitely many rows, each a natural amount. *)
LEMMA RowFacts ==
    ASSUME VaultTypes, NEW a \in Accounts
    PROVE  /\ IsFiniteSet(UnstakeIds) /\ IsFiniteSet(Rows(a)) /\ Rows(a) \subseteq UnstakeIds
           /\ \A i \in UnstakeIds : unstakes[a][i] \in UnstakeRow /\ unstakes[a][i].amount \in Nat
<1>1. IsFiniteSet(UnstakeIds)
  BY FS_Interval, StakeAssumption DEF UnstakeIds
<1>2. Rows(a) \in SUBSET UnstakeIds
  BY DEF Rows
<1>3. IsFiniteSet(Rows(a))
  BY <1>1, <1>2, FS_Subset
<1> QED BY <1>1, <1>2, <1>3 DEF VaultTypes, UnstakeRow

(* The rows of an account that a step leaves alone. *)
LEMMA RowsSame ==
    ASSUME VaultTypes, NEW a \in Accounts, unstakes'[a] = unstakes[a]
    PROVE  Rows(a)' = Rows(a) /\ AmountOf(a, Rows(a))' = AmountOf(a, Rows(a))
<1> DEFINE f == [i \in UnstakeIds |-> unstakes[a][i].amount]
           g == [i \in UnstakeIds |-> unstakes'[a][i].amount]
<1>1. Rows(a)' = Rows(a)
  BY DEF Rows
<1>2. \A i \in Rows(a) : f[i] \in Int /\ g[i] = f[i]
  BY RowFacts
<1>3. SumFunctionOnSet(g, Rows(a)) = SumFunctionOnSet(f, Rows(a))
  <2> HIDE DEF f, g
  <2> QED BY <1>2, RowFacts, SumSame
<1> QED BY <1>1, <1>3 DEF AmountOf

(* A row added to those of an account. *)
LEMMA RowAdded ==
    ASSUME VaultTypes, NEW a \in Accounts, NEW i \in UnstakeIds, AvailableKey(a, i),
           unstakes'[a] \in [UnstakeIds -> UnstakeRow], unstakes'[a][i].open,
           \A j \in UnstakeIds \ {i} : unstakes'[a][j] = unstakes[a][j]
    PROVE  AmountOf(a, Rows(a))' = AmountOf(a, Rows(a)) + unstakes'[a][i].amount
<1> DEFINE f == [j \in UnstakeIds |-> unstakes[a][j].amount]
           g == [j \in UnstakeIds |-> unstakes'[a][j].amount]
<1>1. i \notin Rows(a)
  BY DEF AvailableKey, Rows, UnstakeIds
<1>2. unstakes[a] \in [UnstakeIds -> UnstakeRow]
  BY DEF VaultTypes
<1>3. Rows(a)' = Rows(a) \cup {i}
  BY <1>2 DEF Rows
<1> DEFINE amount == unstakes'[a][i].amount
<1>4. g[i] = amount /\ \A j \in Rows(a) : g[j] = f[j] /\ f[j] \in Int /\ g[j] \in Int
  BY <1>1, RowFacts
<1>5. amount \in Int
  BY DEF UnstakeRow
<1>6. /\ IsFiniteSet(Rows(a)) /\ IsFiniteSet(Rows(a) \cup {i})
      /\ (Rows(a) \cup {i}) \ {i} = Rows(a)
  BY <1>1, RowFacts, FS_AddElement
<1> HIDE DEF f, g, amount
<1>7. SumFunctionOnSet(g, Rows(a) \cup {i}) = g[i] + SumFunctionOnSet(g, Rows(a))
  <2> DEFINE all == Rows(a) \cup {i}
  <2>1. IsFiniteSet(all) /\ i \in all /\ \A j \in all : g[j] \in Int
    BY <1>4, <1>5, <1>6
  <2>2. all \ {i} = Rows(a)
    BY <1>6
  <2> HIDE DEF all
  <2>3. SumFunctionOnSet(g, all) = g[i] + SumFunctionOnSet(g, all \ {i})
    BY <2>1, SumRemove
  <2> QED BY <2>2, <2>3 DEF all
<1>8. SumFunctionOnSet(g, Rows(a)) = SumFunctionOnSet(f, Rows(a))
  BY <1>4, <1>6, SumSame
<1>9. SumFunctionOnSet(f, Rows(a)) \in Int
  BY <1>4, <1>6, SumInt
<1>10. SumFunctionOnSet(g, Rows(a) \cup {i}) = SumFunctionOnSet(f, Rows(a)) + amount
  BY <1>4, <1>5, <1>7, <1>8, <1>9
<1> QED BY <1>3, <1>10 DEF AmountOf, f, g, amount

(* Rows erased from those of an account. *)
LEMMA RowsErased ==
    ASSUME VaultTypes, NEW a \in Accounts, NEW S, S \subseteq Rows(a),
           unstakes'[a] = [i \in UnstakeIds |-> IF i \in S THEN NoUnstake ELSE unstakes[a][i]]
    PROVE  /\ Rows(a)' = Rows(a) \ S
           /\ AmountOf(a, Rows(a))' = AmountOf(a, Rows(a)) - AmountOf(a, S)
           /\ AmountOf(a, S) \in Nat
           /\ AmountOf(a, S) <= AmountOf(a, Rows(a))
           /\ AmountOf(a, Rows(a)) \in Nat
<1> DEFINE f == [j \in UnstakeIds |-> unstakes[a][j].amount]
           g == [j \in UnstakeIds |-> unstakes'[a][j].amount]
<1>1. Rows(a)' = Rows(a) \ S
  BY RowFacts DEF Rows, NoUnstake
<1>2. \A j \in Rows(a) : f[j] \in Nat
  BY RowFacts
<1>3. \A j \in Rows(a) \ S : g[j] = f[j]
  BY RowFacts
<1>4. IsFiniteSet(Rows(a)) /\ IsFiniteSet(Rows(a) \ S)
  BY RowFacts, FS_Subset
<1> HIDE DEF f, g
<1>5. /\ SumFunctionOnSet(f, S) \in Nat
      /\ SumFunctionOnSet(f, S) <= SumFunctionOnSet(f, Rows(a))
  BY <1>2, <1>4, SumPart
<1>6. SumFunctionOnSet(f, Rows(a)) \in Nat
  BY <1>2, <1>4, SumNat
<1>7. SumFunctionOnSet(f, Rows(a) \ S) \in Nat
  BY <1>2, <1>4, SumNat
<1>8. SumFunctionOnSet(f, Rows(a))
        = SumFunctionOnSet(f, S) + SumFunctionOnSet(f, Rows(a) \ S)
  BY <1>2, <1>4, SumSplit
<1>9. SumFunctionOnSet(g, Rows(a) \ S) = SumFunctionOnSet(f, Rows(a) \ S)
  BY <1>2, <1>3, <1>4, SumSame
<1>10. SumFunctionOnSet(g, Rows(a) \ S) = SumFunctionOnSet(f, Rows(a)) - SumFunctionOnSet(f, S)
  BY <1>5, <1>6, <1>7, <1>8, <1>9
<1> QED BY <1>1, <1>5, <1>6, <1>10 DEF AmountOf, f, g

-----------------------------------------------------------------------------
(* The vault: stakes, unstake rows, loans and the V held. *)

(* No row is unstaked, restaked or withdrawn. *)
LEMMA RowsKept ==
    ASSUME VaultInv, UNCHANGED unstakes,
           \A b \in Accounts : stakes'[b].unstaking_amount = stakes[b].unstaking_amount
    PROVE  UnstakingMatchesRows'
<1> SUFFICES ASSUME NEW b \in Accounts
             PROVE  stakes'[b].unstaking_amount = AmountOf(b, Rows(b))'
  BY DEF UnstakingMatchesRows
<1>1. AmountOf(b, Rows(b))' = AmountOf(b, Rows(b))
  BY RowsSame DEF VaultInv
<1> QED BY <1>1 DEF VaultInv, UnstakingMatchesRows

(* The rows of one account change, and its unstaking_amount alike. *)
LEMMA RowsMatch ==
    ASSUME VaultInv, NEW a \in Accounts,
           \A b \in Accounts \ {a} : stakes'[b] = stakes[b] /\ unstakes'[b] = unstakes[b],
           stakes'[a].unstaking_amount = AmountOf(a, Rows(a))'
    PROVE  UnstakingMatchesRows'
<1> SUFFICES ASSUME NEW b \in Accounts \ {a}
             PROVE  stakes'[b].unstaking_amount = AmountOf(b, Rows(b))'
  BY DEF UnstakingMatchesRows
<1>1. AmountOf(b, Rows(b))' = AmountOf(b, Rows(b))
  BY RowsSame DEF VaultInv
<1> QED BY <1>1 DEF VaultInv, UnstakingMatchesRows

(* What is held changes as much as what is counted. *)
LEMMA HeldAndCounted ==
    ASSUME VaultInv, NEW d \in Int, NEW e \in Int, vBalance' = vBalance + d + e,
           StakedTotal' = StakedTotal + d, UnstakingTotal' = UnstakingTotal + e,
           Migrated' = Migrated, vIgnored' = vIgnored
    PROVE  vBalance' + Migrated' = StakedTotal' + UnstakingTotal' + vIgnored'
<1>1. /\ StakedTotal \in Nat /\ UnstakingTotal \in Nat /\ Migrated \in Nat
      /\ vBalance \in Nat /\ vIgnored \in Nat
      /\ vBalance + Migrated = StakedTotal + UnstakingTotal + vIgnored
  BY VaultTotals
<1> QED BY <1>1

(* The stake and the unstake rows of one account change, and the totals and the V
   held as much. *)
LEMMA VaultChange ==
    ASSUME VaultInv, NEW a \in Accounts, stakes' \in [Accounts -> StakeRow],
           unstakes' \in [Accounts -> [UnstakeIds -> UnstakeRow]],
           \A b \in Accounts \ {a} : stakes'[b] = stakes[b] /\ unstakes'[b] = unstakes[b],
           stakes'[a].unstaking_amount = AmountOf(a, Rows(a))',
           ~ stakes'[a].exists => stakes'[a].amount = 0 /\ stakes'[a].unstaking_amount = 0,
           stat' \in [stake_amount : Int, used_amount : {stat.used_amount}],
           stat'.stake_amount = stat.stake_amount + stakes'[a].amount - stakes[a].amount,
           vBalance' \in Nat,
           vBalance' = vBalance + stakes'[a].amount - stakes[a].amount
                         + stakes'[a].unstaking_amount - stakes[a].unstaking_amount,
           UNCHANGED <<config, vIgnored, loanVars, now>>
    PROVE  VaultInv'
<1>1. VaultTypes
  BY DEF VaultInv
<1>2. stakes'[a].amount \in Nat /\ stakes'[a].unstaking_amount \in Nat
  BY DEF StakeRow
<1>3. /\ StakedTotal' = StakedTotal + stakes'[a].amount - stakes[a].amount
      /\ UnstakingTotal' =
           UnstakingTotal + stakes'[a].unstaking_amount - stakes[a].unstaking_amount
  BY <1>1, StakeRowStep
<1>4. NotMigrated' = NotMigrated /\ Migrated' = Migrated /\ LentTotal' = LentTotal
  BY DEF NotMigrated, Migrated, LentTotal, LentTo, loanVars
<1>5. /\ stat'.stake_amount \in Nat
      /\ StakedTotal' + NotMigrated' = stat'.stake_amount
      /\ vBalance' + Migrated' = StakedTotal' + UnstakingTotal' + vIgnored'
  <2>1. /\ StakedTotal \in Nat /\ UnstakingTotal \in Nat /\ NotMigrated \in Nat
        /\ Migrated \in Nat /\ vBalance \in Nat /\ vIgnored \in Nat
        /\ stat.stake_amount \in Nat
        /\ stakes[a].amount \in Nat /\ stakes[a].amount <= StakedTotal
        /\ stakes[a].unstaking_amount \in Nat
        /\ StakedTotal + NotMigrated = stat.stake_amount
        /\ vBalance + Migrated = StakedTotal + UnstakingTotal + vIgnored
    BY VaultTotals
  <2>2. vIgnored' = vIgnored
    OBVIOUS
  <2>3. StakedTotal' + NotMigrated' = stat'.stake_amount
    BY <1>2, <1>3, <1>4, <2>1
  <2>4. vBalance' + Migrated' = StakedTotal' + UnstakingTotal' + vIgnored'
    <3> DEFINE d == stakes'[a].amount - stakes[a].amount
               e == stakes'[a].unstaking_amount - stakes[a].unstaking_amount
    <3>1. d \in Int /\ e \in Int
      BY <1>2, <2>1
    <3>2. /\ vBalance' = vBalance + d + e
          /\ StakedTotal' = StakedTotal + d
          /\ UnstakingTotal' = UnstakingTotal + e
      BY <1>2, <1>3, <2>1
    <3> HIDE DEF d, e
    <3> QED BY <1>4, <2>2, <3>1, <3>2, HeldAndCounted
  <2>5. stat'.stake_amount \in Nat
    BY <1>2, <2>1
  <2> QED BY <2>3, <2>4, <2>5
<1>6. /\ stat' \in [stake_amount : Nat, used_amount : Nat]
      /\ stat'.used_amount = stat.used_amount
  BY <1>5, VaultTotals
<1>7. StakesTotalled' /\ VaultCovered' /\ LoansTotalled'
  BY <1>4, <1>5, <1>6, VaultTotals
     DEF StakesTotalled, VaultCovered, LoansTotalled, StakedTotal, UnstakingTotal
<1>8. VaultTypes'
  BY <1>1, <1>6 DEF VaultTypes, loanVars
<1>9. NoRowNoAmount'
  BY DEF VaultInv, NoRowNoAmount, loanVars
<1>10. UnstakingMatchesRows'
  BY RowsMatch
<1> QED BY <1>7, <1>8, <1>9, <1>10 DEF VaultInv

(* A row of the stake table, field by field. *)
LEMMA StakeRowFields ==
    ASSUME NEW row \in StakeRow
    PROVE  /\ row.exists \in BOOLEAN /\ row.amount \in Nat /\ row.unstaking_amount \in Nat
           /\ \A n, m \in Nat, e \in BOOLEAN :
                /\ [row EXCEPT !.amount = n, !.unstaking_amount = m] \in StakeRow
                /\ [row EXCEPT !.unstaking_amount = m, !.amount = n] \in StakeRow
                /\ [row EXCEPT !.unstaking_amount = m] \in StakeRow
                /\ [row EXCEPT !.exists = e, !.amount = n] \in StakeRow
                /\ [row EXCEPT !.amount = n] \in StakeRow
  BY Zenon DEF StakeRow

(* on_stake: stake, total and V held grow alike. *)
LEMMA OnStakeVault ==
    ASSUME VaultInv, NEW a \in Accounts, NEW amount \in Nat, OnStake(a, amount)
    PROVE  VaultInv'
<1> DEFINE n == stakes[a].amount + amount
           row == [stakes[a] EXCEPT !.exists = TRUE, !.amount = n]
<1>1. /\ VaultTypes /\ stakes \in [Accounts -> StakeRow]
      /\ stat \in [stake_amount : Nat, used_amount : Nat]
      /\ stakes[a] \in StakeRow /\ stakes[a].amount \in Nat /\ n \in Nat
      /\ stakes[a].unstaking_amount \in Nat
      /\ stat.stake_amount \in Nat /\ vBalance \in Nat
  BY VaultTotals DEF VaultInv, VaultTypes
<1>2. /\ stakes' = [stakes EXCEPT ![a] = row]
      /\ stat' = [stat EXCEPT !.stake_amount = stat.stake_amount + amount]
      /\ vBalance' = vBalance + amount
      /\ UNCHANGED <<config, unstakes, vIgnored, loanVars, now>>
  BY <1>1 DEF OnStake, Credited
<1>3. row \in StakeRow
  BY <1>1, StakeRowFields
<1>4. /\ row.exists /\ row.amount = stakes[a].amount + amount
      /\ row.unstaking_amount = stakes[a].unstaking_amount
  BY <1>1 DEF StakeRow
<1>5. stakes[a].unstaking_amount = AmountOf(a, Rows(a))'
  BY <1>1, <1>2, RowsSame DEF VaultInv, UnstakingMatchesRows
<1> HIDE DEF row, n
<1>6. /\ stakes' \in [Accounts -> StakeRow] /\ stakes'[a] = row
      /\ \A b \in Accounts \ {a} : stakes'[b] = stakes[b]
  BY <1>1, <1>2, <1>3
<1>7. /\ stat' \in [stake_amount : Int, used_amount : {stat.used_amount}]
      /\ stat'.stake_amount = stat.stake_amount + stakes'[a].amount - stakes[a].amount
      /\ vBalance' = vBalance + stakes'[a].amount - stakes[a].amount
                         + stakes'[a].unstaking_amount - stakes[a].unstaking_amount
      /\ vBalance' \in Nat
  BY <1>1, <1>2, <1>4, <1>6
<1>8. /\ unstakes' \in [Accounts -> [UnstakeIds -> UnstakeRow]]
      /\ \A b \in Accounts \ {a} : unstakes'[b] = unstakes[b]
  BY <1>1, <1>2 DEF VaultTypes
<1> QED BY <1>2, <1>4, <1>5, <1>6, <1>7, <1>8, VaultChange

(* unstake: the amount moves from the stake to a new row. *)
LEMMA UnstakeVault ==
    ASSUME VaultInv, NEW a \in Accounts, NEW amount \in Nat, Unstake(a, amount)
    PROVE  VaultInv'
<1> DEFINE n == stakes[a].amount - amount
           m == stakes[a].unstaking_amount + amount
           row == [stakes[a] EXCEPT !.amount = n, !.unstaking_amount = m]
<1>1. /\ VaultTypes /\ stakes \in [Accounts -> StakeRow]
      /\ stat \in [stake_amount : Nat, used_amount : Nat]
      /\ stakes[a] \in StakeRow /\ stakes[a].amount \in Nat
      /\ stakes[a].unstaking_amount \in Nat
      /\ stat.stake_amount \in Nat /\ vBalance \in Nat /\ now \in Nat
      /\ unstakes \in [Accounts -> [UnstakeIds -> UnstakeRow]]
  BY VaultTotals DEF VaultInv, VaultTypes
<1>2. /\ stakes' = [stakes EXCEPT ![a] = row]
      /\ stat' = [stat EXCEPT !.stake_amount = stat.stake_amount - amount]
      /\ UNCHANGED <<config, vBalance, vIgnored, loanVars, now>>
      /\ stakes[a].exists /\ amount <= stakes[a].amount
  BY <1>1 DEF Unstake
<1>3. n \in Nat /\ m \in Nat
  BY <1>1, <1>2
<1>4. row \in StakeRow
  BY <1>1, <1>3, StakeRowFields
<1>5. /\ row.exists /\ row.amount = stakes[a].amount - amount
      /\ row.unstaking_amount = stakes[a].unstaking_amount + amount
  BY <1>1, <1>2 DEF StakeRow
<1>6. PICK i \in UnstakeIds :
        /\ AvailableKey(a, i)
        /\ unstakes' = [unstakes EXCEPT
                          ![a][i] = [open |-> TRUE, amount |-> amount, since |-> now]]
  BY DEF Unstake
<1>7. /\ unstakes'[a] \in [UnstakeIds -> UnstakeRow]
      /\ unstakes'[a][i].open /\ unstakes'[a][i].amount = amount
      /\ \A j \in UnstakeIds \ {i} : unstakes'[a][j] = unstakes[a][j]
      /\ unstakes' \in [Accounts -> [UnstakeIds -> UnstakeRow]]
      /\ \A b \in Accounts \ {a} : unstakes'[b] = unstakes[b]
  BY <1>1, <1>6 DEF UnstakeRow
<1>8. AmountOf(a, Rows(a))' = stakes[a].unstaking_amount + amount
  BY <1>1, <1>6, <1>7, RowAdded DEF VaultInv, UnstakingMatchesRows
<1> HIDE DEF row, n, m
<1>9. /\ stakes' \in [Accounts -> StakeRow] /\ stakes'[a] = row
      /\ \A b \in Accounts \ {a} : stakes'[b] = stakes[b]
  BY <1>1, <1>2, <1>4
<1>10. /\ stat' \in [stake_amount : Int, used_amount : {stat.used_amount}]
       /\ stat'.stake_amount = stat.stake_amount + stakes'[a].amount - stakes[a].amount
       /\ vBalance' = vBalance + stakes'[a].amount - stakes[a].amount
                          + stakes'[a].unstaking_amount - stakes[a].unstaking_amount
       /\ vBalance' \in Nat
  BY <1>1, <1>2, <1>5, <1>9
<1> QED BY <1>2, <1>5, <1>7, <1>8, <1>9, <1>10, VaultChange

(* restake: a row goes back to the stake. *)
LEMMA RestakeVault ==
    ASSUME VaultInv, NEW a \in Accounts, NEW i \in UnstakeIds, Restake(a, i)
    PROVE  VaultInv'
<1> DEFINE amount == unstakes[a][i].amount
           n == stakes[a].amount + amount
           m == stakes[a].unstaking_amount - amount
           row == [stakes[a] EXCEPT !.unstaking_amount = m, !.amount = n]
<1>1. /\ VaultTypes /\ stakes \in [Accounts -> StakeRow]
      /\ stat \in [stake_amount : Nat, used_amount : Nat]
      /\ stakes[a] \in StakeRow /\ stakes[a].amount \in Nat
      /\ stakes[a].unstaking_amount \in Nat
      /\ stat.stake_amount \in Nat /\ vBalance \in Nat
      /\ unstakes \in [Accounts -> [UnstakeIds -> UnstakeRow]]
      /\ amount \in Nat
  BY VaultTotals, RowFacts DEF VaultInv, VaultTypes
<1>2. /\ stakes' = [stakes EXCEPT ![a] = row]
      /\ stat' = [stat EXCEPT !.stake_amount = stat.stake_amount + amount]
      /\ unstakes' = [unstakes EXCEPT ![a][i] = NoUnstake]
      /\ UNCHANGED <<config, vBalance, vIgnored, loanVars, now>>
      /\ i \in Rows(a) /\ amount <= stakes[a].unstaking_amount
  BY <1>1 DEF Restake
<1>3. n \in Nat /\ m \in Nat
  BY <1>1, <1>2
<1>4. row \in StakeRow
  BY <1>1, <1>3, StakeRowFields
<1>5. /\ row.exists = stakes[a].exists /\ row.amount = stakes[a].amount + amount
      /\ row.unstaking_amount = stakes[a].unstaking_amount - amount
  BY <1>1 DEF StakeRow
<1>6. /\ unstakes'[a] = [j \in UnstakeIds |-> IF j \in {i} THEN NoUnstake ELSE unstakes[a][j]]
      /\ unstakes' \in [Accounts -> [UnstakeIds -> UnstakeRow]]
      /\ \A b \in Accounts \ {a} : unstakes'[b] = unstakes[b]
  BY <1>1, <1>2 DEF UnstakeRow, NoUnstake
<1>7. AmountOf(a, {i}) = amount
  <2> DEFINE f == [j \in UnstakeIds |-> unstakes[a][j].amount]
  <2>1. f[i] = amount /\ \A j \in {i} : f[j] \in Int
    BY <1>1
  <2>2. IsFiniteSet({i}) /\ {i} \ {i} = {}
    BY FS_Singleton
  <2> HIDE DEF f
  <2>3. SumFunctionOnSet(f, {i}) = f[i] + SumFunctionOnSet(f, {i} \ {i})
    BY <2>1, <2>2, SumRemove
  <2>4. SumFunctionOnSet(f, {i}) = f[i]
    BY <2>1, <2>2, <2>3, SumEmpty
  <2> QED BY <2>1, <2>4 DEF AmountOf, f
<1>8. AmountOf(a, Rows(a))' = stakes[a].unstaking_amount - amount
  <2>1. {i} \subseteq Rows(a)
    BY <1>2
  <2>2. AmountOf(a, Rows(a))' = AmountOf(a, Rows(a)) - AmountOf(a, {i})
    BY <1>1, <1>6, <2>1, RowsErased
  <2> QED BY <1>7, <2>2 DEF VaultInv, UnstakingMatchesRows
<1> HIDE DEF row, n, m, amount
<1>9. /\ stakes' \in [Accounts -> StakeRow] /\ stakes'[a] = row
      /\ \A b \in Accounts \ {a} : stakes'[b] = stakes[b]
  BY <1>1, <1>2, <1>4
<1>10. /\ stat' \in [stake_amount : Int, used_amount : {stat.used_amount}]
       /\ stat'.stake_amount = stat.stake_amount + stakes'[a].amount - stakes[a].amount
       /\ vBalance' = vBalance + stakes'[a].amount - stakes[a].amount
                          + stakes'[a].unstaking_amount - stakes[a].unstaking_amount
       /\ vBalance' \in Nat
  BY <1>1, <1>2, <1>5, <1>9
<1>11. ~ stakes'[a].exists => stakes'[a].amount = 0 /\ stakes'[a].unstaking_amount = 0
  BY <1>1, <1>2, <1>5, <1>9 DEF VaultInv, NoRowNoAmount
<1> QED BY <1>2, <1>5, <1>6, <1>8, <1>9, <1>10, <1>11, VaultChange

(* withdraw: rows leave with the V they stand for. *)
LEMMA WithdrawVault ==
    ASSUME VaultInv, NEW a \in Accounts, Withdraw(a)
    PROVE  VaultInv'
<1>1. PICK S \in SUBSET Rows(a) :
        /\ AmountOf(a, S) <= vBalance
        /\ unstakes' = [unstakes EXCEPT
                          ![a] = [i \in UnstakeIds |-> IF i \in S THEN NoUnstake ELSE @[i]]]
        /\ stakes' = Released(a, AmountOf(a, S))
        /\ vBalance' = vBalance - AmountOf(a, S)
  BY DEF Withdraw
<1> DEFINE amount == AmountOf(a, S)
           m == stakes[a].unstaking_amount - amount
           row == [stakes[a] EXCEPT !.unstaking_amount = m]
<1>2. /\ VaultTypes /\ stakes \in [Accounts -> StakeRow]
      /\ stat \in [stake_amount : Nat, used_amount : Nat]
      /\ stakes[a] \in StakeRow /\ stakes[a].amount \in Nat
      /\ stakes[a].unstaking_amount \in Nat
      /\ stat.stake_amount \in Nat /\ vBalance \in Nat
      /\ unstakes \in [Accounts -> [UnstakeIds -> UnstakeRow]]
      /\ stakes[a].unstaking_amount = AmountOf(a, Rows(a))
  BY VaultTotals DEF VaultInv, VaultTypes, UnstakingMatchesRows
<1>3. /\ unstakes'[a] = [i \in UnstakeIds |-> IF i \in S THEN NoUnstake ELSE unstakes[a][i]]
      /\ unstakes' \in [Accounts -> [UnstakeIds -> UnstakeRow]]
      /\ \A b \in Accounts \ {a} : unstakes'[b] = unstakes[b]
  BY <1>1, <1>2 DEF UnstakeRow, NoUnstake
<1>4. /\ AmountOf(a, Rows(a))' = stakes[a].unstaking_amount - amount
      /\ amount \in Nat /\ amount <= stakes[a].unstaking_amount
  BY <1>2, <1>3, RowsErased
<1>5. /\ stakes' = [stakes EXCEPT ![a] = row]
      /\ UNCHANGED <<config, stat, vIgnored, loanVars, now>>
  BY <1>1, <1>2 DEF Withdraw, Released
<1>6. m \in Nat
  BY <1>2, <1>4
<1>7. row \in StakeRow
  BY <1>2, <1>6, StakeRowFields
<1>8. /\ row.exists = stakes[a].exists /\ row.amount = stakes[a].amount
      /\ row.unstaking_amount = stakes[a].unstaking_amount - amount
  BY <1>2 DEF StakeRow
<1>9. vBalance' = vBalance - amount
  BY <1>1
<1>10. amount <= vBalance
  BY <1>1
<1> HIDE DEF row, m, amount
<1>11. /\ stakes' \in [Accounts -> StakeRow] /\ stakes'[a] = row
       /\ \A b \in Accounts \ {a} : stakes'[b] = stakes[b]
  BY <1>2, <1>5, <1>7
<1>12. /\ stat' \in [stake_amount : Int, used_amount : {stat.used_amount}]
       /\ stat'.stake_amount = stat.stake_amount + stakes'[a].amount - stakes[a].amount
       /\ vBalance' = vBalance + stakes'[a].amount - stakes[a].amount
                          + stakes'[a].unstaking_amount - stakes[a].unstaking_amount
       /\ vBalance' \in Nat
  BY <1>2, <1>4, <1>5, <1>8, <1>9, <1>10, <1>11
<1>13. ~ stakes'[a].exists => stakes'[a].amount = 0 /\ stakes'[a].unstaking_amount = 0
  BY <1>2, <1>4, <1>6, <1>8, <1>11 DEF VaultInv, NoRowNoAmount, m
<1> QED BY <1>3, <1>4, <1>5, <1>8, <1>11, <1>12, <1>13, VaultChange

(* What moves no stake, loan or V. *)
LEMMA VaultSame ==
    ASSUME VaultInv, UNCHANGED <<stat, stakes, unstakes, borrows, vBalance, vIgnored>>,
           config' \in ConfigRow, config'.init_done = config.init_done,
           vaultRam' \in Nat, now' \in Nat
    PROVE  VaultInv'
<1>1. VaultTypes' /\ NoRowNoAmount'
  BY DEF VaultInv, VaultTypes, NoRowNoAmount
<1>2. NotMigrated' = NotMigrated /\ Migrated' = Migrated
  BY DEF NotMigrated, Migrated
<1>3. /\ StakedTotal' = StakedTotal /\ UnstakingTotal' = UnstakingTotal
      /\ LentTotal' = LentTotal
  BY DEF StakedTotal, UnstakingTotal, LentTotal, StakedOf, UnstakingOf, LentTo
<1>4. StakesTotalled' /\ VaultCovered' /\ LoansTotalled'
  BY <1>2, <1>3
     DEF VaultInv, StakesTotalled, VaultCovered, LoansTotalled, StakedTotal, UnstakingTotal
<1>5. UnstakingMatchesRows'
  BY RowsKept
<1> QED BY <1>1, <1>4, <1>5 DEF VaultInv

(* V received with memo "ignore" is held beside the stakes. *)
LEMMA IgnoredVVault ==
    ASSUME VaultInv, NEW amount \in Nat, IgnoredV(amount)
    PROVE  VaultInv'
<1>1. /\ vBalance \in Nat /\ vIgnored \in Nat
      /\ vBalance' = vBalance + amount /\ vIgnored' = vIgnored + amount
      /\ UNCHANGED <<config, stat, stakes, unstakes, borrows, vaultRam, now>>
  BY DEF VaultInv, VaultTypes, IgnoredV, loanVars
<1>2. VaultTypes' /\ NoRowNoAmount'
  BY <1>1 DEF VaultInv, VaultTypes, NoRowNoAmount
<1>3. NotMigrated' = NotMigrated /\ Migrated' = Migrated
  BY <1>1 DEF NotMigrated, Migrated
<1>4. /\ StakedTotal' = StakedTotal /\ UnstakingTotal' = UnstakingTotal
      /\ LentTotal' = LentTotal
  BY <1>1 DEF StakedTotal, UnstakingTotal, LentTotal, StakedOf, UnstakingOf, LentTo
<1>5. vBalance' + Migrated' = StakedTotal' + UnstakingTotal' + vIgnored'
  BY <1>1, <1>3, <1>4, VaultTotals
<1>6. StakesTotalled' /\ VaultCovered' /\ LoansTotalled'
  BY <1>1, <1>3, <1>4, <1>5
     DEF VaultInv, StakesTotalled, VaultCovered, LoansTotalled, StakedTotal, UnstakingTotal
<1>7. UnstakingMatchesRows'
  BY <1>1, RowsKept
<1> QED BY <1>2, <1>6, <1>7 DEF VaultInv

(* A loan changes as much as used_amount. *)
LEMMA LoanChange ==
    ASSUME VaultInv, NEW a \in Accounts, borrows' \in [Accounts -> BorrowRow],
           \A b \in Accounts \ {a} : borrows'[b] = borrows[b],
           ~ borrows'[a].exists => borrows'[a].bytes = 0,
           stat' \in [stake_amount : {stat.stake_amount}, used_amount : Int],
           stat'.used_amount = stat.used_amount + borrows'[a].bytes - borrows[a].bytes,
           vaultRam' \in Nat,
           UNCHANGED <<config, stakes, unstakes, vBalance, vIgnored, now>>
    PROVE  VaultInv'
<1>1. LentTotal' = LentTotal + borrows'[a].bytes - borrows[a].bytes
  BY LoanRowStep DEF VaultInv
<1>2. NotMigrated' = NotMigrated /\ Migrated' = Migrated
  BY DEF NotMigrated, Migrated
<1>3. StakedTotal' = StakedTotal /\ UnstakingTotal' = UnstakingTotal
  BY DEF StakedTotal, UnstakingTotal, StakedOf, UnstakingOf
<1>4. borrows'[a].bytes \in Nat
  BY DEF BorrowRow
<1>5. LentTotal' + NotMigrated' = stat'.used_amount /\ stat'.used_amount \in Nat
  BY <1>1, <1>2, <1>4, VaultTotals
<1>6. /\ stat' \in [stake_amount : Nat, used_amount : Nat]
      /\ stat'.stake_amount = stat.stake_amount
  BY <1>5, VaultTotals
<1>7. VaultTypes' /\ NoRowNoAmount'
  BY <1>6 DEF VaultInv, VaultTypes, NoRowNoAmount
<1>8. StakesTotalled' /\ VaultCovered' /\ LoansTotalled'
  BY <1>2, <1>3, <1>5, <1>6
     DEF VaultInv, StakesTotalled, VaultCovered, LoansTotalled, StakedTotal, UnstakingTotal
<1>9. UnstakingMatchesRows'
  BY RowsKept
<1> QED BY <1>7, <1>8, <1>9 DEF VaultInv

(* borrow: RAM is lent. *)
LEMMA BorrowVault ==
    ASSUME VaultInv, NEW a \in Accounts, NEW bytes \in Nat, Borrow(a, bytes)
    PROVE  VaultInv'
<1>1. /\ VaultTypes /\ borrows \in [Accounts -> BorrowRow]
      /\ stat \in [stake_amount : Nat, used_amount : Nat]
      /\ borrows[a] \in BorrowRow /\ borrows[a].bytes \in Nat
      /\ stat.used_amount \in Nat /\ vaultRam \in Nat
  BY VaultTotals DEF VaultInv, VaultTypes
<1> DEFINE row == [exists |-> TRUE, bytes |-> borrows[a].bytes + bytes]
<1>2. /\ borrows' = [borrows EXCEPT ![a] = row]
      /\ stat' = [stat EXCEPT !.used_amount = stat.used_amount + bytes]
      /\ vaultRam' = vaultRam - bytes /\ bytes <= vaultRam
      /\ UNCHANGED <<config, stakes, unstakes, vBalance, vIgnored, now>>
  BY <1>1 DEF Borrow, Lent
<1>3. row \in BorrowRow /\ row.exists /\ row.bytes = borrows[a].bytes + bytes
  BY <1>1 DEF BorrowRow
<1> HIDE DEF row
<1>4. /\ borrows' \in [Accounts -> BorrowRow] /\ borrows'[a] = row
      /\ \A b \in Accounts \ {a} : borrows'[b] = borrows[b]
  BY <1>1, <1>2, <1>3
<1>5. /\ stat' \in [stake_amount : {stat.stake_amount}, used_amount : Int]
      /\ stat'.used_amount = stat.used_amount + borrows'[a].bytes - borrows[a].bytes
      /\ vaultRam' \in Nat
  BY <1>1, <1>2, <1>3, <1>4
<1> QED BY <1>2, <1>3, <1>4, <1>5, LoanChange

(* repay: RAM comes back, at most what was lent. *)
LEMMA RepayRamVault ==
    ASSUME VaultInv, NEW a \in Accounts, NEW bytes \in Nat, RepayRam(a, bytes)
    PROVE  VaultInv'
<1>1. /\ VaultTypes /\ borrows \in [Accounts -> BorrowRow]
      /\ stat \in [stake_amount : Nat, used_amount : Nat]
      /\ borrows[a] \in BorrowRow /\ borrows[a].bytes \in Nat
      /\ stat.used_amount \in Nat /\ vaultRam \in Nat
  BY VaultTotals DEF VaultInv, VaultTypes
<1> DEFINE paid == Repaid(a, bytes)
           row == [borrows[a] EXCEPT !.bytes = borrows[a].bytes - paid]
<1>2. /\ borrows' = [borrows EXCEPT ![a] = row]
      /\ stat' = [stat EXCEPT !.used_amount = stat.used_amount - paid]
      /\ vaultRam' = vaultRam + paid
      /\ UNCHANGED <<config, stakes, unstakes, vBalance, vIgnored, now>>
  BY <1>1 DEF RepayRam
<1>3. paid \in Nat /\ paid <= borrows[a].bytes
  BY <1>1 DEF Repaid
<1> HIDE DEF paid
<1>4. borrows[a].bytes - paid \in Nat
  BY <1>1, <1>3
<1>5. /\ row \in BorrowRow /\ row.exists = borrows[a].exists
      /\ row.bytes = borrows[a].bytes - paid
  BY <1>1, <1>4, Zenon DEF BorrowRow
<1> HIDE DEF row
<1>6. /\ borrows' \in [Accounts -> BorrowRow] /\ borrows'[a] = row
      /\ \A b \in Accounts \ {a} : borrows'[b] = borrows[b]
  BY <1>1, <1>2, <1>5
<1>7. /\ stat' \in [stake_amount : {stat.stake_amount}, used_amount : Int]
      /\ stat'.used_amount = stat.used_amount + borrows'[a].bytes - borrows[a].bytes
      /\ vaultRam' \in Nat
  BY <1>1, <1>2, <1>3, <1>5, <1>6
<1>8. ~ borrows'[a].exists => borrows'[a].bytes = 0
  BY <1>1, <1>3, <1>4, <1>5, <1>6 DEF VaultInv, NoRowNoAmount
<1> QED BY <1>2, <1>6, <1>7, <1>8, LoanChange

(* The rows of a swap, when RAMS_DAO itself swaps and when it does not. *)
LEMMA SwappedRows ==
    ASSUME stakes \in [Accounts -> StakeRow], NEW a \in Accounts, NEW amount \in Nat,
           stakes[RamsDao].exists, amount <= stakes[RamsDao].amount
    PROVE  /\ Swapped(a, amount) \in [Accounts -> StakeRow]
           /\ \A b \in Accounts :
                Swapped(a, amount)[b].unstaking_amount = stakes[b].unstaking_amount
           /\ \A b \in Accounts \ {a, RamsDao} : Swapped(a, amount)[b] = stakes[b]
           /\ Swapped(a, amount)[a].exists /\ Swapped(a, amount)[RamsDao].exists
           /\ a = RamsDao => Swapped(a, amount)[a].amount = stakes[a].amount
           /\ a # RamsDao =>
                /\ Swapped(a, amount)[a].amount = stakes[a].amount + amount
                /\ Swapped(a, amount)[RamsDao].amount = stakes[RamsDao].amount - amount
<1>1. /\ RamsDao \in Accounts /\ stakes[a] \in StakeRow
      /\ stakes[a].amount \in Nat /\ stakes[RamsDao].amount \in Nat
  BY StakeAssumption DEF StakeRow
<1> DEFINE n == stakes[a].amount + amount
           row == [stakes[a] EXCEPT !.exists = TRUE, !.amount = n]
           mid == [stakes EXCEPT ![a] = row]
           m == mid[RamsDao].amount - amount
           dao == [mid[RamsDao] EXCEPT !.amount = m]
<1>2. /\ row \in StakeRow /\ row.exists /\ row.amount = stakes[a].amount + amount
      /\ row.unstaking_amount = stakes[a].unstaking_amount
  <2>1. n \in Nat
    BY <1>1
  <2>2. row \in StakeRow
    BY <1>1, <2>1, StakeRowFields
  <2> QED BY <1>1, <2>2 DEF StakeRow
<1>3. Credited(a, amount) = mid
  BY <1>1 DEF Credited
<1> HIDE DEF row
<1>4. /\ mid \in [Accounts -> StakeRow] /\ mid[a] = row
      /\ \A b \in Accounts \ {a} : mid[b] = stakes[b]
  BY <1>2
<1> HIDE DEF mid
<1>5. mid[RamsDao] \in StakeRow /\ mid[RamsDao].exists /\ m \in Nat
  BY <1>1, <1>2, <1>4
<1>6. /\ dao \in StakeRow /\ dao.exists /\ dao.amount = m
      /\ dao.unstaking_amount = mid[RamsDao].unstaking_amount
  <2> HIDE DEF m
  <2>1. dao \in StakeRow
    BY <1>5, StakeRowFields
  <2> QED BY <1>5, <2>1 DEF StakeRow
<1>7. Swapped(a, amount) = [mid EXCEPT ![RamsDao] = dao]
  BY <1>3 DEF Swapped
<1> HIDE DEF dao
<1>8. /\ Swapped(a, amount) \in [Accounts -> StakeRow] /\ Swapped(a, amount)[RamsDao] = dao
      /\ \A b \in Accounts \ {RamsDao} : Swapped(a, amount)[b] = mid[b]
  BY <1>1, <1>4, <1>6, <1>7
<1>9. CASE a = RamsDao
  BY <1>1, <1>2, <1>4, <1>6, <1>8, <1>9
<1>10. CASE a # RamsDao
  BY <1>1, <1>2, <1>4, <1>6, <1>8, <1>10
<1> QED BY <1>9, <1>10

(* rams2v: stake changes hands. *)
LEMMA Rams2VVault ==
    ASSUME VaultInv, NEW a \in Accounts, NEW amount \in Nat, Rams2V(a, amount)
    PROVE  VaultInv'
<1>1. /\ VaultTypes /\ stakes \in [Accounts -> StakeRow] /\ RamsDao \in Accounts
      /\ stakes[a].amount \in Nat /\ stakes[RamsDao].amount \in Nat
  BY VaultTotals, StakeAssumption DEF VaultInv, VaultTypes
<1>2. /\ stakes[RamsDao].exists /\ amount <= stakes[RamsDao].amount
      /\ stakes' = Swapped(a, amount)
      /\ UNCHANGED <<config, stat, unstakes, vBalance, vIgnored, borrows, vaultRam, now>>
  BY DEF Rams2V, loanVars
<1>3. /\ stakes' \in [Accounts -> StakeRow]
      /\ \A b \in Accounts : stakes'[b].unstaking_amount = stakes[b].unstaking_amount
      /\ \A b \in Accounts \ {a, RamsDao} : stakes'[b] = stakes[b]
      /\ stakes'[a].exists /\ stakes'[RamsDao].exists
      /\ a = RamsDao => stakes'[a].amount = stakes[a].amount
      /\ a # RamsDao => /\ stakes'[a].amount = stakes[a].amount + amount
                        /\ stakes'[RamsDao].amount = stakes[RamsDao].amount - amount
  BY <1>1, <1>2, SwappedRows
<1>4. StakedTotal' = StakedTotal
  <2>1. CASE a = RamsDao
    <3>1. StakedTotal' = StakedTotal + stakes'[a].amount - stakes[a].amount
      BY <1>1, <1>3, <2>1, StakeRowStep
    <3> QED BY <1>1, <1>3, <2>1, <3>1, VaultTotals
  <2>2. CASE a # RamsDao
    <3>1. \A b \in Accounts \ {a, RamsDao} : stakes'[b].amount = stakes[b].amount
      BY <1>3
    <3>2. stakes'[a].amount + stakes'[RamsDao].amount
            = stakes[a].amount + stakes[RamsDao].amount
      BY <1>1, <1>3, <2>2
    <3> QED BY <1>1, <1>3, <2>2, <3>1, <3>2, StakeMove
  <2> QED BY <2>1, <2>2
<1>5. UnstakingTotal' = UnstakingTotal
  BY <1>1, <1>3, UnstakingSame
<1>6. /\ NotMigrated' = NotMigrated /\ Migrated' = Migrated /\ LentTotal' = LentTotal
  BY <1>2 DEF NotMigrated, Migrated, LentTotal, LentTo
<1>7. VaultTypes'
  BY <1>1, <1>2, <1>3 DEF VaultTypes
<1>8. NoRowNoAmount'
  BY <1>2, <1>3 DEF VaultInv, NoRowNoAmount
<1>9. UnstakingMatchesRows'
  BY <1>2, <1>3, RowsKept
<1>10. StakesTotalled' /\ VaultCovered' /\ LoansTotalled'
  BY <1>2, <1>4, <1>5, <1>6
     DEF VaultInv, StakesTotalled, VaultCovered, LoansTotalled, StakedTotal, UnstakingTotal
<1> QED BY <1>7, <1>8, <1>9, <1>10 DEF VaultInv

(* init: what stat counted from the beginning is now in the tables. *)
LEMMA InitializeVault ==
    ASSUME VaultInv, Initialize
    PROVE  VaultInv'
<1>1. /\ VaultTypes /\ NoRowNoAmount
      /\ stakes \in [Accounts -> StakeRow] /\ borrows \in [Accounts -> BorrowRow]
      /\ \A b \in Accounts : /\ stakes[b].amount \in Nat /\ borrows[b].bytes \in Nat
                             /\ stakes[b].unstaking_amount \in Nat
                             /\ BankDeposits[b] \in Nat /\ BankBorrows[b] \in Nat
                             /\ b \notin BankBorrowers => BankBorrows[b] = 0
  BY VaultTotals, MigrationAssumption DEF VaultInv, VaultTypes
<1>2. /\ ~ config.init_done
      /\ UNCHANGED <<stat, unstakes, vBalance, vIgnored, vaultRam, now>>
      /\ \A b \in Accounts : BankDeposits[b] > 0 => ~ stakes[b].exists
      /\ \A b \in BankBorrowers : ~ borrows[b].exists
      /\ stakes' = [b \in Accounts |-> IF BankDeposits[b] = 0 THEN stakes[b]
             ELSE [exists |-> TRUE, amount |-> BankDeposits[b], unstaking_amount |-> 0]]
      /\ borrows' = [b \in Accounts |-> IF b \notin BankBorrowers THEN borrows[b]
             ELSE [exists |-> TRUE, bytes |-> BankBorrows[b]]]
      /\ config' = [config EXCEPT !.exists = TRUE, !.init_done = TRUE]
  BY DEF Initialize
<1>3. stakes' \in [Accounts -> StakeRow] /\ borrows' \in [Accounts -> BorrowRow]
  BY <1>1, <1>2 DEF StakeRow, BorrowRow
<1>4. \A b \in Accounts :
        /\ stakes'[b].amount = stakes[b].amount + BankDeposits[b]
        /\ stakes'[b].unstaking_amount = stakes[b].unstaking_amount
        /\ borrows'[b].bytes = borrows[b].bytes + BankBorrows[b]
        /\ ~ stakes'[b].exists => stakes'[b] = stakes[b] /\ ~ stakes[b].exists
        /\ ~ borrows'[b].exists => borrows'[b] = borrows[b] /\ ~ borrows[b].exists
  BY <1>1, <1>2 DEF NoRowNoAmount
<1>5. StakedTotal' = StakedTotal + InitialAmount
  <2> DEFINE f == [b \in Accounts |-> stakes[b].amount]
             g == [b \in Accounts |-> stakes'[b].amount]
  <2>1. \A b \in Accounts : f[b] \in Int /\ BankDeposits[b] \in Int
                            /\ g[b] = f[b] + BankDeposits[b]
    BY <1>1, <1>4
  <2> HIDE DEF f, g
  <2>2. SumFunctionOnSet(g, Accounts)
          = SumFunctionOnSet(f, Accounts) + SumFunctionOnSet(BankDeposits, Accounts)
    BY <2>1, StakeAssumption, SumPlus
  <2> QED BY <2>2, MigrationAssumption DEF f, g, StakedTotal, StakedOf
<1>6. LentTotal' = LentTotal + InitialAmount
  <2> DEFINE f == [b \in Accounts |-> borrows[b].bytes]
             g == [b \in Accounts |-> borrows'[b].bytes]
  <2>1. \A b \in Accounts : f[b] \in Int /\ BankBorrows[b] \in Int
                            /\ g[b] = f[b] + BankBorrows[b]
    BY <1>1, <1>4
  <2> HIDE DEF f, g
  <2>2. SumFunctionOnSet(g, Accounts)
          = SumFunctionOnSet(f, Accounts) + SumFunctionOnSet(BankBorrows, Accounts)
    BY <2>1, StakeAssumption, SumPlus
  <2> QED BY <2>2, MigrationAssumption DEF f, g, LentTotal, LentTo
<1>7. UnstakingTotal' = UnstakingTotal
  BY <1>1, <1>3, <1>4, UnstakingSame
<1>8. config' \in ConfigRow /\ config'.init_done
  BY <1>1, <1>2 DEF VaultTypes, ConfigRow
<1>9. /\ NotMigrated = InitialAmount /\ NotMigrated' = 0
      /\ Migrated = 0 /\ Migrated' = InitialAmount /\ InitialAmount \in Nat
  BY <1>2, <1>8, MigrationAssumption DEF NotMigrated, Migrated
<1>10. /\ StakedTotal' + NotMigrated' = stat'.stake_amount
       /\ LentTotal' + NotMigrated' = stat'.used_amount
       /\ vBalance' + Migrated' = StakedTotal' + UnstakingTotal' + vIgnored'
  BY <1>2, <1>5, <1>6, <1>7, <1>9, VaultTotals
<1>11. VaultTypes'
  BY <1>1, <1>2, <1>3, <1>8 DEF VaultTypes
<1>12. NoRowNoAmount'
  BY <1>1, <1>4 DEF NoRowNoAmount
<1>13. UnstakingMatchesRows'
  BY <1>2, <1>4, RowsKept
<1> QED BY <1>10, <1>11, <1>12, <1>13
        DEF VaultInv, StakesTotalled, VaultCovered, LoansTotalled, StakedTotal, UnstakingTotal

-----------------------------------------------------------------------------
(* Rewards: the rent tokens, the rewards of the stakers and the tokens held. *)

(* A share is natural and grows with the amount and with the reward per share. *)
LEMMA ShareFacts ==
    ASSUME NEW amount \in Nat, NEW acc \in Nat
    PROVE  /\ Share(amount, acc) \in Nat
           /\ \A more \in Nat : acc <= more => Share(amount, acc) <= Share(amount, more)
           /\ \A more \in Nat : amount <= more => Share(amount, acc) <= Share(more, acc)
<1> USE StakeAssumption
<1>1. amount * acc \in Nat
  BY ProductNat
<1>2. ASSUME NEW more \in Nat, acc <= more
      PROVE  Share(amount, acc) <= Share(amount, more)
  <2>1. amount * more \in Nat /\ amount * acc <= amount * more
    BY <1>2, ProductNat, ProductMonotone
  <2> QED BY <1>1, <2>1, DivMonotone DEF Share
<1>3. ASSUME NEW more \in Nat, amount <= more
      PROVE  Share(amount, acc) <= Share(more, acc)
  <2>1. more * acc \in Nat /\ amount * acc <= more * acc
    BY <1>3, ProductNat, ProductMonotone
  <2> QED BY <1>1, <2>1, DivMonotone DEF Share
<1>4. Share(amount, acc) \in Nat
  BY <1>1, Division DEF Share
<1> QED BY <1>2, <1>3, <1>4

(* The share in a token that distributed nothing is nothing. *)
LEMMA ShareZero ==
    ASSUME NEW amount \in Nat
    PROVE  Share(amount, 0) = 0
  BY StakeAssumption DEF Share

(* Two settlements of one stake, for n less and for n more than it is, are worth two
   for what it is, up to one unit. *)
LEMMA ShareTwice ==
    ASSUME NEW amount \in Nat, NEW acc \in Nat, NEW n \in Nat, n <= amount
    PROVE  Share(amount - n, acc) + Share(amount + n, acc) - 2 * Share(amount, acc) \in -1..1
<1> DEFINE x == amount * acc  y == n * acc
<1>1. x \in Nat /\ y \in Nat /\ y <= x
  BY ProductNat, ProductMonotone
<1>2. (amount - n) * acc = x - y /\ (amount + n) * acc = x + y
  OBVIOUS
<1>3. PrecisionFactor \in Nat \ {0}
  BY StakeAssumption
<1>4. /\ Share(amount, acc) = x \div PrecisionFactor
      /\ Share(amount - n, acc) = (x - y) \div PrecisionFactor
      /\ Share(amount + n, acc) = (x + y) \div PrecisionFactor
  BY <1>2 DEF Share
<1> HIDE DEF x, y
<1> QED BY <1>1, <1>3, <1>4, DivTwice

(* A row of the reward table, field by field. *)
LEMMA RewardRowFields ==
    ASSUME NEW row \in RewardRow
    PROVE  /\ row.debt \in Nat /\ row.unclaimed \in Int /\ row.claimed \in Nat
           /\ \A d, c \in Nat, u \in Int :
                /\ [row EXCEPT !.debt = d, !.unclaimed = u] \in RewardRow
                /\ [row EXCEPT !.unclaimed = u, !.claimed = c] \in RewardRow
  BY Zenon DEF RewardRow

(* update_reward adds the share of the amount held since the last settlement. *)
LEMMA SettledFacts ==
    ASSUME NEW t \in Tokens, rentTokens[t].acc_per_share \in Nat,
           NEW row \in RewardRow, NEW pre \in Nat, NEW after \in Nat
    PROVE  /\ Settled(t, row, pre, after) \in RewardRow
           /\ Settled(t, row, pre, after).debt = Share(after, rentTokens[t].acc_per_share)
           /\ Settled(t, row, pre, after).unclaimed
                = row.unclaimed + Share(pre, rentTokens[t].acc_per_share) - row.debt
           /\ Settled(t, row, pre, after).claimed = row.claimed
<1> DEFINE acc == rentTokens[t].acc_per_share
           d == Share(after, acc)
           u == row.unclaimed + Share(pre, acc) - row.debt
           new == [row EXCEPT !.debt = d, !.unclaimed = u]
<1>1. /\ d \in Nat /\ Share(pre, acc) \in Nat
      /\ row.unclaimed \in Int /\ row.debt \in Nat /\ row.claimed \in Nat
  BY ShareFacts, RewardRowFields
<1>2. u \in Int
  BY <1>1
<1>3. Settled(t, row, pre, after) = new
  BY DEF Settled
<1>4. new \in RewardRow
  <2> HIDE DEF d, u
  <2> QED BY <1>1, <1>2, RewardRowFields
<1>5. new.debt = d /\ new.unclaimed = u /\ new.claimed = row.claimed
  <2> HIDE DEF d, u
  <2> QED BY DEF RewardRow
<1> QED BY <1>3, <1>4, <1>5

(* batch_update_reward settles the listed tokens of one account. *)
LEMMA BatchFacts ==
    ASSUME RewardTypes, NEW table \in [Tokens -> [Accounts -> RewardRow]],
           NEW a \in Accounts, NEW pre \in Nat, NEW after \in Nat
    PROVE  /\ Batch(table, a, pre, after) \in [Tokens -> [Accounts -> RewardRow]]
           /\ \A t \in Tokens, b \in Accounts : b # a \/ ~ rentTokens[t].listed =>
                Batch(table, a, pre, after)[t][b] = table[t][b]
           /\ \A t \in Tokens : rentTokens[t].listed =>
                Batch(table, a, pre, after)[t][a] = Settled(t, table[t][a], pre, after)
<1>1. \A t \in Tokens : Settled(t, table[t][a], pre, after) \in RewardRow
  <2> SUFFICES ASSUME NEW t \in Tokens
               PROVE  Settled(t, table[t][a], pre, after) \in RewardRow
    OBVIOUS
  <2>1. rentTokens[t].acc_per_share \in Nat /\ table[t][a] \in RewardRow
    BY DEF RewardTypes, RentTokenRow
  <2> QED BY <2>1, SettledFacts
<1> DEFINE New(t) == Settled(t, table[t][a], pre, after)
<1>2. Batch(table, a, pre, after) = [t \in Tokens |->
        IF rentTokens[t].listed THEN [table[t] EXCEPT ![a] = New(t)] ELSE table[t]]
  BY DEF Batch, Listed
<1>3. \A t \in Tokens : New(t) \in RewardRow
  BY <1>1
<1> HIDE DEF New
<1>4. \A t \in Tokens : table[t] \in [Accounts -> RewardRow]
  OBVIOUS
<1> QED BY <1>2, <1>3, <1>4 DEF New

(* What one account earns of one token in a step: the rise of its share in what is
   distributed, and for RAMS_DAO perhaps one unit more or less. *)
PaidFairly(t, a) ==
    LET rise == Share(stakes[a].amount, rentTokens'[t].acc_per_share)
                  - Share(stakes[a].amount, rentTokens[t].acc_per_share)
        gain == Earned(t, a)' - Earned(t, a) - rise
    IN IF a = RamsDao THEN gain \in -1..1 ELSE gain = 0

(* What an account has unclaimed stays a natural number, but for RAMS_DAO. *)
KeepsUnclaimed(t, a) == a # RamsDao => rewards'[t][a].unclaimed >= 0

(* A row settled on the stake held, once the reward per share stays. *)
LEMMA SettledFairly ==
    ASSUME RewardTypes, StakeDebtCovered, NEW t \in Tokens, NEW b \in Accounts,
           stakes \in [Accounts -> StakeRow], stakes' \in [Accounts -> StakeRow],
           UNCHANGED rentTokens,
           rewards'[t][b] = Settled(t, rewards[t][b], stakes[b].amount, stakes'[b].amount)
    PROVE  /\ rewards'[t][b].claimed = rewards[t][b].claimed
           /\ rewards'[t][b].debt <= Share(stakes'[b].amount, rentTokens'[t].acc_per_share)
           /\ KeepsUnclaimed(t, b)
           /\ PaidFairly(t, b)
<1> DEFINE acc == rentTokens[t].acc_per_share
<1>1. /\ acc \in Nat /\ rewards[t][b] \in RewardRow
      /\ stakes[b].amount \in Nat /\ stakes'[b].amount \in Nat
      /\ rentTokens'[t].acc_per_share = acc
      /\ rewards[t][b].debt <= Share(stakes[b].amount, acc)
      /\ b # RamsDao => rewards[t][b].unclaimed >= 0
  BY DEF RewardTypes, RentTokenRow, StakeRow, StakeDebtCovered
<1>2. /\ rewards'[t][b].debt = Share(stakes'[b].amount, acc)
      /\ rewards'[t][b].unclaimed
           = rewards[t][b].unclaimed + Share(stakes[b].amount, acc) - rewards[t][b].debt
      /\ rewards'[t][b].claimed = rewards[t][b].claimed
  <2> DEFINE row == rewards[t][b]  pre == stakes[b].amount  after == stakes'[b].amount
  <2>1. row \in RewardRow /\ pre \in Nat /\ after \in Nat /\ rentTokens[t].acc_per_share \in Nat
    BY <1>1
  <2>2. rewards'[t][b] = Settled(t, row, pre, after)
    OBVIOUS
  <2> HIDE DEF row, pre, after
  <2>3. /\ Settled(t, row, pre, after).debt = Share(after, rentTokens[t].acc_per_share)
        /\ Settled(t, row, pre, after).unclaimed
             = row.unclaimed + Share(pre, rentTokens[t].acc_per_share) - row.debt
        /\ Settled(t, row, pre, after).claimed = row.claimed
    BY <2>1, SettledFacts
  <2> QED BY <2>2, <2>3 DEF row, pre, after
<1> HIDE DEF acc
<1>3. /\ Share(stakes[b].amount, acc) \in Nat /\ Share(stakes'[b].amount, acc) \in Nat
      /\ rewards[t][b].debt \in Nat /\ rewards[t][b].unclaimed \in Int
      /\ rewards[t][b].claimed \in Nat
  BY <1>1, ShareFacts, RewardRowFields
<1>4. Earned(t, b)' = Earned(t, b) /\ Earned(t, b) \in Int
  BY <1>1, <1>2, <1>3 DEF Earned, acc
<1>5. PaidFairly(t, b)
  BY <1>1, <1>3, <1>4 DEF PaidFairly, acc
<1>6. KeepsUnclaimed(t, b)
  BY <1>1, <1>2, <1>3 DEF KeepsUnclaimed
<1> QED BY <1>1, <1>2, <1>3, <1>5, <1>6

(* A row that is left alone, of a token that is not listed or of an account that
   keeps its stake. *)
LEMMA LeftFairly ==
    ASSUME RewardTypes, StakeDebtCovered, UnlistedIdle, NEW t \in Tokens, NEW b \in Accounts,
           stakes \in [Accounts -> StakeRow], stakes' \in [Accounts -> StakeRow],
           rentTokens'[t].acc_per_share = rentTokens[t].acc_per_share,
           rewards'[t][b] = rewards[t][b],
           ~ rentTokens[t].listed \/ stakes'[b].amount = stakes[b].amount
    PROVE  /\ rewards'[t][b].claimed = rewards[t][b].claimed
           /\ rewards'[t][b].debt <= Share(stakes'[b].amount, rentTokens'[t].acc_per_share)
           /\ KeepsUnclaimed(t, b)
           /\ PaidFairly(t, b)
<1> DEFINE acc == rentTokens[t].acc_per_share
<1>1. /\ acc \in Nat /\ rewards[t][b] \in RewardRow
      /\ stakes[b].amount \in Nat /\ stakes'[b].amount \in Nat
      /\ rentTokens'[t].acc_per_share = acc
      /\ rewards[t][b].debt <= Share(stakes[b].amount, acc)
  BY DEF RewardTypes, RentTokenRow, StakeRow, StakeDebtCovered
<1>2. Share(stakes'[b].amount, acc) = Share(stakes[b].amount, acc)
  <2>1. CASE ~ rentTokens[t].listed
    BY <1>1, <2>1, ShareZero DEF UnlistedIdle
  <2> QED BY <2>1
<1> HIDE DEF acc
<1>3. /\ Share(stakes[b].amount, acc) \in Nat
      /\ rewards[t][b].debt \in Nat /\ rewards[t][b].unclaimed \in Int
      /\ rewards[t][b].claimed \in Nat
  BY <1>1, ShareFacts, RewardRowFields
<1>4. Earned(t, b)' = Earned(t, b) /\ Earned(t, b) \in Int
  BY <1>1, <1>2, <1>3 DEF Earned, acc
<1>5. PaidFairly(t, b)
  BY <1>1, <1>3, <1>4 DEF PaidFairly, acc
<1>6. KeepsUnclaimed(t, b)
  BY DEF StakeDebtCovered, KeepsUnclaimed
<1> QED BY <1>1, <1>2, <1>3, <1>5, <1>6

(* A step that claims and distributes nothing leaves the books of the rewards. *)
LEMMA BooksSame ==
    ASSUME RewardInv, rewards' \in [Tokens -> [Accounts -> RewardRow]],
           \A t \in Tokens : /\ rentTokens'[t].total_reward = rentTokens[t].total_reward
                             /\ rentTokens'[t].reward_balance = rentTokens[t].reward_balance,
           \A t \in Tokens, b \in Accounts : rewards'[t][b].claimed = rewards[t][b].claimed,
           UNCHANGED <<tokenBalance, tokenIgnored>>, config'.init_done = config.init_done
    PROVE  RewardsTotalled' /\ TokensHeld'
<1>1. ASSUME NEW t \in Tokens
      PROVE  SumFunctionOnSet([b \in Accounts |-> rewards'[t][b].claimed], Accounts)
               = SumFunctionOnSet([b \in Accounts |-> rewards[t][b].claimed], Accounts)
  <2> DEFINE f == [b \in Accounts |-> rewards[t][b].claimed]
             g == [b \in Accounts |-> rewards'[t][b].claimed]
  <2>1. \A b \in Accounts : f[b] \in Int /\ g[b] = f[b]
    BY <1>1 DEF RewardInv, RewardTypes, RewardRow
  <2> HIDE DEF f, g
  <2>2. SumFunctionOnSet(g, Accounts) = SumFunctionOnSet(f, Accounts)
    BY <2>1, StakeAssumption, SumSame
  <2> QED BY <2>2 DEF f, g
<1>2. RewardsTotalled'
  BY <1>1 DEF RewardInv, RewardsTotalled
<1>3. TokensHeld'
  BY DEF RewardInv, TokensHeld
<1> QED BY <1>2, <1>3

(* A step that leaves the rewards and the amounts staked alone. *)
LEMMA RewardsSame ==
    ASSUME RewardInv, stakes \in [Accounts -> StakeRow], stakes' \in [Accounts -> StakeRow],
           \A b \in Accounts : stakes'[b].amount = stakes[b].amount,
           UNCHANGED rewardVars, config'.init_done = config.init_done
    PROVE  RewardInv' /\ \A t \in Tokens, b \in Accounts : PaidFairly(t, b)
<1>1. UNCHANGED <<rentTokens, rents, rewards, tokenBalance, tokenIgnored>>
  BY DEF rewardVars
<1>2. RewardTypes' /\ UnlistedIdle'
  BY <1>1 DEF RewardInv, RewardTypes, UnlistedIdle
<1>3. ASSUME NEW t \in Tokens, NEW b \in Accounts
      PROVE  /\ rewards'[t][b].debt <= Share(stakes'[b].amount, rentTokens'[t].acc_per_share)
             /\ KeepsUnclaimed(t, b)
             /\ PaidFairly(t, b)
  BY <1>1, <1>3, LeftFairly DEF RewardInv
<1>4. RewardsTotalled' /\ TokensHeld'
  BY <1>1, BooksSame DEF RewardInv, RewardTypes
<1> QED BY <1>2, <1>3, <1>4 DEF RewardInv, StakeDebtCovered, KeepsUnclaimed

(* A step that changes one stake and settles it. *)
LEMMA SettleReward ==
    ASSUME RewardInv, stakes \in [Accounts -> StakeRow], stakes' \in [Accounts -> StakeRow],
           NEW a \in Accounts, \A b \in Accounts \ {a} : stakes'[b] = stakes[b],
           SettleChange(a, stakes[a].amount, stakes'[a].amount), UNCHANGED config
    PROVE  RewardInv' /\ \A t \in Tokens, b \in Accounts : PaidFairly(t, b)
<1>1. /\ RewardTypes /\ StakeDebtCovered /\ UnlistedIdle
      /\ rewards \in [Tokens -> [Accounts -> RewardRow]]
      /\ stakes[a].amount \in Nat /\ stakes'[a].amount \in Nat
      /\ UNCHANGED <<rentTokens, rents, tokenBalance, tokenIgnored>>
      /\ rewards' = Batch(rewards, a, stakes[a].amount, stakes'[a].amount)
  BY DEF RewardInv, RewardTypes, SettleChange, StakeRow
<1>2. /\ rewards' \in [Tokens -> [Accounts -> RewardRow]]
      /\ \A t \in Tokens, b \in Accounts : b # a \/ ~ rentTokens[t].listed =>
            rewards'[t][b] = rewards[t][b]
      /\ \A t \in Tokens : rentTokens[t].listed =>
            rewards'[t][a] = Settled(t, rewards[t][a], stakes[a].amount, stakes'[a].amount)
  BY <1>1, BatchFacts
<1>3. RewardTypes' /\ UnlistedIdle'
  BY <1>1, <1>2 DEF RewardTypes, UnlistedIdle
<1>4. ASSUME NEW t \in Tokens, NEW b \in Accounts
      PROVE  /\ rewards'[t][b].claimed = rewards[t][b].claimed
             /\ rewards'[t][b].debt <= Share(stakes'[b].amount, rentTokens'[t].acc_per_share)
             /\ KeepsUnclaimed(t, b)
             /\ PaidFairly(t, b)
  <2>1. CASE b = a /\ rentTokens[t].listed
    BY <1>1, <1>2, <1>4, <2>1, SettledFairly
  <2>2. CASE b # a \/ ~ rentTokens[t].listed
    <3>1. rewards'[t][b] = rewards[t][b]
      BY <1>2, <1>4, <2>2
    <3>2. rentTokens'[t].acc_per_share = rentTokens[t].acc_per_share
      BY <1>1
    <3>3. ~ rentTokens[t].listed \/ stakes'[b].amount = stakes[b].amount
      BY <1>4, <2>2
    <3> QED BY <1>1, <1>4, <3>1, <3>2, <3>3, LeftFairly
  <2> QED BY <2>1, <2>2
<1>5. RewardsTotalled' /\ TokensHeld'
  BY <1>1, <1>2, <1>4, BooksSame
<1> QED BY <1>3, <1>4, <1>5 DEF RewardInv, StakeDebtCovered, KeepsUnclaimed

(* Staking, unstaking and restaking settle what they change. *)
LEMMA StakingReward ==
    ASSUME IndInv, VaultInv', NEW a \in Accounts, NEW amount \in Nat,
           \/ OnStake(a, amount)
           \/ Unstake(a, amount)
           \/ \E i \in UnstakeIds : Restake(a, i) /\ amount = unstakes[a][i].amount
    PROVE  RewardInv' /\ \A t \in Tokens, b \in Accounts : PaidFairly(t, b)
<1>1. /\ RewardInv /\ stakes \in [Accounts -> StakeRow] /\ stakes' \in [Accounts -> StakeRow]
      /\ stakes[a] \in StakeRow
  BY DEF IndInv, VaultInv, VaultTypes
<1>2. CASE OnStake(a, amount)
  <2>1. /\ \A b \in Accounts \ {a} : stakes'[b] = stakes[b]
        /\ stakes'[a].amount = stakes[a].amount + amount
    BY <1>1, <1>2 DEF OnStake, Credited, StakeRow
  <2> QED BY <1>1, <1>2, <2>1, SettleReward DEF OnStake
<1>3. CASE Unstake(a, amount)
  <2>1. /\ \A b \in Accounts \ {a} : stakes'[b] = stakes[b]
        /\ stakes'[a].amount = stakes[a].amount - amount
    BY <1>1, <1>3 DEF Unstake, StakeRow
  <2> QED BY <1>1, <1>3, <2>1, SettleReward DEF Unstake
<1>4. CASE \E i \in UnstakeIds : Restake(a, i) /\ amount = unstakes[a][i].amount
  <2>1. PICK i \in UnstakeIds : Restake(a, i) /\ amount = unstakes[a][i].amount
    BY <1>4
  <2>2. /\ \A b \in Accounts \ {a} : stakes'[b] = stakes[b]
        /\ stakes'[a].amount = stakes[a].amount + amount
    BY <1>1, <2>1 DEF Restake, StakeRow
  <2>3. SettleChange(a, stakes[a].amount, stakes[a].amount + amount) /\ UNCHANGED config
    BY <2>1 DEF Restake
  <2> QED BY <1>1, <2>2, <2>3, SettleReward
<1> QED BY <1>2, <1>3, <1>4

(* Two settlements in a row of a stake that is the same before and after. *)
LEMMA SettledTwice ==
    ASSUME NEW t \in Tokens, rentTokens[t].acc_per_share \in Nat,
           NEW s \in Nat, NEW less \in Nat, NEW more \in Nat, s - less = more - s,
           less <= s, NEW row \in RewardRow
    PROVE  /\ Settled(t, Settled(t, row, less, s), more, s).debt
                = Share(s, rentTokens[t].acc_per_share)
           /\ Settled(t, Settled(t, row, less, s), more, s).claimed = row.claimed
           /\ Settled(t, Settled(t, row, less, s), more, s).unclaimed
                = row.unclaimed + Share(less, rentTokens[t].acc_per_share)
                   + Share(more, rentTokens[t].acc_per_share)
                   - Share(s, rentTokens[t].acc_per_share) - row.debt
           /\ Share(less, rentTokens[t].acc_per_share) + Share(more, rentTokens[t].acc_per_share)
                - 2 * Share(s, rentTokens[t].acc_per_share) \in -1..1
<1> DEFINE acc == rentTokens[t].acc_per_share
           mid == Settled(t, row, less, s)
           new == Settled(t, mid, more, s)
<1>1. Share(less, acc) + Share(more, acc) - 2 * Share(s, acc) \in -1..1
  <2> DEFINE n == s - less
  <2>1. n \in Nat /\ n <= s /\ less = s - n /\ more = s + n
    OBVIOUS
  <2> HIDE DEF n
  <2>2. Share(s - n, acc) + Share(s + n, acc) - 2 * Share(s, acc) \in -1..1
    BY <2>1, ShareTwice
  <2> QED BY <2>1, <2>2
<1>2. /\ mid \in RewardRow /\ mid.debt = Share(s, acc) /\ mid.claimed = row.claimed
      /\ mid.unclaimed = row.unclaimed + Share(less, acc) - row.debt
  <2>1. /\ mid.debt = Share(s, acc) /\ mid.claimed = row.claimed
        /\ mid.unclaimed = row.unclaimed + Share(less, acc) - row.debt
    BY SettledFacts
  <2>2. mid \in RewardRow
    BY SettledFacts
  <2> QED BY <2>1, <2>2
<1> HIDE DEF mid
<1>3. /\ new.debt = Share(s, acc) /\ new.claimed = mid.claimed
      /\ new.unclaimed = mid.unclaimed + Share(more, acc) - mid.debt
  BY <1>2, SettledFacts
<1>4. /\ row.debt \in Nat /\ row.unclaimed \in Int
      /\ Share(s, acc) \in Nat /\ Share(less, acc) \in Nat /\ Share(more, acc) \in Nat
  BY ShareFacts, RewardRowFields
<1> HIDE DEF new, acc
<1>5. new.unclaimed = row.unclaimed + Share(less, acc) + Share(more, acc)
                        - Share(s, acc) - row.debt
  BY <1>2, <1>3, <1>4
<1> QED BY <1>1, <1>2, <1>3, <1>5 DEF new, mid, acc

(* rams2v settles both accounts, and RAMS_DAO twice when it swaps its own RAMS. *)
LEMMA Rams2VReward ==
    ASSUME IndInv, VaultInv', NEW a \in Accounts, NEW amount \in Nat, Rams2V(a, amount)
    PROVE  RewardInv' /\ \A t \in Tokens, b \in Accounts : PaidFairly(t, b)
<1> DEFINE first == Batch(rewards, a, stakes'[a].amount - amount, stakes'[a].amount)
<1>1. /\ RewardInv /\ RewardTypes /\ StakeDebtCovered /\ UnlistedIdle
      /\ stakes \in [Accounts -> StakeRow] /\ stakes' \in [Accounts -> StakeRow]
      /\ RamsDao \in Accounts
      /\ rewards \in [Tokens -> [Accounts -> RewardRow]]
  BY StakeAssumption DEF IndInv, RewardInv, RewardTypes, VaultInv, VaultTypes
<1>2. /\ stakes[RamsDao].exists /\ amount <= stakes[RamsDao].amount
      /\ stakes' = Swapped(a, amount)
      /\ UNCHANGED <<config, rentTokens, rents, tokenBalance, tokenIgnored>>
      /\ rewards' = Batch(first, RamsDao, stakes'[RamsDao].amount + amount,
                          stakes'[RamsDao].amount)
  BY DEF Rams2V, SwapRewards
<1>3. \A b \in Accounts : stakes[b].amount \in Nat /\ stakes'[b].amount \in Nat
  BY <1>1 DEF StakeRow
<1>4. /\ \A b \in Accounts \ {a, RamsDao} : stakes'[b] = stakes[b]
      /\ a = RamsDao => stakes'[a].amount = stakes[a].amount
      /\ a # RamsDao => /\ stakes'[a].amount = stakes[a].amount + amount
                        /\ stakes'[RamsDao].amount = stakes[RamsDao].amount - amount
  BY <1>1, <1>2, SwappedRows
<1>5. /\ stakes'[a].amount - amount \in Nat /\ stakes'[RamsDao].amount + amount \in Nat
      /\ a # RamsDao => /\ stakes'[a].amount - amount = stakes[a].amount
                        /\ stakes'[RamsDao].amount + amount = stakes[RamsDao].amount
  BY <1>1, <1>2, <1>3, <1>4
<1> DEFINE pre == stakes'[a].amount - amount
           pre2 == stakes'[RamsDao].amount + amount
           after == stakes'[a].amount
           after2 == stakes'[RamsDao].amount
<1>6. pre \in Nat /\ pre2 \in Nat /\ after \in Nat /\ after2 \in Nat
  BY <1>1, <1>3, <1>5
<1>7. first = Batch(rewards, a, pre, after) /\ rewards' = Batch(first, RamsDao, pre2, after2)
  BY <1>2
<1> HIDE DEF first, pre, pre2, after, after2
<1>8. /\ first \in [Tokens -> [Accounts -> RewardRow]]
      /\ \A t \in Tokens, b \in Accounts : b # a \/ ~ rentTokens[t].listed =>
            first[t][b] = rewards[t][b]
      /\ \A t \in Tokens : rentTokens[t].listed =>
            first[t][a] = Settled(t, rewards[t][a], pre, after)
  BY <1>1, <1>6, <1>7, BatchFacts
<1>9. /\ rewards' \in [Tokens -> [Accounts -> RewardRow]]
      /\ \A t \in Tokens, b \in Accounts : b # RamsDao \/ ~ rentTokens[t].listed =>
            rewards'[t][b] = first[t][b]
      /\ \A t \in Tokens : rentTokens[t].listed =>
            rewards'[t][RamsDao] = Settled(t, first[t][RamsDao], pre2, after2)
  <2> DEFINE second == Batch(first, RamsDao, pre2, after2)
  <2>1. /\ second \in [Tokens -> [Accounts -> RewardRow]]
        /\ \A t \in Tokens, b \in Accounts : b # RamsDao \/ ~ rentTokens[t].listed =>
              second[t][b] = first[t][b]
        /\ \A t \in Tokens : rentTokens[t].listed =>
              second[t][RamsDao] = Settled(t, first[t][RamsDao], pre2, after2)
    BY <1>1, <1>6, <1>8, BatchFacts
  <2> HIDE DEF second
  <2>2. rewards' = second
    BY <1>7 DEF second
  <2> QED BY <2>1, <2>2
<1>10. RewardTypes' /\ UnlistedIdle'
  BY <1>1, <1>2, <1>9 DEF RewardTypes, UnlistedIdle
<1>11. ASSUME NEW t \in Tokens, NEW b \in Accounts
      PROVE  /\ rewards'[t][b].claimed = rewards[t][b].claimed
             /\ rewards'[t][b].debt <= Share(stakes'[b].amount, rentTokens'[t].acc_per_share)
             /\ KeepsUnclaimed(t, b)
             /\ PaidFairly(t, b)
  <2>1. CASE rentTokens[t].listed /\ b = RamsDao /\ a = RamsDao
    <3> DEFINE acc == rentTokens[t].acc_per_share
               s == stakes[b].amount
               row == rewards[t][b]
               less == s - amount
               more == s + amount
               mid == Settled(t, row, less, s)
               both == Share(less, acc) + Share(more, acc)
    <3>1. /\ acc \in Nat /\ rentTokens'[t].acc_per_share = acc /\ s \in Nat
          /\ row \in RewardRow /\ stakes'[b].amount = s /\ amount <= s
      BY <1>1, <1>2, <1>3, <1>4, <1>11, <2>1 DEF RewardTypes, RentTokenRow
    <3>2. /\ less \in Nat /\ more \in Nat /\ less <= s /\ s - less = more - s
      BY <3>1
    <3>3. rewards'[t][b] = Settled(t, mid, more, s)
      BY <1>8, <1>9, <1>11, <2>1, <3>1 DEF pre, pre2, after, after2
    <3>4. t \in Tokens /\ rentTokens[t].acc_per_share = acc /\ mid = Settled(t, row, less, s)
      BY <1>11
    <3> HIDE DEF s, row, less, more, mid, acc
    <3>5. /\ rewards'[t][b].debt = Share(s, acc) /\ rewards'[t][b].claimed = row.claimed
          /\ rewards'[t][b].unclaimed = row.unclaimed + Share(less, acc) + Share(more, acc)
                                          - Share(s, acc) - row.debt
          /\ Share(less, acc) + Share(more, acc) - 2 * Share(s, acc) \in -1..1
      BY <3>1, <3>2, <3>3, <3>4, SettledTwice
    <3>6. /\ row.debt \in Nat /\ row.unclaimed \in Int /\ row.claimed \in Nat
          /\ Share(s, acc) \in Nat /\ Share(less, acc) \in Nat /\ Share(more, acc) \in Nat
      BY <3>1, <3>2, ShareFacts, RewardRowFields
    <3>7. both \in Int /\ both - 2 * Share(s, acc) \in -1..1
      BY <3>5, <3>6
    <3>8. Earned(t, b) = row.claimed + row.unclaimed + Share(s, acc) - row.debt
      BY DEF Earned, row, s, acc
    <3>9. Earned(t, b)' = rewards'[t][b].claimed + rewards'[t][b].unclaimed
                            + Share(s, acc) - rewards'[t][b].debt
      BY <3>1 DEF Earned
    <3>10. Earned(t, b)' - Earned(t, b) = both - 2 * Share(s, acc)
      BY <3>5, <3>6, <3>8, <3>9
    <3>11. PaidFairly(t, b)
      <4>1. Share(stakes[b].amount, rentTokens'[t].acc_per_share)
              - Share(stakes[b].amount, rentTokens[t].acc_per_share) = 0
        BY <3>1, <3>6 DEF s, acc
      <4>2. Earned(t, b)' - Earned(t, b) - 0 \in -1..1
        BY <3>7, <3>10
      <4> QED BY <2>1, <4>1, <4>2 DEF PaidFairly
    <3>12. KeepsUnclaimed(t, b)
      BY <2>1 DEF KeepsUnclaimed
    <3> QED BY <3>1, <3>5, <3>6, <3>11, <3>12 DEF row, acc
  <2>2. CASE rentTokens[t].listed /\ b = RamsDao /\ a # RamsDao
    <3>1. rewards'[t][b] = Settled(t, rewards[t][b], stakes[b].amount, stakes'[b].amount)
      BY <1>5, <1>8, <1>9, <1>11, <2>2 DEF pre2, after2
    <3> QED BY <1>1, <1>2, <1>11, <3>1, SettledFairly
  <2>3. CASE rentTokens[t].listed /\ b = a /\ a # RamsDao
    <3>1. rewards'[t][b] = Settled(t, rewards[t][b], stakes[b].amount, stakes'[b].amount)
      BY <1>5, <1>8, <1>9, <1>11, <2>3 DEF pre, after
    <3> QED BY <1>1, <1>2, <1>11, <3>1, SettledFairly
  <2>4. CASE ~ rentTokens[t].listed \/ b \notin {a, RamsDao}
    <3>1. rewards'[t][b] = rewards[t][b]
      BY <1>8, <1>9, <1>11, <2>4
    <3>2. rentTokens'[t].acc_per_share = rentTokens[t].acc_per_share
      BY <1>2
    <3>3. ~ rentTokens[t].listed \/ stakes'[b].amount = stakes[b].amount
      BY <1>4, <1>11, <2>4
    <3> QED BY <1>1, <1>11, <3>1, <3>2, <3>3, LeftFairly
  <2> QED BY <2>1, <2>2, <2>3, <2>4
<1>12. RewardsTotalled' /\ TokensHeld'
  BY <1>1, <1>2, <1>9, <1>11, BooksSame
<1> QED BY <1>10, <1>11, <1>12 DEF RewardInv, StakeDebtCovered, KeepsUnclaimed

(* process_rent_payment keeps the row a row and only lets the reward per share grow. *)
LEMMA DistributedFacts ==
    ASSUME NEW t \in Tokens, rentTokens[t] \in RentTokenRow, NEW amount \in Nat,
           stat.stake_amount \in Nat \ {0}
    PROVE  /\ Distributed(t, amount) \in RentTokenRow
           /\ Distributed(t, amount).listed = rentTokens[t].listed
           /\ Distributed(t, amount).total_rent_received
                = rentTokens[t].total_rent_received + amount
           /\ Distributed(t, amount).acc_per_share = rentTokens[t].acc_per_share
                + (amount * PrecisionFactor) \div stat.stake_amount
           /\ rentTokens[t].acc_per_share <= Distributed(t, amount).acc_per_share
           /\ Distributed(t, amount).total_reward = rentTokens[t].total_reward + amount
           /\ Distributed(t, amount).reward_balance = rentTokens[t].reward_balance + amount
<1> DEFINE row == rentTokens[t]
           incr == (amount * PrecisionFactor) \div stat.stake_amount
           n1 == row.total_rent_received + amount
           n2 == row.acc_per_share + incr
           n3 == row.total_reward + amount
           n4 == row.reward_balance + amount
           new == [row EXCEPT !.total_rent_received = n1, !.acc_per_share = n2,
                              !.total_reward = n3, !.reward_balance = n4]
<1>1. Distributed(t, amount) = new
  BY DEF Distributed
<1>2. /\ row \in RentTokenRow /\ row.total_rent_received \in Nat /\ row.acc_per_share \in Nat
      /\ row.total_reward \in Nat /\ row.reward_balance \in Int
  BY DEF RentTokenRow
<1>3. incr \in Nat
  <2>1. amount * PrecisionFactor \in Nat
    BY StakeAssumption, ProductNat
  <2> QED BY <2>1, Division
<1> HIDE DEF row, incr
<1>4. n1 \in Nat /\ n2 \in Nat /\ n3 \in Nat /\ n4 \in Int /\ row.acc_per_share <= n2
  BY <1>2, <1>3
<1>5. /\ new \in RentTokenRow /\ new.listed = row.listed
      /\ new.total_rent_received = n1 /\ new.acc_per_share = n2
      /\ new.total_reward = n3 /\ new.reward_balance = n4
  <2> HIDE DEF n1, n2, n3, n4
  <2> QED BY <1>2, <1>4, Zenon DEF RentTokenRow
<1> QED BY <1>1, <1>4, <1>5 DEF row, incr

(* A rent payment is distributed over the stakes and settles nothing. *)
LEMMA RentReward ==
    ASSUME IndInv, VaultInv', NEW t \in Tokens, NEW borrower \in Accounts,
           NEW amount \in Nat, Rent(t, borrower, amount)
    PROVE  RewardInv' /\ \A u \in Tokens, b \in Accounts : PaidFairly(u, b)
<1>1. /\ RewardTypes /\ StakeDebtCovered /\ UnlistedIdle /\ RewardsTotalled /\ TokensHeld
      /\ stakes \in [Accounts -> StakeRow]
      /\ rentTokens \in [Tokens -> RentTokenRow]
      /\ rewards \in [Tokens -> [Accounts -> RewardRow]]
      /\ rents \in [Tokens -> [Accounts -> Nat]]
      /\ tokenBalance \in [Tokens -> Nat] /\ tokenIgnored \in [Tokens -> Nat]
  BY DEF IndInv, RewardInv, RewardTypes, VaultInv, VaultTypes
<1>2. /\ rentTokens[t].listed
      /\ rents' = [rents EXCEPT ![t][borrower] = @ + amount]
      /\ rentTokens' = [rentTokens EXCEPT ![t] = Distributed(t, amount)]
      /\ tokenBalance' = [tokenBalance EXCEPT ![t] = @ + amount]
      /\ UNCHANGED <<config, stakes, rewards, tokenIgnored>>
  BY DEF Rent, stakeVars
<1>3. stat.stake_amount \in Nat \ {0}
  BY VaultTotals DEF Rent, IndInv
<1> DEFINE new == Distributed(t, amount)
<1>4. /\ new \in RentTokenRow /\ new.listed = rentTokens[t].listed
      /\ rentTokens[t].acc_per_share <= new.acc_per_share
      /\ new.total_reward = rentTokens[t].total_reward + amount
      /\ new.reward_balance = rentTokens[t].reward_balance + amount
  BY <1>1, <1>3, DistributedFacts
<1> HIDE DEF new
<1>5. /\ rentTokens'[t] = new /\ rentTokens' \in [Tokens -> RentTokenRow]
      /\ \A u \in Tokens \ {t} : rentTokens'[u] = rentTokens[u]
      /\ rents' \in [Tokens -> [Accounts -> Nat]]
      /\ tokenBalance' \in [Tokens -> Nat] /\ tokenBalance'[t] = tokenBalance[t] + amount
      /\ \A u \in Tokens \ {t} : tokenBalance'[u] = tokenBalance[u]
  BY <1>1, <1>2, <1>4 DEF new
<1>6. RewardTypes' /\ UnlistedIdle'
  BY <1>1, <1>2, <1>4, <1>5 DEF RewardTypes, UnlistedIdle
<1>7. ASSUME NEW u \in Tokens, NEW b \in Accounts
      PROVE  /\ rewards'[u][b].debt <= Share(stakes'[b].amount, rentTokens'[u].acc_per_share)
             /\ KeepsUnclaimed(u, b)
             /\ PaidFairly(u, b)
  <2> DEFINE old == rentTokens[u].acc_per_share  acc == rentTokens'[u].acc_per_share
             s == stakes[b].amount
  <2>1. old \in Nat /\ acc \in Nat /\ old <= acc
    <3>1. old \in Nat /\ acc \in Nat
      BY <1>1, <1>5, <1>7 DEF RentTokenRow
    <3>2. CASE u = t
      BY <1>4, <1>5, <3>1, <3>2
    <3>3. CASE u # t
      BY <1>5, <1>7, <3>1, <3>3
    <3> QED BY <3>1, <3>2, <3>3
  <2>2. /\ s \in Nat /\ stakes'[b].amount = s /\ rewards'[u][b] = rewards[u][b]
        /\ rewards[u][b] \in RewardRow /\ rewards[u][b].debt <= Share(s, old)
    BY <1>1, <1>2, <1>7 DEF StakeRow, StakeDebtCovered
  <2>3. Share(s, old) \in Nat /\ Share(s, acc) \in Nat /\ Share(s, old) <= Share(s, acc)
    <3> HIDE DEF old, acc, s
    <3> QED BY <2>1, <2>2, ShareFacts
  <2>4. /\ rewards[u][b].debt \in Nat /\ rewards[u][b].unclaimed \in Int
        /\ rewards[u][b].claimed \in Nat
    BY <2>2, RewardRowFields
  <2> HIDE DEF old, acc, s
  <2>5. Earned(u, b)' - Earned(u, b) - (Share(s, acc) - Share(s, old)) = 0
    BY <2>2, <2>3, <2>4 DEF Earned, old, acc, s
  <2>6. PaidFairly(u, b)
    BY <2>5 DEF PaidFairly, old, acc, s
  <2>7. rewards'[u][b].debt <= Share(s, acc)
    BY <2>2, <2>3, <2>4
  <2>8. KeepsUnclaimed(u, b)
    BY <1>1, <1>7, <2>2 DEF KeepsUnclaimed, StakeDebtCovered
  <2> QED BY <2>2, <2>6, <2>7, <2>8 DEF acc
<1>8. RewardsTotalled'
  <2> SUFFICES ASSUME NEW u \in Tokens
               PROVE  rentTokens'[u].total_reward = rentTokens'[u].reward_balance
                 + SumFunctionOnSet([b \in Accounts |-> rewards'[u][b].claimed], Accounts)
    BY DEF RewardsTotalled
  <2> DEFINE sum == SumFunctionOnSet([b \in Accounts |-> rewards[u][b].claimed], Accounts)
  <2>1. /\ rentTokens[u].total_reward = rentTokens[u].reward_balance + sum
        /\ rentTokens[u].total_reward \in Nat /\ rentTokens[u].reward_balance \in Int
    BY <1>1 DEF RewardsTotalled, RentTokenRow
  <2>2. sum = SumFunctionOnSet([b \in Accounts |-> rewards'[u][b].claimed], Accounts)
    BY <1>2
  <2>3. sum \in Int
    <3> DEFINE f == [b \in Accounts |-> rewards[u][b].claimed]
    <3>1. \A b \in Accounts : f[b] \in Int
      BY <1>1 DEF RewardRow
    <3> HIDE DEF f
    <3>2. SumFunctionOnSet(f, Accounts) \in Int
      BY <3>1, StakeAssumption, SumInt
    <3> QED BY <3>2 DEF f
  <2> HIDE DEF sum
  <2>4. rentTokens'[u].total_reward = rentTokens'[u].reward_balance + sum
    BY <1>4, <1>5, <2>1, <2>3
  <2> QED BY <2>2, <2>4
<1>9. TokensHeld'
  <2> SUFFICES ASSUME NEW u \in Tokens
               PROVE  tokenBalance'[u] + (IF config.init_done /\ BankRentTokens[u].listed
                           THEN BankRentTokens[u].reward_balance ELSE 0)
                        = rentTokens'[u].reward_balance + tokenIgnored[u]
    BY <1>2 DEF TokensHeld
  <2> DEFINE bank == IF config.init_done /\ BankRentTokens[u].listed
                     THEN BankRentTokens[u].reward_balance ELSE 0
  <2>1. /\ tokenBalance[u] + bank = rentTokens[u].reward_balance + tokenIgnored[u]
        /\ tokenBalance[u] \in Nat /\ tokenIgnored[u] \in Nat
        /\ rentTokens[u].reward_balance \in Int /\ bank \in Int
    BY <1>1, MigrationAssumption DEF TokensHeld, RentTokenRow
  <2> HIDE DEF bank
  <2>2. tokenBalance'[u] + bank = rentTokens'[u].reward_balance + tokenIgnored[u]
    <3>1. CASE u = t
      <4>1. /\ tokenBalance'[u] = tokenBalance[u] + amount
            /\ rentTokens'[u].reward_balance = rentTokens[u].reward_balance + amount
        BY <1>4, <1>5, <3>1
      <4> QED BY <2>1, <4>1, Z3T(30)
    <3>2. CASE u # t
      BY <1>5, <2>1, <3>2
    <3> QED BY <3>1, <3>2
  <2> QED BY <2>2 DEF bank
<1> QED BY <1>6, <1>7, <1>8, <1>9 DEF RewardInv, StakeDebtCovered, KeepsUnclaimed

(* What claiming leaves of the row of an account. *)
LEMMA PaidFacts ==
    ASSUME RewardTypes, stakes \in [Accounts -> StakeRow], NEW t \in Tokens, NEW a \in Accounts,
           AtClaim(t, a).unclaimed \in Nat
    PROVE  /\ Paid(t, a) \in RewardRow
           /\ Paid(t, a).debt = Share(stakes[a].amount, rentTokens[t].acc_per_share)
           /\ Paid(t, a).unclaimed = 0
           /\ Paid(t, a).claimed = rewards[t][a].claimed + AtClaim(t, a).unclaimed
           /\ AtClaim(t, a).unclaimed = rewards[t][a].unclaimed
                + Share(stakes[a].amount, rentTokens[t].acc_per_share) - rewards[t][a].debt
<1> DEFINE s == stakes[a].amount
           row == rewards[t][a]
           at == AtClaim(t, a)
           c == row.claimed + at.unclaimed
           new == [at EXCEPT !.unclaimed = 0, !.claimed = c]
<1>1. s \in Nat /\ row \in RewardRow /\ rentTokens[t].acc_per_share \in Nat
  BY DEF RewardTypes, StakeRow, RentTokenRow
<1>2. at = Settled(t, row, s, s)
  BY DEF AtClaim
<1> HIDE DEF s, row
<1>3. /\ Settled(t, row, s, s).debt = Share(s, rentTokens[t].acc_per_share)
      /\ Settled(t, row, s, s).unclaimed
           = row.unclaimed + Share(s, rentTokens[t].acc_per_share) - row.debt
      /\ Settled(t, row, s, s).claimed = row.claimed
  BY <1>1, SettledFacts
<1>4. Settled(t, row, s, s) \in RewardRow
  BY <1>1, SettledFacts
<1>5. Paid(t, a) = new
  BY <1>2, <1>3 DEF Paid
<1>6. at \in RewardRow /\ at.unclaimed \in Nat /\ row.claimed \in Nat
  BY <1>1, <1>2, <1>4, RewardRowFields
<1> HIDE DEF at
<1>7. c \in Nat
  BY <1>6
<1>8. new \in RewardRow /\ new.debt = at.debt /\ new.unclaimed = 0 /\ new.claimed = c
  <2> HIDE DEF c
  <2>1. new \in RewardRow
    <3>1. 0 \in Int
      OBVIOUS
    <3> QED BY <1>6, <1>7, <3>1, RewardRowFields, Zenon
  <2>2. new.debt = at.debt /\ new.unclaimed = 0 /\ new.claimed = c
    BY <1>6, Zenon DEF RewardRow
  <2> QED BY <2>1, <2>2
<1> QED BY <1>2, <1>3, <1>5, <1>8 DEF s, row, at

(* claim pays what the account earned, out of what is held for it. *)
LEMMA ClaimReward ==
    ASSUME IndInv, VaultInv', NEW a \in Accounts, Claim(a)
    PROVE  RewardInv' /\ \A t \in Tokens, b \in Accounts : PaidFairly(t, b)
<1> DEFINE c(t) == IF rentTokens[t].listed THEN AtClaim(t, a).unclaimed ELSE 0
<1>1. /\ RewardTypes /\ StakeDebtCovered /\ UnlistedIdle /\ RewardsTotalled /\ TokensHeld
      /\ stakes \in [Accounts -> StakeRow]
      /\ rentTokens \in [Tokens -> RentTokenRow]
      /\ rewards \in [Tokens -> [Accounts -> RewardRow]]
      /\ tokenBalance \in [Tokens -> Nat] /\ tokenIgnored \in [Tokens -> Nat]
  BY DEF IndInv, RewardInv, RewardTypes, VaultInv, VaultTypes
<1>2. \A t \in Tokens : Claimable(a)[t] = c(t)
  BY DEF Claimable, Listed
<1>3. /\ \A t \in Tokens : c(t) \in 0..tokenBalance[t]
      /\ rewards' = [t \in Tokens |->
           IF rentTokens[t].listed THEN [rewards[t] EXCEPT ![a] = Paid(t, a)] ELSE rewards[t]]
      /\ rentTokens' = [t \in Tokens |->
           [rentTokens[t] EXCEPT !.reward_balance = @ - c(t)]]
      /\ tokenBalance' = [t \in Tokens |-> tokenBalance[t] - c(t)]
      /\ UNCHANGED <<config, stakes, rents, tokenIgnored>>
  BY <1>2 DEF Claim, stakeVars, Listed
<1>4. \A t \in Tokens : c(t) \in Nat /\ c(t) <= tokenBalance[t] /\ tokenBalance[t] \in Nat
  BY <1>1, <1>3
<1>5. ASSUME NEW t \in Tokens, rentTokens[t].listed
      PROVE  /\ Paid(t, a) \in RewardRow
             /\ Paid(t, a).debt = Share(stakes[a].amount, rentTokens[t].acc_per_share)
             /\ Paid(t, a).unclaimed = 0
             /\ Paid(t, a).claimed = rewards[t][a].claimed + c(t)
             /\ c(t) = rewards[t][a].unclaimed
                  + Share(stakes[a].amount, rentTokens[t].acc_per_share) - rewards[t][a].debt
  <2>1. c(t) = AtClaim(t, a).unclaimed /\ AtClaim(t, a).unclaimed \in Nat
    BY <1>4, <1>5
  <2> HIDE DEF c
  <2> QED BY <1>1, <1>5, <2>1, PaidFacts
<1>6. \A t \in Tokens : ~ rentTokens[t].listed => c(t) = 0
  OBVIOUS
<1> HIDE DEF c
<1>7. \A t \in Tokens :
        /\ rentTokens'[t] \in RentTokenRow
        /\ rentTokens'[t].listed = rentTokens[t].listed
        /\ rentTokens'[t].acc_per_share = rentTokens[t].acc_per_share
        /\ rentTokens'[t].total_reward = rentTokens[t].total_reward
        /\ rentTokens'[t].reward_balance = rentTokens[t].reward_balance - c(t)
  <2> SUFFICES ASSUME NEW t \in Tokens
               PROVE  /\ rentTokens'[t] \in RentTokenRow
                      /\ rentTokens'[t].listed = rentTokens[t].listed
                      /\ rentTokens'[t].acc_per_share = rentTokens[t].acc_per_share
                      /\ rentTokens'[t].total_reward = rentTokens[t].total_reward
                      /\ rentTokens'[t].reward_balance = rentTokens[t].reward_balance - c(t)
    OBVIOUS
  <2> DEFINE row == rentTokens[t]  n == row.reward_balance - c(t)
  <2>1. rentTokens'[t] = [row EXCEPT !.reward_balance = n]
    BY <1>3
  <2>2. row \in RentTokenRow /\ row.reward_balance \in Int
    BY <1>1 DEF RentTokenRow
  <2>3. n \in Int
    BY <1>4, <2>2
  <2> HIDE DEF row, n
  <2>4. /\ [row EXCEPT !.reward_balance = n] \in RentTokenRow
        /\ [row EXCEPT !.reward_balance = n].reward_balance = n
        /\ [row EXCEPT !.reward_balance = n].listed = row.listed
        /\ [row EXCEPT !.reward_balance = n].acc_per_share = row.acc_per_share
        /\ [row EXCEPT !.reward_balance = n].total_reward = row.total_reward
    BY <2>2, <2>3, Zenon DEF RentTokenRow
  <2> QED BY <2>1, <2>4 DEF row, n
<1>8. /\ \A t \in Tokens, b \in Accounts : rewards'[t][b] =
            IF rentTokens[t].listed /\ b = a THEN Paid(t, b) ELSE rewards[t][b]
      /\ rewards' \in [Tokens -> [Accounts -> RewardRow]]
  BY <1>1, <1>3, <1>5
<1>9. RewardTypes'
  <2>1. rentTokens' \in [Tokens -> RentTokenRow]
    BY <1>3, <1>7
  <2>2. tokenBalance' \in [Tokens -> Nat]
    BY <1>3, <1>4
  <2> QED BY <1>1, <1>3, <1>8, <2>1, <2>2 DEF RewardTypes
<1>10. UnlistedIdle'
  BY <1>1, <1>6, <1>7 DEF UnlistedIdle, RentTokenRow
<1>11. ASSUME NEW t \in Tokens, NEW b \in Accounts
       PROVE  /\ rewards'[t][b].debt <= Share(stakes'[b].amount, rentTokens'[t].acc_per_share)
              /\ KeepsUnclaimed(t, b)
              /\ PaidFairly(t, b)
  <2>1. CASE rentTokens[t].listed /\ b = a
    <3> DEFINE acc == rentTokens[t].acc_per_share
               s == stakes[b].amount
    <3>1. /\ acc \in Nat /\ s \in Nat /\ stakes'[b].amount = s
          /\ rentTokens'[t].acc_per_share = acc
          /\ rewards[t][b] \in RewardRow
      BY <1>1, <1>3, <1>7, <1>11 DEF RentTokenRow, StakeRow
    <3>2. /\ rewards'[t][b].debt = Share(s, acc) /\ rewards'[t][b].unclaimed = 0
          /\ rewards'[t][b].claimed = rewards[t][b].claimed + c(t)
          /\ c(t) = rewards[t][b].unclaimed + Share(s, acc) - rewards[t][b].debt
      BY <1>5, <1>8, <1>11, <2>1
    <3> HIDE DEF acc, s
    <3>3. /\ Share(s, acc) \in Nat /\ rewards[t][b].debt \in Nat
          /\ rewards[t][b].unclaimed \in Int /\ rewards[t][b].claimed \in Nat
      BY <3>1, ShareFacts, RewardRowFields
    <3>4. /\ Earned(t, b) = rewards[t][b].claimed + rewards[t][b].unclaimed + Share(s, acc)
                              - rewards[t][b].debt
          /\ Earned(t, b)' = rewards'[t][b].claimed + rewards'[t][b].unclaimed + Share(s, acc)
                               - rewards'[t][b].debt
      BY <3>1 DEF Earned, s, acc
    <3>5. Earned(t, b)' = Earned(t, b) /\ Earned(t, b) \in Int
      BY <3>2, <3>3, <3>4
    <3>6. PaidFairly(t, b)
      BY <3>1, <3>3, <3>5 DEF PaidFairly, s, acc
    <3>7. KeepsUnclaimed(t, b)
      BY <3>2 DEF KeepsUnclaimed
    <3> QED BY <3>1, <3>2, <3>3, <3>6, <3>7 DEF s, acc
  <2>2. CASE ~ (rentTokens[t].listed /\ b = a)
    <3>1. /\ rewards'[t][b] = rewards[t][b] /\ stakes' = stakes
          /\ rentTokens'[t].acc_per_share = rentTokens[t].acc_per_share
      BY <1>3, <1>7, <1>8, <1>11, <2>2
    <3> QED BY <1>1, <1>11, <3>1, LeftFairly
  <2> QED BY <2>1, <2>2
<1>12. RewardsTotalled'
  <2> SUFFICES ASSUME NEW t \in Tokens
               PROVE  rentTokens'[t].total_reward = rentTokens'[t].reward_balance
                 + SumFunctionOnSet([b \in Accounts |-> rewards'[t][b].claimed], Accounts)
    BY DEF RewardsTotalled
  <2> DEFINE f == [b \in Accounts |-> rewards[t][b].claimed]
             g == [b \in Accounts |-> rewards'[t][b].claimed]
  <2>1. \A b \in Accounts : f[b] \in Int /\ g[b] \in Int /\ (b # a => g[b] = f[b])
    BY <1>1, <1>8 DEF RewardRow
  <2>2. g[a] = f[a] + c(t)
    <3>1. CASE rentTokens[t].listed
      BY <1>5, <1>8, <3>1
    <3>2. CASE ~ rentTokens[t].listed
      BY <1>6, <1>8, <2>1, <3>2
    <3> QED BY <3>1, <3>2
  <2>3. /\ rentTokens[t].total_reward
             = rentTokens[t].reward_balance + SumFunctionOnSet(f, Accounts)
        /\ rentTokens[t].total_reward \in Nat /\ rentTokens[t].reward_balance \in Int
    BY <1>1 DEF RewardsTotalled, RentTokenRow
  <2> HIDE DEF f, g
  <2>4. SumFunctionOnSet(g, Accounts) = SumFunctionOnSet(f, Accounts) + g[a] - f[a]
    BY <2>1, StakeAssumption, SumUpdate
  <2>5. SumFunctionOnSet(f, Accounts) \in Int
    BY <2>1, StakeAssumption, SumInt
  <2>6. SumFunctionOnSet(g, Accounts) = SumFunctionOnSet(f, Accounts) + c(t)
    BY <1>4, <2>1, <2>2, <2>4, <2>5
  <2>7. rentTokens'[t].total_reward
          = rentTokens'[t].reward_balance + SumFunctionOnSet(g, Accounts)
    BY <1>4, <1>7, <2>3, <2>5, <2>6
  <2> QED BY <2>7 DEF g
<1>13. TokensHeld'
  <2> SUFFICES ASSUME NEW t \in Tokens
               PROVE  tokenBalance'[t] + (IF config.init_done /\ BankRentTokens[t].listed
                           THEN BankRentTokens[t].reward_balance ELSE 0)
                        = rentTokens'[t].reward_balance + tokenIgnored[t]
    BY <1>3 DEF TokensHeld
  <2> DEFINE bank == IF config.init_done /\ BankRentTokens[t].listed
                     THEN BankRentTokens[t].reward_balance ELSE 0
  <2>1. /\ tokenBalance[t] + bank = rentTokens[t].reward_balance + tokenIgnored[t]
        /\ tokenBalance[t] \in Nat /\ tokenIgnored[t] \in Nat
        /\ rentTokens[t].reward_balance \in Int /\ bank \in Int
    BY <1>1, MigrationAssumption DEF TokensHeld, RentTokenRow
  <2> HIDE DEF bank
  <2>2. /\ tokenBalance'[t] = tokenBalance[t] - c(t) /\ c(t) \in Nat
        /\ rentTokens'[t].reward_balance = rentTokens[t].reward_balance - c(t)
    BY <1>3, <1>4, <1>7
  <2>3. tokenBalance'[t] + bank = rentTokens'[t].reward_balance + tokenIgnored[t]
    BY <2>1, <2>2, Z3T(30)
  <2> QED BY <2>3 DEF bank
<1> QED BY <1>9, <1>10, <1>11, <1>12, <1>13 DEF RewardInv, StakeDebtCovered, KeepsUnclaimed

(* Listing a token changes nothing else. *)
LEMMA AddRentTokenReward ==
    ASSUME IndInv, NEW t \in Tokens, AddRentToken(t)
    PROVE  RewardInv' /\ \A u \in Tokens, b \in Accounts : PaidFairly(u, b)
<1>1. /\ RewardInv /\ RewardTypes /\ StakeDebtCovered /\ UnlistedIdle
      /\ stakes \in [Accounts -> StakeRow]
      /\ rentTokens \in [Tokens -> RentTokenRow]
      /\ UNCHANGED <<config, stakes, rents, rewards, tokenBalance, tokenIgnored>>
  BY DEF IndInv, RewardInv, RewardTypes, VaultInv, VaultTypes, AddRentToken, stakeVars
<1>2. /\ rentTokens' \in [Tokens -> RentTokenRow]
      /\ \A u \in Tokens :
           /\ rentTokens'[u].acc_per_share = rentTokens[u].acc_per_share
           /\ rentTokens'[u].total_reward = rentTokens[u].total_reward
           /\ rentTokens'[u].reward_balance = rentTokens[u].reward_balance
           /\ ~ rentTokens'[u].listed => ~ rentTokens[u].listed
  <2> DEFINE row == rentTokens[t]  new == [row EXCEPT !.listed = TRUE, !.enabled = TRUE]
  <2>1. rentTokens' = [rentTokens EXCEPT ![t] = new]
    BY <1>1 DEF AddRentToken
  <2>2. row \in RentTokenRow
    BY <1>1
  <2>3. /\ new \in RentTokenRow /\ new.listed /\ new.acc_per_share = row.acc_per_share
        /\ new.total_reward = row.total_reward /\ new.reward_balance = row.reward_balance
    <3> HIDE DEF row
    <3> QED BY <2>2, Zenon DEF RentTokenRow
  <2> HIDE DEF new
  <2> QED BY <1>1, <2>1, <2>3 DEF new
<1>3. RewardTypes' /\ UnlistedIdle'
  BY <1>1, <1>2 DEF RewardTypes, UnlistedIdle
<1>4. ASSUME NEW u \in Tokens, NEW b \in Accounts
      PROVE  /\ rewards'[u][b].debt <= Share(stakes'[b].amount, rentTokens'[u].acc_per_share)
             /\ KeepsUnclaimed(u, b)
             /\ PaidFairly(u, b)
  <2>1. /\ rewards'[u][b] = rewards[u][b] /\ stakes' = stakes
        /\ rentTokens'[u].acc_per_share = rentTokens[u].acc_per_share
    BY <1>1, <1>2, <1>4
  <2> QED BY <1>1, <1>4, <2>1, LeftFairly
<1>5. RewardsTotalled' /\ TokensHeld'
  BY <1>1, <1>2, BooksSame DEF RewardTypes
<1> QED BY <1>3, <1>4, <1>5 DEF RewardInv, StakeDebtCovered, KeepsUnclaimed

(* Rent tokens received with memo "ignore" are held beside the rewards. *)
LEMMA IgnoredTokenReward ==
    ASSUME IndInv, NEW t \in Tokens, NEW amount \in Nat, IgnoredToken(t, amount)
    PROVE  RewardInv' /\ \A u \in Tokens, b \in Accounts : PaidFairly(u, b)
<1>1. /\ RewardTypes /\ StakeDebtCovered /\ UnlistedIdle /\ TokensHeld /\ RewardsTotalled
      /\ stakes \in [Accounts -> StakeRow] /\ rentTokens \in [Tokens -> RentTokenRow]
      /\ tokenBalance \in [Tokens -> Nat] /\ tokenIgnored \in [Tokens -> Nat]
      /\ UNCHANGED <<config, stakes, rentTokens, rents, rewards>>
      /\ tokenBalance' = [tokenBalance EXCEPT ![t] = @ + amount]
      /\ tokenIgnored' = [tokenIgnored EXCEPT ![t] = @ + amount]
  BY DEF IndInv, RewardInv, RewardTypes, VaultInv, VaultTypes, IgnoredToken, stakeVars
<1>2. RewardTypes' /\ UnlistedIdle' /\ RewardsTotalled'
  BY <1>1 DEF RewardTypes, UnlistedIdle, RewardsTotalled
<1>3. ASSUME NEW u \in Tokens, NEW b \in Accounts
      PROVE  /\ rewards'[u][b].debt <= Share(stakes'[b].amount, rentTokens'[u].acc_per_share)
             /\ KeepsUnclaimed(u, b)
             /\ PaidFairly(u, b)
  <2>1. /\ rewards'[u][b] = rewards[u][b] /\ stakes' = stakes
        /\ rentTokens'[u].acc_per_share = rentTokens[u].acc_per_share
    BY <1>1
  <2> QED BY <1>1, <1>3, <2>1, LeftFairly
<1>4. TokensHeld'
  <2> SUFFICES ASSUME NEW u \in Tokens
               PROVE  tokenBalance'[u] + (IF config.init_done /\ BankRentTokens[u].listed
                           THEN BankRentTokens[u].reward_balance ELSE 0)
                        = rentTokens[u].reward_balance + tokenIgnored'[u]
    BY <1>1 DEF TokensHeld
  <2> DEFINE bank == IF config.init_done /\ BankRentTokens[u].listed
                     THEN BankRentTokens[u].reward_balance ELSE 0
  <2>1. /\ tokenBalance[u] + bank = rentTokens[u].reward_balance + tokenIgnored[u]
        /\ tokenBalance[u] \in Nat /\ tokenIgnored[u] \in Nat
        /\ rentTokens[u].reward_balance \in Int /\ bank \in Int
    <3>1. BankRentTokens[u] \in RentTokenRow /\ rentTokens[u] \in RentTokenRow
      BY <1>1, MigrationAssumption
    <3>2. BankRentTokens[u].reward_balance \in Int /\ rentTokens[u].reward_balance \in Int
      BY <3>1 DEF RentTokenRow
    <3>3. bank \in Int
      BY <3>2
    <3>4. tokenBalance[u] + bank = rentTokens[u].reward_balance + tokenIgnored[u]
      BY <1>1 DEF TokensHeld
    <3> HIDE DEF bank
    <3> QED BY <1>1, <3>2, <3>3, <3>4
  <2> HIDE DEF bank
  <2> DEFINE more == IF u = t THEN amount ELSE 0
  <2>2. /\ more \in Nat
        /\ tokenBalance'[u] = tokenBalance[u] + more /\ tokenIgnored'[u] = tokenIgnored[u] + more
    BY <1>1
  <2> HIDE DEF more
  <2>3. tokenBalance'[u] + bank = rentTokens[u].reward_balance + tokenIgnored'[u]
    BY <2>1, <2>2, Z3T(30)
  <2> QED BY <2>3 DEF bank
<1> QED BY <1>2, <1>3, <1>4 DEF RewardInv, StakeDebtCovered, KeepsUnclaimed

(* init overwrites only tokens that have distributed nothing, and the debts it copies
   are covered by the deposits it copies. *)
LEMMA InitializeReward ==
    ASSUME IndInv, VaultInv', Initialize
    PROVE  RewardInv'
<1>1. /\ RewardTypes /\ StakeDebtCovered /\ UnlistedIdle /\ RewardsTotalled /\ TokensHeld
      /\ NoRowNoAmount /\ ~ config.init_done
      /\ stakes \in [Accounts -> StakeRow] /\ stakes' \in [Accounts -> StakeRow]
      /\ rentTokens \in [Tokens -> RentTokenRow] /\ rents \in [Tokens -> [Accounts -> Nat]]
      /\ rewards \in [Tokens -> [Accounts -> RewardRow]]
      /\ tokenBalance \in [Tokens -> Nat] /\ tokenIgnored \in [Tokens -> Nat]
  BY DEF IndInv, RewardInv, RewardTypes, VaultInv, VaultTypes, Initialize
<1>2. /\ BankRentTokens \in [Tokens -> RentTokenRow]
      /\ BankRents \in [Tokens -> [Accounts -> Nat]]
      /\ BankRewards \in [Tokens -> [Accounts -> RewardRow]]
      /\ BankDeposits \in [Accounts -> Nat]
  BY MigrationAssumption
<1>3. /\ \A b \in Accounts : BankDeposits[b] > 0 => ~ stakes[b].exists
      /\ (\E t \in Tokens : BankRentTokens[t].listed) =>
            \A t \in Tokens : ~ rentTokens[t].listed
      /\ stakes' = [b \in Accounts |-> IF BankDeposits[b] = 0 THEN stakes[b]
             ELSE [exists |-> TRUE, amount |-> BankDeposits[b], unstaking_amount |-> 0]]
      /\ rentTokens' = [t \in Tokens |-> IF BankRentTokens[t].listed
                                         THEN BankRentTokens[t] ELSE rentTokens[t]]
      /\ rents' = [t \in Tokens |-> IF BankRentTokens[t].listed THEN BankRents[t] ELSE rents[t]]
      /\ rewards' = [t \in Tokens |-> IF BankRentTokens[t].listed
                                      THEN BankRewards[t] ELSE rewards[t]]
      /\ config' = [config EXCEPT !.exists = TRUE, !.init_done = TRUE]
      /\ UNCHANGED <<tokenBalance, tokenIgnored>>
  BY DEF Initialize, Listed
<1>4. RewardTypes'
  BY <1>1, <1>2, <1>3 DEF RewardTypes
<1>5. UnlistedIdle'
  BY <1>1, <1>3 DEF UnlistedIdle
<1>6. ASSUME NEW b \in Accounts
      PROVE  /\ stakes[b].amount \in Nat /\ stakes'[b].amount \in Nat
             /\ BankDeposits[b] \in Nat
             /\ stakes[b].amount <= stakes'[b].amount /\ BankDeposits[b] <= stakes'[b].amount
  <2>1. stakes[b].amount \in Nat /\ stakes'[b].amount \in Nat /\ BankDeposits[b] \in Nat
    BY <1>1, <1>2, <1>6 DEF StakeRow
  <2>2. CASE BankDeposits[b] = 0
    <3>1. stakes'[b] = stakes[b]
      BY <1>3, <1>6, <2>2
    <3> QED BY <2>1, <2>2, <3>1
  <2>3. CASE BankDeposits[b] > 0
    <3>1. stakes'[b].amount = BankDeposits[b]
      BY <1>3, <1>6, <2>3
    <3>2. stakes[b].amount = 0
      BY <1>1, <1>3, <1>6, <2>3 DEF NoRowNoAmount
    <3> QED BY <2>1, <3>1, <3>2
  <2> QED BY <2>1, <2>2, <2>3
<1>7. ASSUME NEW t \in Tokens, NEW b \in Accounts
      PROVE  /\ rewards'[t][b].debt <= Share(stakes'[b].amount, rentTokens'[t].acc_per_share)
             /\ KeepsUnclaimed(t, b)
  <2>1. CASE BankRentTokens[t].listed
    <3> DEFINE acc == BankRentTokens[t].acc_per_share
               debt == BankRewards[t][b].debt
               s == stakes'[b].amount
    <3>1. /\ acc \in Nat /\ debt \in Nat /\ debt <= Share(BankDeposits[b], acc)
          /\ rewards'[t][b].debt = debt /\ rentTokens'[t].acc_per_share = acc
      BY <1>2, <1>3, <1>7, <2>1, MigrationAssumption DEF RentTokenRow, RewardRow
    <3>2. s \in Nat /\ BankDeposits[b] \in Nat /\ BankDeposits[b] <= s
      BY <1>6, <1>7
    <3> HIDE DEF acc, debt, s
    <3>3. /\ Share(BankDeposits[b], acc) \in Nat /\ Share(s, acc) \in Nat
          /\ Share(BankDeposits[b], acc) <= Share(s, acc)
      BY <3>1, <3>2, ShareFacts
    <3>4. debt <= Share(s, acc)
      BY <3>1, <3>3
    <3>5. KeepsUnclaimed(t, b)
      BY <1>3, <1>7, <2>1, MigrationAssumption DEF KeepsUnclaimed
    <3> QED BY <3>1, <3>4, <3>5 DEF s
  <2>2. CASE ~ BankRentTokens[t].listed
    <3> DEFINE acc == rentTokens[t].acc_per_share
               debt == rewards[t][b].debt
               old == stakes[b].amount
               s == stakes'[b].amount
    <3>1. /\ acc \in Nat /\ debt \in Nat /\ debt <= Share(old, acc)
          /\ rewards'[t][b].debt = debt /\ rentTokens'[t].acc_per_share = acc
      BY <1>1, <1>3, <1>7, <2>2 DEF RentTokenRow, RewardRow, StakeDebtCovered
    <3>2. s \in Nat /\ old \in Nat /\ old <= s
      BY <1>6, <1>7
    <3> HIDE DEF acc, debt, s, old
    <3>3. /\ Share(old, acc) \in Nat /\ Share(s, acc) \in Nat
          /\ Share(old, acc) <= Share(s, acc)
      BY <3>1, <3>2, ShareFacts
    <3>4. debt <= Share(s, acc)
      BY <3>1, <3>3
    <3>5. KeepsUnclaimed(t, b)
      BY <1>1, <1>3, <1>7, <2>2 DEF KeepsUnclaimed, StakeDebtCovered
    <3> QED BY <3>1, <3>4, <3>5 DEF s
  <2> QED BY <2>1, <2>2
<1>8. RewardsTotalled'
  <2> SUFFICES ASSUME NEW t \in Tokens
               PROVE  rentTokens'[t].total_reward = rentTokens'[t].reward_balance
                 + SumFunctionOnSet([b \in Accounts |-> rewards'[t][b].claimed], Accounts)
    BY DEF RewardsTotalled
  <2>1. CASE BankRentTokens[t].listed
    <3>1. rentTokens'[t] = BankRentTokens[t] /\ rewards'[t] = BankRewards[t]
      BY <1>3, <2>1
    <3> QED BY <3>1, MigrationAssumption
  <2>2. CASE ~ BankRentTokens[t].listed
    <3>1. rentTokens'[t] = rentTokens[t] /\ rewards'[t] = rewards[t]
      BY <1>3, <2>2
    <3> QED BY <1>1, <3>1 DEF RewardsTotalled
  <2> QED BY <2>1, <2>2
<1>9. TokensHeld'
  <2> SUFFICES ASSUME NEW t \in Tokens
               PROVE  tokenBalance[t] + (IF BankRentTokens[t].listed
                           THEN BankRentTokens[t].reward_balance ELSE 0)
                        = rentTokens'[t].reward_balance + tokenIgnored[t]
    <3>1. config'.init_done
      BY <1>3 DEF IndInv, VaultInv, VaultTypes, ConfigRow
    <3> QED BY <1>3, <3>1 DEF TokensHeld
  <2>1. /\ tokenBalance[t] + 0 = rentTokens[t].reward_balance + tokenIgnored[t]
        /\ tokenBalance[t] \in Nat /\ tokenIgnored[t] \in Nat
        /\ rentTokens[t].reward_balance \in Int /\ BankRentTokens[t].reward_balance \in Int
    BY <1>1, <1>2 DEF TokensHeld, RentTokenRow
  <2>2. CASE BankRentTokens[t].listed
    <3>1. rentTokens[t].reward_balance = 0
      BY <1>1, <1>3, <2>2 DEF UnlistedIdle
    <3>2. rentTokens'[t].reward_balance = BankRentTokens[t].reward_balance
      BY <1>3, <2>2
    <3> QED BY <2>1, <2>2, <3>1, <3>2
  <2>3. CASE ~ BankRentTokens[t].listed
    <3>1. rentTokens'[t].reward_balance = rentTokens[t].reward_balance
      BY <1>3, <2>3
    <3> QED BY <2>1, <2>3, <3>1
  <2> QED BY <2>2, <2>3
<1> QED BY <1>4, <1>5, <1>7, <1>8, <1>9 DEF RewardInv, StakeDebtCovered, KeepsUnclaimed

-----------------------------------------------------------------------------
(* Every step. *)

(* A step that keeps the invariant and settles fairly. *)
SafeStep ==
    /\ IndInv'
    /\ config'.init_done = config.init_done =>
         \A t \in Tokens, a \in Accounts : PaidFairly(t, a)

(* The initial states satisfy the invariant. *)
LEMMA InitSafe == Init => IndInv
<1> SUFFICES ASSUME Init PROVE IndInv
  OBVIOUS
<1>1. config \in ConfigRow /\ ~ config.init_done
  BY StakeAssumption DEF Init, ConfigRow
<1>2. /\ stat = [stake_amount |-> InitialAmount, used_amount |-> InitialAmount]
      /\ InitialAmount \in Nat
  BY MigrationAssumption DEF Init
<1>3. VaultTypes /\ NoRowNoAmount
  BY <1>1, <1>2, StakeAssumption
     DEF Init, VaultTypes, NoRowNoAmount, StakeRow, UnstakeRow, NoUnstake, BorrowRow
<1>4. StakedTotal = 0 /\ UnstakingTotal = 0 /\ LentTotal = 0
  <2>1. /\ \A a \in Accounts : StakedOf[a] = 0
        /\ \A a \in Accounts : UnstakingOf[a] = 0
        /\ \A a \in Accounts : LentTo[a] = 0
    BY DEF Init, StakedOf, UnstakingOf, LentTo
  <2>2. StakedTotal = 0
    BY <2>1, StakeAssumption, SumZero DEF StakedTotal
  <2>3. UnstakingTotal = 0
    BY <2>1, StakeAssumption, SumZero DEF UnstakingTotal
  <2>4. LentTotal = 0
    BY <2>1, StakeAssumption, SumZero DEF LentTotal
  <2> QED BY <2>2, <2>3, <2>4
<1>5. NotMigrated = InitialAmount /\ Migrated = 0
  BY <1>1 DEF NotMigrated, Migrated
<1>6. StakesTotalled /\ VaultCovered /\ LoansTotalled
  BY <1>2, <1>4, <1>5
     DEF Init, StakesTotalled, VaultCovered, LoansTotalled, StakedTotal, UnstakingTotal
<1>7. UnstakingMatchesRows
  <2> SUFFICES ASSUME NEW a \in Accounts
               PROVE  stakes[a].unstaking_amount = AmountOf(a, Rows(a))
    BY DEF UnstakingMatchesRows
  <2>1. stakes[a].unstaking_amount = 0 /\ Rows(a) = {}
    BY DEF Init, Rows, NoUnstake
  <2>2. AmountOf(a, {}) = 0
    BY SumEmpty DEF AmountOf
  <2> QED BY <2>1, <2>2
<1>8. RewardTypes /\ UnlistedIdle
  BY DEF Init, RewardTypes, UnlistedIdle, RentTokenRow, RewardRow, NoToken, NoReward
<1>9. StakeDebtCovered
  <2> SUFFICES ASSUME NEW t \in Tokens, NEW a \in Accounts
               PROVE  /\ rewards[t][a].debt <= Share(stakes[a].amount, rentTokens[t].acc_per_share)
                      /\ a # RamsDao => rewards[t][a].unclaimed >= 0
    BY DEF StakeDebtCovered
  <2>1. /\ rewards[t][a].debt = 0 /\ rewards[t][a].unclaimed = 0 /\ stakes[a].amount = 0
        /\ rentTokens[t].acc_per_share = 0
    BY DEF Init, NoReward, NoToken
  <2> QED BY <2>1, ShareZero
<1>10. RewardsTotalled
  <2> SUFFICES ASSUME NEW t \in Tokens
               PROVE  rentTokens[t].total_reward = rentTokens[t].reward_balance
                 + SumFunctionOnSet([a \in Accounts |-> rewards[t][a].claimed], Accounts)
    BY DEF RewardsTotalled
  <2> DEFINE f == [a \in Accounts |-> rewards[t][a].claimed]
  <2>1. \A a \in Accounts : f[a] = 0
    BY DEF Init, NoReward
  <2> HIDE DEF f
  <2>2. SumFunctionOnSet(f, Accounts) = 0
    BY <2>1, StakeAssumption, SumZero
  <2>3. rentTokens[t].total_reward = 0 /\ rentTokens[t].reward_balance = 0
    BY DEF Init, NoToken
  <2> QED BY <2>2, <2>3 DEF f
<1>11. TokensHeld
  BY <1>1 DEF Init, TokensHeld, NoToken
<1> QED BY <1>3, <1>6, <1>7, <1>8, <1>9, <1>10, <1>11 DEF IndInv, VaultInv, RewardInv

(* The actions of the contract's own account. *)
LEMMA OwnSafe ==
    ASSUME IndInv, OwnNext
    PROVE  SafeStep
<1> USE DEF IndInv
<1>1. /\ stakes \in [Accounts -> StakeRow] /\ config \in ConfigRow
      /\ vaultRam \in Nat /\ now \in Nat
  BY DEF VaultInv, VaultTypes
<1>2. CASE Initialize
  <2>1. VaultInv'
    BY <1>2, InitializeVault
  <2>2. RewardInv'
    BY <1>2, <2>1, InitializeReward
  <2>3. config'.init_done # config.init_done
    BY <1>1, <1>2 DEF Initialize, ConfigRow
  <2> QED BY <2>1, <2>2, <2>3 DEF SafeStep
<1>3. CASE \E row \in ConfigRows : Config(row)
  <2>1. PICK row \in ConfigRows : Config(row)
    BY <1>3
  <2>2. /\ config' \in ConfigRow /\ config'.init_done = config.init_done
        /\ UNCHANGED <<stat, stakes, unstakes, borrows, vBalance, vIgnored, vaultRam, now>>
        /\ UNCHANGED rewardVars
    BY <1>1, <2>1, StakeAssumption DEF Config, ConfigRow, stakeVars, loanVars
  <2>3. VaultInv'
    BY <1>1, <2>2, VaultSame
  <2>4. RewardInv' /\ \A t \in Tokens, b \in Accounts : PaidFairly(t, b)
    BY <1>1, <2>2, RewardsSame
  <2> QED BY <2>3, <2>4 DEF SafeStep
<1>4. CASE \E t \in Tokens : AddRentToken(t)
  <2>1. PICK t \in Tokens : AddRentToken(t)
    BY <1>4
  <2>2. /\ UNCHANGED <<stat, stakes, unstakes, borrows, vBalance, vIgnored, vaultRam, now>>
        /\ UNCHANGED config
    BY <2>1 DEF AddRentToken, stakeVars, loanVars
  <2>3. VaultInv'
    BY <1>1, <2>2, VaultSame
  <2>4. RewardInv' /\ \A u \in Tokens, b \in Accounts : PaidFairly(u, b)
    BY <2>1, AddRentTokenReward
  <2> QED BY <2>3, <2>4 DEF SafeStep
<1>5. CASE \E a \in Accounts, n \in Amounts : Borrow(a, n)
  <2>1. PICK a \in Accounts, n \in Amounts : Borrow(a, n)
    BY <1>5
  <2>2. n \in Nat
    BY StakeAssumption
  <2>3. VaultInv'
    BY <2>1, <2>2, BorrowVault
  <2>4. RewardInv' /\ \A t \in Tokens, b \in Accounts : PaidFairly(t, b)
    BY <1>1, <2>1, RewardsSame DEF Borrow
  <2> QED BY <2>3, <2>4 DEF SafeStep
<1> QED BY <1>2, <1>3, <1>4, <1>5 DEF OwnNext

(* The actions of a staker, each for any amount. *)
LEMMA StakerSafe ==
    ASSUME IndInv, NEW a \in Accounts, NEW n \in Nat,
           \/ OnStake(a, n)
           \/ Unstake(a, n)
           \/ \E i \in UnstakeIds : Restake(a, i)
           \/ Withdraw(a)
           \/ Rams2V(a, n)
    PROVE  SafeStep
<1> USE DEF IndInv
<1>1. stakes \in [Accounts -> StakeRow]
  BY DEF VaultInv, VaultTypes
<1>2. CASE OnStake(a, n)
  BY <1>2, OnStakeVault, StakingReward DEF SafeStep
<1>3. CASE Unstake(a, n)
  BY <1>3, UnstakeVault, StakingReward DEF SafeStep
<1>4. CASE \E i \in UnstakeIds : Restake(a, i)
  <2>1. PICK i \in UnstakeIds : Restake(a, i)
    BY <1>4
  <2>2. VaultInv'
    BY <2>1, RestakeVault
  <2>3. unstakes[a][i].amount \in Nat
    BY RowFacts DEF VaultInv
  <2>4. RewardInv' /\ \A t \in Tokens, b \in Accounts : PaidFairly(t, b)
    BY <2>1, <2>2, <2>3, StakingReward
  <2> QED BY <2>2, <2>4 DEF SafeStep
<1>5. CASE Withdraw(a)
  <2>1. VaultInv'
    BY <1>5, WithdrawVault
  <2>2. /\ stakes' \in [Accounts -> StakeRow]
        /\ \A b \in Accounts : stakes'[b].amount = stakes[b].amount
        /\ UNCHANGED rewardVars /\ UNCHANGED config
    <3>1. PICK S \in SUBSET Rows(a) : stakes' = Released(a, AmountOf(a, S))
      BY <1>5 DEF Withdraw
    <3>2. \A b \in Accounts : stakes'[b].amount = stakes[b].amount
      BY <1>1, <3>1 DEF Released, StakeRow
    <3> QED BY <1>5, <2>1, <3>2 DEF Withdraw, VaultInv, VaultTypes
  <2>3. RewardInv' /\ \A t \in Tokens, b \in Accounts : PaidFairly(t, b)
    BY <1>1, <2>2, RewardsSame
  <2> QED BY <2>1, <2>3 DEF SafeStep
<1>6. CASE Rams2V(a, n)
  <2>1. VaultInv'
    BY <1>6, Rams2VVault
  <2>2. RewardInv' /\ \A t \in Tokens, b \in Accounts : PaidFairly(t, b)
    BY <1>6, <2>1, Rams2VReward
  <2> QED BY <2>1, <2>2 DEF SafeStep
<1> QED BY <1>2, <1>3, <1>4, <1>5, <1>6

(* What others send: RAM repaid, and V that is not staked. *)
LEMMA SentSafe ==
    ASSUME IndInv, NEW n \in Nat,
           IgnoredV(n) \/ \E a \in Accounts : RepayRam(a, n)
    PROVE  SafeStep
<1> USE DEF IndInv
<1>1. stakes \in [Accounts -> StakeRow]
  BY DEF VaultInv, VaultTypes
<1>2. VaultInv'
  BY IgnoredVVault, RepayRamVault
<1>3. UNCHANGED <<config, stakes>> /\ UNCHANGED rewardVars
  BY DEF IgnoredV, RepayRam
<1>4. RewardInv' /\ \A t \in Tokens, b \in Accounts : PaidFairly(t, b)
  BY <1>1, <1>3, RewardsSame
<1> QED BY <1>2, <1>4 DEF SafeStep

(* Rent and claims. *)
LEMMA RentSafe ==
    ASSUME IndInv, RentNext
    PROVE  SafeStep
<1> USE DEF IndInv
<1>1. UNCHANGED <<config, stat, stakes, unstakes, borrows, vBalance, vIgnored, vaultRam, now>>
  BY DEF RentNext, Rent, Claim, IgnoredToken, stakeVars, loanVars
<1>2. VaultInv'
  <2>1. config \in ConfigRow /\ vaultRam \in Nat /\ now \in Nat
    BY DEF VaultInv, VaultTypes
  <2> QED BY <1>1, <2>1, VaultSame
<1>3. CASE \E t \in Tokens, a \in Accounts, n \in Rents : Rent(t, a, n)
  <2>1. PICK t \in Tokens, a \in Accounts, n \in Rents : Rent(t, a, n)
    BY <1>3
  <2>2. n \in Nat
    BY StakeAssumption
  <2> QED BY <1>2, <2>1, <2>2, RentReward DEF SafeStep
<1>4. CASE \E a \in Accounts : Claim(a)
  BY <1>2, <1>4, ClaimReward DEF SafeStep
<1>5. CASE \E t \in Tokens, n \in Rents : IgnoredToken(t, n)
  <2>1. PICK t \in Tokens, n \in Rents : IgnoredToken(t, n)
    BY <1>5
  <2>2. n \in Nat
    BY StakeAssumption
  <2> QED BY <1>2, <2>1, <2>2, IgnoredTokenReward DEF SafeStep
<1> QED BY <1>3, <1>4, <1>5 DEF RentNext

(* Time passes, or nothing happens. *)
LEMMA IdleSafe ==
    ASSUME IndInv, Tick \/ UNCHANGED vars
    PROVE  SafeStep
<1> USE DEF IndInv
<1>1. /\ UNCHANGED <<config, stat, stakes, unstakes, borrows, vBalance, vIgnored, vaultRam>>
      /\ UNCHANGED rewardVars /\ now' \in Nat
      /\ config \in ConfigRow /\ vaultRam \in Nat /\ stakes \in [Accounts -> StakeRow]
  BY DEF Tick, vars, stakeVars, loanVars, VaultInv, VaultTypes
<1>2. VaultInv'
  BY <1>1, VaultSame
<1>3. RewardInv' /\ \A t \in Tokens, b \in Accounts : PaidFairly(t, b)
  BY <1>1, RewardsSame
<1> QED BY <1>2, <1>3 DEF SafeStep

(* Every step of the contract keeps the invariant and settles fairly. *)
LEMMA NextSafe ==
    ASSUME IndInv, [Next]_vars
    PROVE  SafeStep
<1>1. CASE OwnNext
  BY <1>1, OwnSafe
<1>2. CASE StakeNext
  <2>1. \A n \in Amounts \cup {0} : n \in Nat
    BY StakeAssumption
  <2> QED BY <1>2, <2>1, StakerSafe, SentSafe DEF StakeNext
<1>3. CASE RentNext
  BY <1>3, RentSafe
<1>4. CASE Tick \/ UNCHANGED vars
  BY <1>4, IdleSafe
<1> QED BY <1>1, <1>2, <1>3, <1>4 DEF Next

(* RAM is lent out of bank.rms and comes back to it. *)
LEMMA RamStep ==
    ASSUME VaultInv, RamConserved, [Next]_vars
    PROVE  RamConserved'
<1>1. /\ stat \in [stake_amount : Nat, used_amount : Nat] /\ stat.used_amount \in Nat
      /\ vaultRam \in Nat /\ InitialVaultRam \in Nat /\ InitialAmount \in Nat
  BY StakeAssumption, MigrationAssumption DEF VaultInv, VaultTypes
<1>2. CASE \E a \in Accounts, n \in Amounts : Borrow(a, n)
  <2>1. PICK a \in Accounts, n \in Amounts : Borrow(a, n)
    BY <1>2
  <2>2. /\ n \in Nat /\ vaultRam' = vaultRam - n
        /\ stat'.used_amount = stat.used_amount + n
    BY <1>1, <2>1, StakeAssumption DEF Borrow
  <2> QED BY <1>1, <2>2 DEF RamConserved
<1>3. CASE \E a \in Accounts, n \in Amounts : RepayRam(a, n)
  <2>1. PICK a \in Accounts, n \in Amounts : RepayRam(a, n)
    BY <1>3
  <2> DEFINE paid == Repaid(a, n)
  <2>2. vaultRam' = vaultRam + paid /\ stat'.used_amount = stat.used_amount - paid
    BY <1>1, <2>1 DEF RepayRam
  <2>3. paid \in Nat
    <3>1. n \in Nat /\ borrows[a].bytes \in Nat
      BY StakeAssumption DEF VaultInv, VaultTypes, BorrowRow
    <3> QED BY <3>1 DEF Repaid
  <2> HIDE DEF paid
  <2> QED BY <1>1, <2>2, <2>3 DEF RamConserved
<1>4. CASE ~ (\E a \in Accounts, n \in Amounts : Borrow(a, n) \/ RepayRam(a, n))
  <2>1. vaultRam' = vaultRam /\ stat'.used_amount = stat.used_amount
    <3>1. CASE OwnNext \/ RentNext \/ Tick \/ UNCHANGED vars
      BY <1>4, <3>1 DEF OwnNext, RentNext, Tick, Initialize, Config, AddRentToken, Rent,
                        Claim, IgnoredToken, vars, loanVars, stakeVars
    <3>2. CASE StakeNext
      BY <1>1, <1>4, <3>2 DEF StakeNext, OnStake, Unstake, Restake, Withdraw, Rams2V,
                        IgnoredV, loanVars
    <3> QED BY <3>1, <3>2 DEF Next
  <2> QED BY <2>1 DEF RamConserved
<1> QED BY <1>2, <1>3, <1>4

(* The rows that withdraw pays out. *)
LEMMA WithdrawExpired ==
    ASSUME VaultInv, NEW a \in Accounts, Withdraw(a)
    PROVE  LET gone == {i \in Rows(a) : ~ unstakes'[a][i].open} IN
           /\ vBalance - vBalance' = AmountOf(a, gone)
           /\ \A i \in gone :
                /\ now >= unstakes[a][i].since + config.unstake_expire_seconds
                /\ \A j \in Rows(a) \ gone : unstakes[a][j].since >= unstakes[a][i].since
<1>1. PICK S \in SUBSET Rows(a) :
        /\ Due(a, S)
        /\ unstakes' = [unstakes EXCEPT
                          ![a] = [i \in UnstakeIds |-> IF i \in S THEN NoUnstake ELSE @[i]]]
        /\ vBalance' = vBalance - AmountOf(a, S)
  BY DEF Withdraw
<1>2. /\ VaultTypes /\ unstakes \in [Accounts -> [UnstakeIds -> UnstakeRow]]
      /\ vBalance \in Nat /\ now \in Nat
      /\ config.unstake_expire_seconds \in Nat /\ Rows(a) \subseteq UnstakeIds
      /\ IsFiniteSet(Rows(a))
  BY RowFacts DEF VaultInv, VaultTypes, ConfigRow
<1>3. S = {i \in Rows(a) : ~ unstakes'[a][i].open}
  BY <1>1, <1>2 DEF Rows, NoUnstake
<1>4. AmountOf(a, S) \in Nat
  <2> DEFINE f == [i \in UnstakeIds |-> unstakes[a][i].amount]
  <2>1. \A i \in Rows(a) : f[i] \in Nat
    BY <1>2, RowFacts
  <2> HIDE DEF f
  <2>2. SumFunctionOnSet(f, S) \in Nat
    BY <1>2, <2>1, SumPart
  <2> QED BY <2>2 DEF AmountOf, f
<1>5. vBalance - vBalance' = AmountOf(a, S)
  BY <1>1, <1>2, <1>4
<1>6. \A i \in UnstakeIds : unstakes[a][i].since \in Nat
  BY <1>2 DEF UnstakeRow
<1>7. ASSUME NEW i \in S
      PROVE  now >= unstakes[a][i].since + config.unstake_expire_seconds
  <2>1. now - unstakes[a][i].since >= config.unstake_expire_seconds
    BY <1>1, <1>7 DEF Due, Expired
  <2>2. unstakes[a][i].since \in Nat
    BY <1>2, <1>6, <1>7
  <2> QED BY <1>2, <2>1, <2>2
<1>8. ASSUME NEW i \in S, NEW j \in Rows(a) \ S
      PROVE  unstakes[a][j].since >= unstakes[a][i].since
  <2>1. Before(a, i, j)
    BY <1>1, <1>8 DEF Due
  <2>2. unstakes[a][i].since \in Nat /\ unstakes[a][j].since \in Nat
    BY <1>2, <1>6, <1>8
  <2> QED BY <2>1, <2>2 DEF Before
<1> QED BY <1>3, <1>5, <1>7, <1>8

(* V leaves by withdraw only. *)
LEMMA PaidOut ==
    ASSUME VaultInv, [Next]_vars, vBalance' < vBalance
    PROVE  \E a \in Accounts : Withdraw(a)
<1>1. vBalance \in Nat /\ \A n \in Amounts : n \in Nat
  BY StakeAssumption DEF VaultInv, VaultTypes
<1>2. ~ (vBalance < vBalance) /\ \A n \in Amounts : ~ (vBalance + n < vBalance)
  BY <1>1
<1>3. CASE OwnNext \/ RentNext \/ Tick \/ UNCHANGED vars
  BY <1>2, <1>3 DEF OwnNext, RentNext, Tick, Initialize, Config, AddRentToken, Borrow, Rent,
                    Claim, IgnoredToken, vars, loanVars, stakeVars
<1>4. CASE StakeNext
  BY <1>2, <1>4 DEF StakeNext, OnStake, Unstake, Restake, Rams2V, RepayRam, IgnoredV
<1> QED BY <1>3, <1>4 DEF Next

-----------------------------------------------------------------------------
(* What a rent promises the stakers. *)

(* A step receives n of a token as rent and distributes it over the stakes held. *)
ReceivesRent(t, n) ==
    /\ rentTokens'[t].total_rent_received = rentTokens[t].total_rent_received + n
    /\ n = 0 => rentTokens'[t].acc_per_share = rentTokens[t].acc_per_share
    /\ n # 0 => /\ stat.stake_amount \in Nat \ {0} /\ UNCHANGED <<stakes, rewards>>
                /\ rentTokens'[t].acc_per_share = rentTokens[t].acc_per_share
                     + (n * PrecisionFactor) \div stat.stake_amount

(* Every step but init receives rent of a token, perhaps none. *)
LEMMA RentStep ==
    ASSUME IndInv, [Next]_vars, config'.init_done = config.init_done, NEW t \in Tokens
    PROVE  \E n \in Nat : ReceivesRent(t, n)
<1>1. /\ rentTokens \in [Tokens -> RentTokenRow] /\ rentTokens[t].total_rent_received \in Nat
      /\ rentTokens[t].reward_balance \in Int /\ config \in ConfigRow
  BY DEF IndInv, RewardInv, RewardTypes, RentTokenRow, VaultInv, VaultTypes
<1>2. ASSUME rentTokens'[t].total_rent_received = rentTokens[t].total_rent_received,
             rentTokens'[t].acc_per_share = rentTokens[t].acc_per_share
      PROVE  \E n \in Nat : ReceivesRent(t, n)
  <2>1. ReceivesRent(t, 0)
    BY <1>1, <1>2 DEF ReceivesRent
  <2> QED BY <2>1
<1>3. CASE UNCHANGED rentTokens
  BY <1>2, <1>3
<1>4. CASE OwnNext
  <2>1. CASE Initialize
    BY <1>1, <2>1 DEF Initialize, ConfigRow
  <2>2. ASSUME NEW u \in Tokens, AddRentToken(u)
        PROVE  \E n \in Nat : ReceivesRent(t, n)
    <3> DEFINE row == rentTokens[u]  new == [row EXCEPT !.listed = TRUE, !.enabled = TRUE]
    <3>1. rentTokens' = [rentTokens EXCEPT ![u] = new]
      BY <2>2 DEF AddRentToken
    <3>2. row \in RentTokenRow
      BY <1>1
    <3>3. /\ new.total_rent_received = row.total_rent_received
          /\ new.acc_per_share = row.acc_per_share
      <4> HIDE DEF row
      <4> QED BY <3>2, Zenon DEF RentTokenRow
    <3> HIDE DEF new
    <3> QED BY <1>1, <1>2, <3>1, <3>3
  <2> QED BY <1>3, <1>4, <2>1, <2>2 DEF OwnNext, Config, Borrow, rewardVars
<1>5. CASE StakeNext
  BY <1>3, <1>5 DEF StakeNext, OnStake, Unstake, Restake, Withdraw, Rams2V, RepayRam, IgnoredV,
                    SettleChange, rewardVars
<1>6. CASE RentNext
  <2>1. ASSUME NEW u \in Tokens, NEW b \in Accounts, NEW n \in Rents, Rent(u, b, n)
        PROVE  \E m \in Nat : ReceivesRent(t, m)
    <3> DEFINE new == Distributed(u, n)
    <3>1. /\ rentTokens' = [rentTokens EXCEPT ![u] = new] /\ n \in Nat /\ n # 0
          /\ UNCHANGED <<stakes, rewards>>
      BY <2>1, StakeAssumption DEF Rent, stakeVars
    <3>2. stat.stake_amount \in Nat \ {0}
      BY <2>1, VaultTotals DEF Rent, IndInv
    <3>3. rentTokens[u] \in RentTokenRow
      BY <1>1
    <3>4. /\ new.total_rent_received = rentTokens[u].total_rent_received + n
          /\ new.acc_per_share = rentTokens[u].acc_per_share
               + (n * PrecisionFactor) \div stat.stake_amount
      BY <3>1, <3>2, <3>3, DistributedFacts
    <3> HIDE DEF new
    <3>5. CASE u = t
      <4>1. rentTokens'[t] = new
        BY <1>1, <3>1, <3>5
      <4>2. ReceivesRent(t, n)
        BY <3>1, <3>2, <3>4, <3>5, <4>1 DEF ReceivesRent
      <4> QED BY <3>1, <4>2
    <3>6. CASE u # t
      BY <1>1, <1>2, <3>1, <3>6
    <3> QED BY <3>5, <3>6
  <2>2. ASSUME NEW a \in Accounts, Claim(a)
        PROVE  \E n \in Nat : ReceivesRent(t, n)
    <3> DEFINE row == rentTokens[t]  left == row.reward_balance - Claimable(a)[t]
    <3>1. rentTokens'[t] = [row EXCEPT !.reward_balance = left]
      BY <2>2 DEF Claim
    <3>2. row \in RentTokenRow
      BY <1>1
    <3>3. /\ rentTokens'[t].total_rent_received = row.total_rent_received
          /\ rentTokens'[t].acc_per_share = row.acc_per_share
      <4> HIDE DEF row, left
      <4> QED BY <3>1, <3>2, Zenon DEF RentTokenRow
    <3> QED BY <1>2, <3>3
  <2> QED BY <1>3, <1>6, <2>1, <2>2 DEF RentNext, IgnoredToken
<1>7. CASE Tick \/ UNCHANGED vars
  BY <1>3, <1>7 DEF Tick, vars, rewardVars
<1> QED BY <1>4, <1>5, <1>6, <1>7 DEF Next

(* A rent r over the total, rounded to d, and the rounding of n shares. *)
LEMMA RentRounding ==
    ASSUME NEW F \in Nat \ {0}, NEW total \in Nat \ {0}, NEW r \in Nat, NEW staked \in Nat,
           NEW n \in Nat, NEW gain \in Int, NEW d \in Nat, d = (r * F) \div total,
           WithinRounding(gain, staked, n, F, d)
    PROVE  F * gain * total
             \in (staked * (F * r - (total - 1)) - (n * (F - 1)) * total)
                   ..(staked * F * r + (n * (F - 1)) * total)
<1> DEFINE rem == (r * F) % total
<1>1. PICK k \in Nat : k = F - 1
  OBVIOUS
<1>2. r * F \in Nat /\ rem \in 0..(total - 1) /\ r * F = total * d + rem
  <2>1. r * F \in Nat
    BY ProductNat
  <2> QED BY <2>1, Division
<1> HIDE DEF rem
<1>3. /\ F * gain \in Int /\ d * staked \in Nat /\ k * n \in Nat
      /\ n * (F - 1) = k * n
  BY <1>1, ProductNat
<1>4. d * staked - k * n <= F * gain /\ F * gain <= d * staked + k * n
  BY <1>1 DEF WithinRounding
<1> DEFINE g == F * gain  ds == d * staked  kn == k * n
<1>5. g \in Int /\ ds \in Nat /\ kn \in Nat /\ ds - kn <= g /\ g <= ds + kn
  BY <1>3, <1>4
<1>6. ds * total - kn * total <= g * total /\ g * total <= ds * total + kn * total
  <2> HIDE DEF g, ds, kn
  <2>1. PICK lo \in Nat, up \in Nat : g = ds - kn + lo /\ g = ds + kn - up
    <3>1. g - (ds - kn) \in Nat /\ ds + kn - g \in Nat
      BY <1>5
    <3>2. g = ds - kn + (g - (ds - kn)) /\ g = ds + kn - (ds + kn - g)
      BY <1>5
    <3> QED BY <3>1, <3>2
  <2>2. lo * total \in Nat /\ up * total \in Nat /\ ds * total \in Nat /\ kn * total \in Nat
    BY <1>5, ProductNat
  <2>3. g * total = ds * total - kn * total + lo * total
    BY <1>5, <2>1
  <2>4. g * total = ds * total + kn * total - up * total
    BY <1>5, <2>1
  <2> QED BY <2>2, <2>3, <2>4
<1>7. /\ staked * (r * F) \in Nat /\ staked * rem \in Nat /\ staked * (total - 1) \in Nat
      /\ staked * rem <= staked * (total - 1)
      /\ kn * total \in Nat
  <2>1. PICK m \in Nat : m = total - 1
    OBVIOUS
  <2>2. rem \in Nat /\ rem <= m
    BY <1>2, <2>1
  <2>3. staked * rem \in Nat /\ staked * m \in Nat /\ staked * rem <= staked * m
    BY <2>2, ProductNat, ProductMonotone
  <2>4. staked * (r * F) \in Nat /\ kn * total \in Nat
    BY <1>2, <1>5, ProductNat
  <2> QED BY <2>1, <2>3, <2>4
<1>8. ds * total = staked * (r * F) - staked * rem
  <2>1. PICK q \in Nat : q = r * F
    BY <1>2
  <2>2. q = total * d + rem /\ rem \in Nat
    BY <1>2, <2>1
  <2>3. (d * staked) * total = staked * (total * d)
    OBVIOUS
  <2>4. total * d = q - rem /\ total * d \in Nat
    BY <2>2, ProductNat
  <2>5. staked * (q - rem) = staked * q - staked * rem
    BY <2>2
  <2> QED BY <2>1, <2>3, <2>4, <2>5
<1>9. /\ staked * (F * r - (total - 1)) = staked * (r * F) - staked * (total - 1)
      /\ staked * F * r = staked * (r * F)
      /\ (n * (F - 1)) * total = kn * total
  <2>1. (n * (F - 1)) * total = kn * total
    BY <1>3
  <2>2. F * r = r * F /\ staked * F * r = staked * (r * F)
    OBVIOUS
  <2>3. PICK q \in Nat : q = r * F
    BY <1>2
  <2>4. staked * (q - (total - 1)) = staked * q - staked * (total - 1)
    OBVIOUS
  <2> QED BY <2>1, <2>2, <2>3, <2>4
<1> DEFINE gt == g * total  dst == ds * total  knt == kn * total
           sr == staked * (r * F)  sm == staked * rem  st == staked * (total - 1)
<1>10. gt \in sr - st - knt .. sr + knt
  <2>1. gt \in Int
    BY <1>5
  <2>2. /\ dst - knt <= gt /\ gt <= dst + knt /\ dst = sr - sm
        /\ sr \in Nat /\ sm \in Nat /\ st \in Nat /\ sm <= st /\ knt \in Nat
    BY <1>6, <1>7, <1>8
  <2> HIDE DEF gt, dst, knt, sr, sm, st
  <2> QED BY <2>1, <2>2
<1> QED BY <1>9, <1>10

(* The body of RentShared for one token, on its numbers. *)
SharedOut(rent, promised, staked, total, rounding) ==
    IF rent = 0 THEN promised \in -1..1
    ELSE PrecisionFactor * promised * total
           \in (staked * (PrecisionFactor * rent - (total - 1)) - rounding * total)
                 ..(staked * PrecisionFactor * rent + rounding * total)

Received(t) == rentTokens'[t].total_rent_received - rentTokens[t].total_rent_received
Promised(t) == SumFunctionOnSet([a \in Accounts |-> Earned(t, a)' - Earned(t, a)], Accounts)
Rounding    == Cardinality(Stakers) * (PrecisionFactor - 1)

(* A step that pays fairly shares out the rent it receives. *)
LEMMA StepShares ==
    ASSUME IndInv, [Next]_vars, config'.init_done = config.init_done, NEW t \in Tokens
    PROVE  SharedOut(Received(t), Promised(t), StakedTotal, stat.stake_amount, Rounding)
<1> DEFINE F    == PrecisionFactor
           acc  == rentTokens[t].acc_per_share
           next == rentTokens'[t].acc_per_share
           held == [a \in Accounts |-> stakes[a].amount]
           gain == [a \in Accounts |-> Earned(t, a)' - Earned(t, a)]
           T    == Stakers
<1>1. /\ acc \in Nat /\ rentTokens[t].total_rent_received \in Nat
      /\ F \in Nat \ {0} /\ IsFiniteSet(Accounts) /\ RamsDao \in Accounts
  <2>1. rentTokens[t] \in RentTokenRow
    BY DEF IndInv, RewardInv, RewardTypes
  <2>2. acc \in Nat /\ rentTokens[t].total_rent_received \in Nat
    BY <2>1 DEF RentTokenRow
  <2>3. F \in Nat \ {0} /\ IsFiniteSet(Accounts) /\ RamsDao \in Accounts
    BY StakeAssumption
  <2> QED BY <2>2, <2>3
<1>2. ASSUME NEW a \in Accounts
      PROVE  /\ stakes[a].amount \in Nat /\ rewards[t][a].claimed \in Nat
             /\ rewards[t][a].unclaimed \in Int /\ rewards[t][a].debt \in Nat
             /\ Share(stakes[a].amount, acc) \in Nat /\ held[a] = stakes[a].amount
             /\ PaidFairly(t, a)
  <2>1. stakes[a].amount \in Nat /\ rewards[t][a] \in RewardRow
    BY <1>2 DEF IndInv, RewardInv, RewardTypes, VaultInv, VaultTypes, StakeRow
  <2>2. Share(stakes[a].amount, acc) \in Nat
    <3> HIDE DEF acc
    <3> QED BY <1>1, <2>1, ShareFacts
  <2>3. PaidFairly(t, a)
    BY <1>2, NextSafe DEF SafeStep
  <2> QED BY <1>2, <2>1, <2>2, <2>3, RewardRowFields
<1>3. PICK r \in Nat : ReceivesRent(t, r)
  BY RentStep
<1>4. Received(t) = r
  BY <1>1, <1>3 DEF Received, ReceivesRent
<1>5. Promised(t) = SumFunctionOnSet(gain, Accounts)
  BY DEF Promised
<1>6. CASE r = 0
  <2> DEFINE none == [a \in Accounts |-> 0]
  <2>1. next = acc
    BY <1>3, <1>6 DEF ReceivesRent
  <2>2. ASSUME NEW a \in Accounts
        PROVE  gain[a] \in -1..1 /\ (a # RamsDao => gain[a] = 0)
    <3>1. Share(stakes[a].amount, next) - Share(stakes[a].amount, acc) = 0
      BY <1>2, <2>1, <2>2
    <3>2. IF a = RamsDao THEN Earned(t, a)' - Earned(t, a) - 0 \in -1..1
                         ELSE Earned(t, a)' - Earned(t, a) - 0 = 0
      BY <1>2, <2>2, <3>1 DEF PaidFairly
    <3>3. gain[a] = Earned(t, a)' - Earned(t, a)
      BY <2>2
    <3>4. Earned(t, a) \in Int
      BY <1>2, <2>2 DEF Earned
    <3> QED BY <3>2, <3>3, <3>4
  <2> HIDE DEF gain
  <2>3. /\ \A a \in Accounts : none[a] \in Int /\ gain[a] \in Int
        /\ \A a \in Accounts : a # RamsDao => gain[a] = none[a]
        /\ \A a \in Accounts : none[a] = 0
    BY <2>2
  <2> HIDE DEF none
  <2>4. SumFunctionOnSet(gain, Accounts)
          = SumFunctionOnSet(none, Accounts) + gain[RamsDao] - none[RamsDao]
    BY <1>1, <2>3, SumUpdate
  <2>5. SumFunctionOnSet(none, Accounts) = 0
    BY <1>1, <2>3, SumZero
  <2>6. Promised(t) \in -1..1
    BY <1>1, <1>5, <2>2, <2>3, <2>4, <2>5
  <2> QED BY <1>4, <1>6, <2>6 DEF SharedOut
<1>7. CASE r # 0
  <2>1. /\ stat.stake_amount \in Nat \ {0} /\ UNCHANGED <<stakes, rewards>>
        /\ next = acc + (r * F) \div stat.stake_amount
    BY <1>3, <1>7 DEF ReceivesRent
  <2>2. PICK d \in Nat : d = (r * F) \div stat.stake_amount
    <3>1. r * F \in Nat
      BY <1>1, ProductNat
    <3> HIDE DEF F
    <3> QED BY <2>1, <3>1, Division
  <2>3. ASSUME NEW a \in Accounts
        PROVE  gain[a] = Share(held[a], acc + d) - Share(held[a], acc)
    <3>1. Share(stakes[a].amount, next) \in Nat
      <4>1. next \in Nat
        BY <1>1, <2>1, <2>2
      <4> HIDE DEF next
      <4> QED BY <1>2, <2>3, <4>1, ShareFacts
    <3>2. Earned(t, a)' = rewards[t][a].claimed + rewards[t][a].unclaimed
                            + Share(stakes[a].amount, next) - rewards[t][a].debt
      BY <2>1 DEF Earned
    <3>3. Earned(t, a) = rewards[t][a].claimed + rewards[t][a].unclaimed
                           + Share(stakes[a].amount, acc) - rewards[t][a].debt
      BY DEF Earned
    <3>4. next = acc + d
      BY <2>1, <2>2
    <3>5. gain[a] = Earned(t, a)' - Earned(t, a)
      BY <2>3
    <3> HIDE DEF gain, acc, next
    <3>6. gain[a] = Share(stakes[a].amount, next) - Share(stakes[a].amount, acc)
      BY <1>2, <2>3, <3>1, <3>2, <3>3, <3>5
    <3> QED BY <1>2, <2>3, <3>4, <3>6
  <2>4. IsRise(gain, held, Accounts, F, acc, d)
    <3> HIDE DEF gain, held, acc
    <3> QED BY <2>3 DEF IsRise, Share
  <2>5. T \in SUBSET Accounts /\ \A a \in Accounts : a \in T <=> held[a] > 0
    BY DEF Stakers
  <2>6. \A a \in Accounts : held[a] \in Nat
    BY <1>2
  <2>7. StakedTotal = SumFunctionOnSet(held, Accounts)
    BY DEF StakedTotal, StakedOf
  <2>8. Rounding = Cardinality(T) * (F - 1)
    BY DEF Rounding
  <2> DEFINE G == SumFunctionOnSet(gain, Accounts)  S == SumFunctionOnSet(held, Accounts)
             N == Cardinality(T)
  <2> HIDE DEF gain, held, acc, T, F
  <2>9. G \in Int /\ S \in Nat /\ N \in Nat /\ WithinRounding(G, S, N, F, d)
    BY <1>1, <2>4, <2>5, <2>6, SharesRise
  <2> HIDE DEF G, S, N
  <2>10. F * G * stat.stake_amount
           \in (S * (F * r - (stat.stake_amount - 1)) - (N * (F - 1)) * stat.stake_amount)
                 ..(S * F * r + (N * (F - 1)) * stat.stake_amount)
    <3>1. PICK total \in Nat \ {0} : total = stat.stake_amount
      BY <2>1
    <3>2. d = (r * F) \div total
      BY <2>2, <3>1
    <3>3. F * G * total \in (S * (F * r - (total - 1)) - (N * (F - 1)) * total)
                              ..(S * F * r + (N * (F - 1)) * total)
      BY <1>1, <2>9, <3>2, RentRounding
    <3> QED BY <3>1, <3>3
  <2>11. Promised(t) = G /\ StakedTotal = S /\ Rounding = N * (F - 1)
    BY <1>5, <2>7, <2>8 DEF G, S, N
  <2> QED BY <1>4, <1>7, <2>10, <2>11 DEF SharedOut, F
<1> QED BY <1>6, <1>7

-----------------------------------------------------------------------------
(* The theorems. *)

(* The inductive invariant holds throughout. *)
THEOREM StakeInvariance == Spec => []IndInv
<1>1. IndInv /\ [Next]_vars => IndInv'
  BY NextSafe DEF SafeStep
<1> QED BY <1>1, InitSafe, PTL DEF Spec

(* Every table holds rows of its type: no amount, stake or loan wraps below zero. *)
THEOREM StakeTypesHold == Spec => []StakeTypeOK
<1>1. IndInv => StakeTypeOK
  BY DEF IndInv, VaultInv, RewardInv, VaultTypes, RewardTypes, StakeTypeOK
<1> QED BY <1>1, StakeInvariance, PTL

(* The divisor of every distribution is the sum of the stakes, whenever the
   migration runs. *)
THEOREM StakesStayTotalled == Spec => []StakesTotalled
<1>1. IndInv => StakesTotalled
  BY DEF IndInv, VaultInv
<1> QED BY <1>1, StakeInvariance, PTL

(* unstaking_amount is the sum of the rows, although ids are given out again. *)
THEOREM UnstakingStaysMatched == Spec => []UnstakingMatchesRows
<1>1. IndInv => UnstakingMatchesRows
  BY DEF IndInv, VaultInv
<1> QED BY <1>1, StakeInvariance, PTL

(* Every stake and every unstake row is backed by V held, save the migrated ones. *)
THEOREM VaultStaysCovered == Spec => []VaultCovered
<1>1. IndInv => VaultCovered
  BY DEF IndInv, VaultInv
<1> QED BY <1>1, StakeInvariance, PTL

(* used_amount is the sum of the loans, and the RAM lent is what left bank.rms. *)
THEOREM LoansStayRecorded == Spec => []LoansRecorded
<1>1. Init => RamConserved
  <2> SUFFICES ASSUME Init PROVE RamConserved
    OBVIOUS
  <2>1. vaultRam = InitialVaultRam /\ stat.used_amount = InitialAmount
    BY DEF Init
  <2> QED BY <2>1 DEF RamConserved
<1>2. IndInv /\ RamConserved /\ [Next]_vars => RamConserved'
  BY RamStep DEF IndInv
<1>3. IndInv /\ RamConserved => LoansRecorded
  BY DEF IndInv, VaultInv, RamConserved, LoansTotalled, LentTotal, LoansRecorded
<1> QED BY <1>1, <1>2, <1>3, StakeInvariance, PTL DEF Spec

(* Between transactions every debt is covered by the share of the stake, and what is
   unclaimed is not negative but for RAMS_DAO. *)
THEOREM StakeDebtStaysCovered == Spec => []StakeDebtCovered
<1>1. IndInv => StakeDebtCovered
  BY DEF IndInv, RewardInv
<1> QED BY <1>1, StakeInvariance, PTL

(* What is left of the tokens sent to the contract, and of what it took over from rambank,
   is what the balance of the rewards and the ignored tokens add up to. *)
LEMMA FundedByInv == IndInv => RewardFunded
<1> SUFFICES ASSUME IndInv PROVE RewardFunded
  OBVIOUS
<1>1. RewardTypes /\ RewardsTotalled /\ TokensHeld
  BY DEF IndInv, RewardInv
<1>2. ASSUME NEW t \in Tokens
      PROVE  rentTokens[t].reward_balance + tokenIgnored[t] >= 0
  <2> DEFINE bank == IF config.init_done /\ BankRentTokens[t].listed
                     THEN BankRentTokens[t].reward_balance ELSE 0
  <2>1. bank \in Nat
    <3>1. BankRentTokens[t] \in RentTokenRow /\ BankRentTokens[t].reward_balance >= 0
      BY MigrationAssumption
    <3>2. BankRentTokens[t].reward_balance \in Nat
      BY <3>1 DEF RentTokenRow
    <3> QED BY <3>2
  <2>2. tokenBalance[t] + bank = rentTokens[t].reward_balance + tokenIgnored[t]
    BY <1>1 DEF TokensHeld
  <2>3. tokenBalance[t] \in Nat
    BY <1>1 DEF RewardTypes
  <2> HIDE DEF bank
  <2> QED BY <2>1, <2>2, <2>3
<1> QED BY <1>1, <1>2 DEF RewardFunded

(* The books of every token agree with the tokens held, and reward_balance falls
   below zero by no more than was sent with memo "ignore". *)
THEOREM RewardsStayFunded == Spec => []RewardFunded
<1> QED BY FundedByInv, StakeInvariance, PTL

(* V leaves only for rows that have waited, the oldest first. *)
THEOREM PaidOnlyAfterExpiry == Spec => PaidAfterExpiry
<1>1. IndInv /\ [Next]_vars =>
        [vBalance' < vBalance =>
           \E a \in Accounts :
              LET gone == {i \in Rows(a) : ~ unstakes'[a][i].open} IN
              /\ vBalance - vBalance' = AmountOf(a, gone)
              /\ \A i \in gone :
                   /\ now >= unstakes[a][i].since + config.unstake_expire_seconds
                   /\ \A j \in Rows(a) \ gone : unstakes[a][j].since >= unstakes[a][i].since]_vars
  <2> SUFFICES ASSUME IndInv, [Next]_vars, vBalance' < vBalance
               PROVE  \E a \in Accounts :
                         LET gone == {i \in Rows(a) : ~ unstakes'[a][i].open} IN
                         /\ vBalance - vBalance' = AmountOf(a, gone)
                         /\ \A i \in gone :
                              /\ now >= unstakes[a][i].since + config.unstake_expire_seconds
                              /\ \A j \in Rows(a) \ gone :
                                   unstakes[a][j].since >= unstakes[a][i].since
    OBVIOUS
  <2>1. VaultInv
    BY DEF IndInv
  <2>2. PICK a \in Accounts : Withdraw(a)
    BY <2>1, PaidOut
  <2> QED BY <2>1, <2>2, WithdrawExpired
<1> QED BY <1>1, StakeInvariance, PTL DEF Spec, PaidAfterExpiry

(* Only a distribution of rent changes what an account earns, and it pays on the
   stake held. *)
THEOREM SettlementIsFair == Spec => PaidOnStakeHeld
<1> DEFINE Fair == config'.init_done = config.init_done =>
                     \A t \in Tokens, a \in Accounts : PaidFairly(t, a)
<1>1. IndInv /\ [Next]_vars => Fair
  BY NextSafe DEF SafeStep
<1>2. IndInv /\ [Next]_vars => [Fair]_vars
  BY <1>1
<1>3. Spec => [][Fair]_vars
  <2> HIDE DEF Fair
  <2> QED BY <1>2, StakeInvariance, PTL DEF Spec
<1> QED BY <1>3 DEF PaidOnStakeHeld, PaidFairly, Fair

(* A rent is promised to the stakers, up to the roundings, and nothing is promised
   without rent. *)
THEOREM RentIsShared == Spec => RentShared
<1>1. IndInv /\ [Next]_vars =>
        [config'.init_done = config.init_done =>
           \A t \in Tokens : SharedOut(Received(t), Promised(t), StakedTotal,
                                       stat.stake_amount, Rounding)]_vars
  BY StepShares
<1> QED BY <1>1, StakeInvariance, PTL
        DEF Spec, RentShared, SharedOut, Received, Promised, StakedTotal, Rounding

=============================================================================
