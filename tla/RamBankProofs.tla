----------------------------- MODULE RamBankProofs -----------------------------
(***************************************************************************)
(* Proofs about the lending contract: the tables keep their types, the     *)
(* totals stay in step with the tables, lent and frozen bytes stay         *)
(* covered, and a settlement pays on the bytes held, for any number of     *)
(* accounts and tokens, any amounts and any precision.                     *)
(***************************************************************************)
EXTENDS RamBank, NumberLemmas

(* The parts of the type invariant that the two halves of a step disturb. *)
LedgerTypes ==
    /\ config \in ConfigRow
    /\ stat \in StatRow
    /\ deposits \in [Accounts -> DepositRow]
    /\ borrows \in [Accounts -> Nat]
    /\ container \in Nat

RewardTypes ==
    /\ rentTokens \in [Tokens -> RentTokenRow]
    /\ rents \in [Tokens -> [Accounts -> Nat]]
    /\ userRewards \in [Tokens -> [Accounts -> UserRewardRow]]
    /\ pool \in [Tokens -> Nat]
    /\ balance \in [Tokens -> Nat]

(* A token that is not listed yet has distributed nothing. *)
UnlistedIdle == \A t \in Tokens : ~ rentTokens[t].listed => rentTokens[t].acc_per_share = 0

(* The strengthening of the safety properties that every step preserves.  The
   properties of the ledger need each other: the container never runs dry
   because loans are covered and the totals are exact, and bytes stay natural
   because frozen bytes are covered; the types of the rewards need DebtCovered. *)
LedgerInv == LedgerTypes /\ LedgerBalanced /\ LoansCovered /\ FrozenCovered
RewardInv == RewardTypes /\ DebtCovered /\ UnlistedIdle /\ RentsTotalled
IndInv == LedgerInv /\ RewardInv

-----------------------------------------------------------------------------
(* Shares and rewards. *)

(* A share is natural and grows with the reward per share. *)
LEMMA ShareFacts ==
    ASSUME NEW bytes \in Nat, NEW acc \in Nat
    PROVE  /\ Share(bytes, acc) \in Nat
           /\ \A more \in Nat : acc <= more => Share(bytes, acc) <= Share(bytes, more)
<1> USE PrecisionAssumption
<1>1. bytes * acc \in Nat
  BY ProductNat
<1>2. ASSUME NEW more \in Nat, acc <= more
      PROVE  Share(bytes, acc) <= Share(bytes, more)
  <2>1. bytes * more \in Nat /\ bytes * acc <= bytes * more
    BY <1>2, ProductNat, ProductMonotone
  <2> QED BY <1>1, <2>1, DivMonotone DEF Share
<1>3. Share(bytes, acc) \in Nat
  BY <1>1, Division DEF Share
<1> QED BY <1>2, <1>3

(* The share of nothing, and of a token that distributed nothing, is nothing. *)
LEMMA ShareZero ==
    ASSUME NEW n \in Nat
    PROVE  Share(0, n) = 0 /\ Share(n, 0) = 0
  BY PrecisionAssumption DEF Share

(* update_reward keeps the row a row and never lowers the reward per share. *)
LEMMA RewardedFacts ==
    ASSUME LedgerTypes, RewardTypes, NEW t \in Tokens, CanReward(t)
    PROVE  /\ Rewarded(t) \in RentTokenRow
           /\ Rewarded(t).listed = rentTokens[t].listed
           /\ Rewarded(t).total_rent_received = rentTokens[t].total_rent_received
           /\ rentTokens[t].acc_per_share <= Rewarded(t).acc_per_share
           /\ Swept(t) \in 0..pool[t]
<1> USE PrecisionAssumption
<1>1. /\ stat.deposited_bytes \in Nat /\ pool[t] \in Nat
      /\ rentTokens[t] \in RentTokenRow
  BY DEF LedgerTypes, RewardTypes, StatRow
<1>2. Swept(t) \in 0..pool[t]
  BY <1>1 DEF Swept
<1>3. Rewards(t) \in Nat
  <2>1. ToInt(Swept(t)) \in Int
    BY <1>1, <1>2 DEF ToInt
  <2> QED BY <2>1 DEF CanReward, Rewards
<1>4. CASE Rewards(t) = 0
  BY <1>1, <1>2, <1>4 DEF Rewarded, RentTokenRow
<1>5. CASE Rewards(t) # 0
  <2>1. stat.deposited_bytes # 0
    <3>1. ToInt(0) = 0
      BY DEF ToInt
    <3> QED BY <3>1, <1>1, <1>5 DEF Rewards, Swept
  <2> DEFINE incr == (Rewards(t) * PrecisionFactor) \div stat.deposited_bytes
  <2>2. incr \in Nat
    BY <1>1, <1>3, <2>1, ProductNat, Division
  <2>3. Rewarded(t) = [rentTokens[t] EXCEPT
            !.acc_per_share = @ + incr,
            !.total_reward = @ + Rewards(t),
            !.reward_balance = @ + Rewards(t)]
    BY <1>5 DEF Rewarded
  <2> DEFINE row == rentTokens[t]
  <2> HIDE DEF incr, row
  <2>4. Rewarded(t) = [row EXCEPT !.acc_per_share = @ + incr,
                                  !.total_reward = @ + Rewards(t),
                                  !.reward_balance = @ + Rewards(t)]
    BY <2>3 DEF row
  <2>5. /\ row \in RentTokenRow /\ row.acc_per_share \in Nat
        /\ row.total_reward + Rewards(t) \in Nat /\ row.reward_balance + Rewards(t) \in Nat
        /\ row.acc_per_share + incr \in Nat
    BY <1>1, <1>3, <2>2 DEF row, RentTokenRow
  <2>6. Rewarded(t) \in RentTokenRow
    BY <2>4, <2>5, Zenon DEF RentTokenRow
  <2>7. /\ Rewarded(t).listed = row.listed
        /\ Rewarded(t).total_rent_received = row.total_rent_received
        /\ Rewarded(t).acc_per_share = row.acc_per_share + incr
    BY <2>4, <2>5 DEF RentTokenRow
  <2>8. row.acc_per_share <= row.acc_per_share + incr
    BY <2>2, <2>5
  <2> QED BY <1>2, <2>6, <2>7, <2>8 DEF row
<1> QED BY <1>4, <1>5

(* update_user_reward never wraps around, and leaves the debt of the new bytes. *)
LEMMA SettledFacts ==
    ASSUME LedgerTypes, RewardTypes, DebtCovered,
           NEW t \in Tokens, CanReward(t), NEW a \in Accounts, NEW bytes \in Nat
    PROVE  /\ Settled(t, a, bytes) \in UserRewardRow
           /\ Settled(t, a, bytes).debt = Share(bytes, Rewarded(t).acc_per_share)
           /\ Settled(t, a, bytes).unclaimed = userRewards[t][a].unclaimed
                + Share(deposits[a].bytes, Rewarded(t).acc_per_share) - userRewards[t][a].debt
<1> DEFINE acc == Rewarded(t).acc_per_share
           old == rentTokens[t].acc_per_share
<1>1. acc \in Nat /\ old \in Nat /\ old <= acc
  BY RewardedFacts DEF RewardTypes, RentTokenRow
<1>2. deposits[a].bytes \in Nat /\ userRewards[t][a] \in UserRewardRow
  BY DEF LedgerTypes, RewardTypes, DepositRow
<1>3. userRewards[t][a].debt <= Share(deposits[a].bytes, old)
  BY DEF DebtCovered
<1> HIDE DEF acc, old
<1>4. /\ Share(deposits[a].bytes, old) <= Share(deposits[a].bytes, acc)
      /\ Share(deposits[a].bytes, old) \in Nat /\ Share(deposits[a].bytes, acc) \in Nat
      /\ Share(bytes, acc) \in Nat
  BY <1>1, <1>2, ShareFacts
<1>5. Settled(t, a, bytes) =
        [debt |-> Share(bytes, acc),
         unclaimed |-> userRewards[t][a].unclaimed
                         + Share(deposits[a].bytes, acc) - userRewards[t][a].debt]
  BY DEF Settled, acc
<1> QED BY <1>2, <1>3, <1>4, <1>5 DEF UserRewardRow, acc

-----------------------------------------------------------------------------
(* The settlement that goes with every change of a deposit. *)

(* What a change of the deposits of the accounts in S must respect for its
   settlement to be right: every other account keeps its bytes. *)
Changes(S, after) ==
    /\ S \subseteq Accounts
    /\ after \in [Accounts -> DepositRow]
    /\ \A a \in Accounts \ S : after[a].bytes = deposits[a].bytes

(* The equation of PaidOnBytesHeld, for one token and one account. *)
PaidFairly(t, a) ==
    Entitled(t, a)' = Entitled(t, a)
      + Share(deposits[a].bytes, rentTokens'[t].acc_per_share)
      - Share(deposits[a].bytes, rentTokens[t].acc_per_share)

(* token_change leaves the tables of the rewards well typed, settles exactly the
   listed tokens of the accounts named, and leaves every other row alone. *)
LEMMA TokenChangeRows ==
    ASSUME LedgerTypes, RewardTypes, DebtCovered,
           NEW S, NEW after, Changes(S, after), TokenChange(S, after),
           NEW t \in Tokens
    PROVE  /\ rentTokens'[t] \in RentTokenRow
           /\ rentTokens'[t].listed = rentTokens[t].listed
           /\ rentTokens'[t].total_rent_received = rentTokens[t].total_rent_received
           /\ rentTokens[t].acc_per_share <= rentTokens'[t].acc_per_share
           /\ ~ rentTokens[t].listed => rentTokens'[t] = rentTokens[t]
           /\ pool'[t] \in Nat /\ balance'[t] \in Nat
           /\ \A a \in Accounts : userRewards'[t][a] =
                IF rentTokens[t].listed /\ a \in S
                THEN Settled(t, a, after[a].bytes) ELSE userRewards[t][a]
<1>1. /\ rentTokens[t] \in RentTokenRow /\ pool[t] \in Nat /\ balance[t] \in Nat
  BY DEF RewardTypes
<1>2. t \in Listed <=> rentTokens[t].listed
  BY DEF Listed
<1>3. CASE rentTokens[t].listed
  <2>1. CanReward(t)
    BY <1>2, <1>3 DEF TokenChange
  <2>2. rentTokens'[t] = Rewarded(t)
    BY <1>2, <1>3 DEF TokenChange
  <2>3. pool'[t] = pool[t] - Swept(t) /\ balance'[t] = balance[t] + Swept(t)
    BY <1>2, <1>3 DEF TokenChange
  <2>4. \A a \in Accounts : userRewards'[t][a] =
                IF a \in S THEN Settled(t, a, after[a].bytes) ELSE userRewards[t][a]
    BY <1>2, <1>3 DEF TokenChange
  <2>5. Swept(t) \in 0..pool[t] /\ Rewarded(t) \in RentTokenRow
        /\ Rewarded(t).listed = rentTokens[t].listed
        /\ Rewarded(t).total_rent_received = rentTokens[t].total_rent_received
        /\ rentTokens[t].acc_per_share <= Rewarded(t).acc_per_share
    BY <2>1, RewardedFacts
  <2>6. pool'[t] \in Nat /\ balance'[t] \in Nat
    BY <1>1, <2>3, <2>5
  <2> QED BY <1>3, <2>2, <2>4, <2>5, <2>6
<1>4. CASE ~ rentTokens[t].listed
  <2>1. /\ rentTokens'[t] = rentTokens[t] /\ pool'[t] = pool[t] /\ balance'[t] = balance[t]
        /\ \A a \in Accounts : userRewards'[t][a] = userRewards[t][a]
    BY <1>2, <1>4 DEF TokenChange
  <2>2. rentTokens[t].acc_per_share \in Nat
    BY <1>1 DEF RentTokenRow
  <2> QED BY <1>1, <1>4, <2>1, <2>2
<1> QED BY <1>3, <1>4

(* A settlement of every account that changes preserves the invariant of the
   rewards and pays on the bytes held. *)
LEMMA TokenChangeSafe ==
    ASSUME LedgerTypes, RewardInv,
           NEW S, NEW after, Changes(S, after), TokenChange(S, after),
           deposits' = after
    PROVE  /\ RewardInv'
           /\ \A t \in Tokens, a \in Accounts : PaidFairly(t, a)
<1> USE DEF RewardInv
<1> DEFINE old(t) == rentTokens[t].acc_per_share
           new(t) == rentTokens'[t].acc_per_share
           Fair(t, a) ==
             userRewards'[t][a].unclaimed + Share(deposits'[a].bytes, new(t))
                 - userRewards'[t][a].debt
               = userRewards[t][a].unclaimed + Share(deposits[a].bytes, old(t))
                   - userRewards[t][a].debt
                   + Share(deposits[a].bytes, new(t)) - Share(deposits[a].bytes, old(t))
           Goal(t, a) ==
             /\ userRewards'[t][a] \in UserRewardRow
             /\ userRewards'[t][a].debt <= Share(deposits'[a].bytes, new(t))
             /\ Fair(t, a)
<1>1. ASSUME NEW t \in Tokens PROVE old(t) \in Nat /\ new(t) \in Nat /\ old(t) <= new(t)
  BY TokenChangeRows DEF RewardTypes, RentTokenRow
<1>2. ASSUME NEW a \in Accounts
      PROVE  deposits[a].bytes \in Nat /\ deposits'[a].bytes \in Nat
  BY DEF Changes, LedgerTypes, DepositRow
<1>3. ASSUME NEW t \in Tokens, NEW a \in Accounts
      PROVE  /\ userRewards'[t][a] \in UserRewardRow
             /\ userRewards'[t][a].debt <= Share(deposits'[a].bytes, new(t))
             /\ PaidFairly(t, a)
  <2> DEFINE held == deposits[a].bytes  holds == deposits'[a].bytes
  <2>1. /\ userRewards[t][a] \in UserRewardRow
        /\ userRewards[t][a].debt \in Nat /\ userRewards[t][a].unclaimed \in Nat
        /\ userRewards[t][a].debt <= Share(held, old(t))
    BY DEF RewardTypes, UserRewardRow, DebtCovered
  <2>2. /\ Share(held, old(t)) \in Nat /\ Share(held, new(t)) \in Nat
        /\ Share(holds, new(t)) \in Nat /\ Share(holds, old(t)) \in Nat
        /\ Share(held, old(t)) <= Share(held, new(t))
    BY <1>1, <1>2, ShareFacts
  <2>3. SUFFICES Goal(t, a)
    BY DEF PaidFairly, Entitled, Share
  <2>4. CASE rentTokens[t].listed /\ a \in S
    <3>1. CanReward(t) /\ rentTokens'[t] = Rewarded(t)
      BY <2>4 DEF TokenChange, Listed
    <3>2. userRewards'[t][a] = Settled(t, a, holds)
      BY <2>4, TokenChangeRows
    <3>3. /\ userRewards'[t][a] \in UserRewardRow
          /\ userRewards'[t][a].debt = Share(holds, new(t))
          /\ userRewards'[t][a].unclaimed = userRewards[t][a].unclaimed
               + Share(held, new(t)) - userRewards[t][a].debt
      BY <1>2, <3>1, <3>2, SettledFacts
    <3> HIDE DEF old, new
    <3> QED BY <2>1, <2>2, <3>3
  <2>5. CASE rentTokens[t].listed /\ a \notin S
    <3>1. userRewards'[t][a] = userRewards[t][a] /\ holds = held
      BY <2>5, TokenChangeRows DEF Changes
    <3> HIDE DEF old, new
    <3> QED BY <2>1, <2>2, <3>1
  <2>6. CASE ~ rentTokens[t].listed
    <3>1. userRewards'[t][a] = userRewards[t][a] /\ new(t) = old(t) /\ old(t) = 0
      BY <2>6, TokenChangeRows DEF UnlistedIdle
    <3>2. Share(held, new(t)) = 0 /\ Share(holds, new(t)) = 0
      BY <1>2, <3>1, ShareZero
    <3> HIDE DEF old, new
    <3> QED BY <2>1, <2>2, <3>1, <3>2
  <2> QED BY <2>4, <2>5, <2>6
<1>4. RewardTypes'
  <2>1. rentTokens' \in [Tokens -> RentTokenRow]
    BY TokenChangeRows DEF TokenChange
  <2>2. rents' \in [Tokens -> [Accounts -> Nat]]
    BY DEF TokenChange, RewardTypes
  <2>3. userRewards' \in [Tokens -> [Accounts -> UserRewardRow]]
    BY <1>3 DEF TokenChange
  <2>4. pool' \in [Tokens -> Nat] /\ balance' \in [Tokens -> Nat]
    BY TokenChangeRows DEF TokenChange
  <2> QED BY <2>1, <2>2, <2>3, <2>4 DEF RewardTypes
<1>5. DebtCovered'
  BY <1>3 DEF DebtCovered, Share
<1>6. UnlistedIdle'
  BY TokenChangeRows DEF UnlistedIdle
<1>7. RentsTotalled'
  BY TokenChangeRows DEF RentsTotalled, TokenChange
<1> QED BY <1>3, <1>4, <1>5, <1>6, <1>7

-----------------------------------------------------------------------------
(* Sums over the tables of the ledger. *)

(* The bytes that the deposits table would total after a step. *)
DepositsTotal == SumFunctionOnSet(DepositBytes, Accounts)
BorrowsTotal == SumFunctionOnSet(borrows, Accounts)

(* The total of the deposits changes by as much as the one row that changes. *)
LEMMA DepositsTotalStep ==
    ASSUME LedgerTypes, deposits' \in [Accounts -> DepositRow],
           NEW a \in Accounts,
           \A b \in Accounts \ {a} : deposits'[b].bytes = deposits[b].bytes
    PROVE  DepositsTotal' = DepositsTotal + deposits'[a].bytes - deposits[a].bytes
<1> DEFINE f == [b \in Accounts |-> deposits[b].bytes]
           g == [b \in Accounts |-> deposits'[b].bytes]
<1>1. \A b \in Accounts : f[b] \in Int /\ g[b] \in Int
  BY DEF LedgerTypes, DepositRow
<1>2. \A b \in Accounts : b # a => g[b] = f[b]
  OBVIOUS
<1>3. SumFunctionOnSet(g, Accounts) = SumFunctionOnSet(f, Accounts) + g[a] - f[a]
  <2> HIDE DEF f, g
  <2> QED BY <1>1, <1>2, AccountsAssumption, SumUpdate
<1> QED BY <1>3 DEF DepositsTotal, DepositBytes

(* A transfer between two accounts leaves the total of the deposits as it was. *)
LEMMA DepositsTotalMove ==
    ASSUME LedgerTypes, deposits' \in [Accounts -> DepositRow],
           NEW a \in Accounts, NEW c \in Accounts, a # c,
           \A b \in Accounts \ {a, c} : deposits'[b].bytes = deposits[b].bytes,
           deposits'[a].bytes + deposits'[c].bytes = deposits[a].bytes + deposits[c].bytes
    PROVE  DepositsTotal' = DepositsTotal
<1> DEFINE f == [b \in Accounts |-> deposits[b].bytes]
           g == [b \in Accounts |-> deposits'[b].bytes]
           h == [b \in Accounts |-> IF b = a THEN deposits'[a].bytes ELSE deposits[b].bytes]
<1>1. \A b \in Accounts : f[b] \in Int /\ g[b] \in Int /\ h[b] \in Int
  BY DEF LedgerTypes, DepositRow
<1>2. /\ \A b \in Accounts : b # a => h[b] = f[b]
      /\ \A b \in Accounts : b # c => g[b] = h[b]
      /\ h[a] = g[a] /\ h[c] = f[c] /\ g[a] + g[c] = f[a] + f[c]
  OBVIOUS
<1>3. SumFunctionOnSet(f, Accounts) \in Int
  BY <1>1, AccountsAssumption, SumInt
<1>4. SumFunctionOnSet(g, Accounts) = SumFunctionOnSet(f, Accounts)
  <2> HIDE DEF f, g, h
  <2>1. SumFunctionOnSet(h, Accounts) = SumFunctionOnSet(f, Accounts) + h[a] - f[a]
    BY <1>1, <1>2, AccountsAssumption, SumUpdate
  <2>2. SumFunctionOnSet(g, Accounts) = SumFunctionOnSet(h, Accounts) + g[c] - h[c]
    BY <1>1, <1>2, AccountsAssumption, SumUpdate
  <2> QED BY <1>1, <1>2, <1>3, <2>1, <2>2
<1> QED BY <1>4 DEF DepositsTotal, DepositBytes

(* The total of the loans changes by as much as the one row that changes. *)
LEMMA BorrowsTotalStep ==
    ASSUME LedgerTypes, NEW a \in Accounts, NEW n \in Nat,
           borrows' = [borrows EXCEPT ![a] = n]
    PROVE  BorrowsTotal' = BorrowsTotal + n - borrows[a]
<1> DEFINE f == borrows  g == borrows'
<1>1. \A b \in Accounts : f[b] \in Int /\ g[b] \in Int
  BY DEF LedgerTypes
<1>2. g[a] = n /\ \A b \in Accounts : b # a => g[b] = f[b]
  BY DEF LedgerTypes
<1>3. SumFunctionOnSet(g, Accounts) = SumFunctionOnSet(f, Accounts) + g[a] - f[a]
  <2> HIDE DEF f, g
  <2> QED BY <1>1, <1>2, AccountsAssumption, SumUpdate
<1> QED BY <1>2, <1>3 DEF BorrowsTotal

(* A borrower owes no more than all borrowers together. *)
LEMMA OneBorrower ==
    ASSUME LedgerTypes, NEW a \in Accounts
    PROVE  borrows[a] <= BorrowsTotal
  BY AccountsAssumption, SumAtLeast DEF LedgerTypes, BorrowsTotal

(* The invariant of the ledger, with the totals named. *)
LEMMA LedgerTotals ==
    ASSUME LedgerInv
    PROVE  /\ DepositsTotal = stat.deposited_bytes /\ BorrowsTotal = stat.used_bytes
           /\ container = stat.deposited_bytes - stat.used_bytes
           /\ stat.used_bytes <= stat.deposited_bytes
           /\ stat.used_bytes \in Nat /\ stat.deposited_bytes \in Nat /\ container \in Nat
           /\ stat = [deposited_bytes |-> stat.deposited_bytes, used_bytes |-> stat.used_bytes]
           /\ \A a \in Accounts : /\ deposits[a] \in DepositRow
                                  /\ deposits[a].bytes \in Nat
                                  /\ deposits[a].frozen_bytes \in Nat
                                  /\ deposits[a].frozen_bytes <= deposits[a].bytes
                                  /\ borrows[a] \in Nat /\ borrows[a] <= stat.used_bytes
  BY OneBorrower DEF LedgerInv, LedgerTypes, LedgerBalanced, LoansCovered, FrozenCovered,
                     DepositsTotal, BorrowsTotal, StatRow, DepositRow

-----------------------------------------------------------------------------
(* Every action preserves the invariant and pays on the bytes held. *)

Fair == \A t \in Tokens, a \in Accounts : PaidFairly(t, a)

(* Nothing about rewards happens while the bytes of the accounts stay. *)
LEMMA RewardsUnchanged ==
    ASSUME LedgerTypes, RewardInv, UNCHANGED rewardVars,
           \A a \in Accounts : deposits'[a].bytes = deposits[a].bytes
    PROVE  RewardInv' /\ Fair
<1>1. RewardTypes' /\ UnlistedIdle' /\ RentsTotalled'
  BY DEF RewardInv, rewardVars, RewardTypes, UnlistedIdle, RentsTotalled
<1>2. DebtCovered'
  BY DEF RewardInv, rewardVars, DebtCovered, Share
<1>3. ASSUME NEW t \in Tokens, NEW a \in Accounts PROVE PaidFairly(t, a)
  <2>1. /\ userRewards[t][a].debt \in Nat /\ userRewards[t][a].unclaimed \in Nat
        /\ rentTokens[t].acc_per_share \in Nat /\ deposits[a].bytes \in Nat
    BY DEF RewardInv, RewardTypes, UserRewardRow, RentTokenRow, LedgerTypes, DepositRow
  <2>2. Share(deposits[a].bytes, rentTokens[t].acc_per_share) \in Nat
    BY <2>1, ShareFacts
  <2>3. Entitled(t, a)' = Entitled(t, a) /\ Entitled(t, a) \in Int
    BY <2>1, <2>2 DEF rewardVars, Entitled, Share
  <2>4. rentTokens' = rentTokens
    BY DEF rewardVars
  <2> QED BY <2>2, <2>3, <2>4 DEF PaidFairly
<1> QED BY <1>1, <1>2, <1>3 DEF RewardInv, Fair

(* A fee is a part of the amount. *)
LEMMA FeeFacts ==
    ASSUME NEW n \in Nat, NEW ratio \in Ratio
    PROVE  Fee(n, ratio) \in 0..n
<1>1. ratio \in Nat /\ ratio <= RatioPrecision /\ RatioPrecision \in Nat \ {0}
  BY PrecisionAssumption DEF Ratio
<1> QED BY <1>1, PartAtMost DEF Fee

(* do_deposit_ram preserves the invariant and settles fairly. *)
LEMMA DepositRamSafe ==
    ASSUME IndInv, NEW owner \in Accounts, NEW amount \in Amounts, DepositRam(owner, amount)
    PROVE  IndInv' /\ Fair
<1> DEFINE kept == amount - Fee(amount, config.deposit_fee_ratio)
           after == [deposits EXCEPT ![owner].bytes = @ + kept]
<1>1. LedgerInv /\ LedgerTypes /\ RewardInv
  BY DEF IndInv, LedgerInv
<1>2. /\ deposits' = after /\ TokenChange({owner}, after)
      /\ stat' = [stat EXCEPT !.deposited_bytes = @ + kept]
      /\ container' = container + kept
      /\ UNCHANGED <<config, borrows>>
  BY DEF DepositRam
<1>3. kept \in Nat
  <2>1. amount \in Nat /\ config.deposit_fee_ratio \in Ratio
    BY <1>1, BoundsAssumption DEF LedgerTypes, ConfigRow
  <2> QED BY <2>1, FeeFacts
<1> HIDE DEF kept
<1>4. /\ after \in [Accounts -> DepositRow]
      /\ after[owner].bytes = deposits[owner].bytes + kept
      /\ \A b \in Accounts : after[b].frozen_bytes = deposits[b].frozen_bytes
      /\ \A b \in Accounts \ {owner} : after[b].bytes = deposits[b].bytes
  BY <1>1, <1>3, LedgerTotals DEF LedgerTypes, DepositRow
<1> HIDE DEF after
<1>5. RewardInv' /\ Fair
  <2>1. Changes({owner}, after)
    BY <1>4 DEF Changes
  <2> QED BY <1>1, <1>2, <2>1, TokenChangeSafe DEF Fair
<1>6. DepositsTotal' = DepositsTotal + kept /\ BorrowsTotal' = BorrowsTotal
  <2>1. DepositsTotal' = DepositsTotal + after[owner].bytes - deposits[owner].bytes
    BY <1>1, <1>2, <1>4, DepositsTotalStep
  <2>2. DepositsTotal \in Nat /\ deposits[owner].bytes \in Nat
    BY <1>1, LedgerTotals
  <2> QED BY <1>2, <1>3, <1>4, <2>1, <2>2 DEF BorrowsTotal
<1>7. /\ stat' \in StatRow
      /\ stat'.deposited_bytes = stat.deposited_bytes + kept
      /\ stat'.used_bytes = stat.used_bytes
  BY <1>1, <1>2, <1>3, LedgerTotals DEF StatRow
<1>8. LedgerTypes'
  BY <1>1, <1>2, <1>3, <1>4, <1>7, LedgerTotals DEF LedgerTypes
<1>9. LedgerBalanced' /\ LoansCovered'
  BY <1>1, <1>2, <1>3, <1>6, <1>7, LedgerTotals
     DEF LedgerBalanced, LoansCovered, DepositsTotal, BorrowsTotal
<1>10. FrozenCovered'
  BY <1>1, <1>2, <1>3, <1>4, LedgerTotals DEF FrozenCovered
<1> QED BY <1>5, <1>8, <1>9, <1>10 DEF IndInv, LedgerInv

(* withdraw preserves the invariant and settles fairly. *)
LEMMA WithdrawSafe ==
    ASSUME IndInv, NEW owner \in Accounts, NEW amount \in Amounts, Withdraw(owner, amount)
    PROVE  IndInv' /\ Fair
<1> DEFINE after == [deposits EXCEPT ![owner].bytes = @ - amount]
<1>1. LedgerInv /\ LedgerTypes /\ RewardInv /\ amount \in Nat
  BY BoundsAssumption DEF IndInv, LedgerInv
<1>2. /\ deposits' = after /\ TokenChange({owner}, after)
      /\ stat' = [stat EXCEPT !.deposited_bytes = @ - amount]
      /\ container' = container - amount
      /\ UNCHANGED <<config, borrows>>
  BY DEF Withdraw
<1>3. /\ amount <= deposits[owner].bytes - deposits[owner].frozen_bytes
      /\ stat.deposited_bytes - amount >= stat.used_bytes
  BY DEF Withdraw, Available, Liquid
<1>4. /\ after \in [Accounts -> DepositRow]
      /\ after[owner].bytes = deposits[owner].bytes - amount
      /\ \A b \in Accounts : after[b].frozen_bytes = deposits[b].frozen_bytes
      /\ \A b \in Accounts \ {owner} : after[b].bytes = deposits[b].bytes
  BY <1>1, <1>3, LedgerTotals DEF LedgerTypes, DepositRow
<1> HIDE DEF after
<1>5. RewardInv' /\ Fair
  <2>1. Changes({owner}, after)
    BY <1>4 DEF Changes
  <2> QED BY <1>1, <1>2, <2>1, TokenChangeSafe DEF Fair
<1>6. DepositsTotal' = DepositsTotal - amount /\ BorrowsTotal' = BorrowsTotal
  <2>1. DepositsTotal' = DepositsTotal + after[owner].bytes - deposits[owner].bytes
    BY <1>1, <1>2, <1>4, DepositsTotalStep
  <2>2. DepositsTotal \in Nat /\ deposits[owner].bytes \in Nat
    BY <1>1, LedgerTotals
  <2> QED BY <1>1, <1>2, <1>4, <2>1, <2>2 DEF BorrowsTotal
<1>7. /\ stat' \in StatRow
      /\ stat'.deposited_bytes = stat.deposited_bytes - amount
      /\ stat'.used_bytes = stat.used_bytes
  BY <1>1, <1>2, <1>3, LedgerTotals DEF StatRow
<1>8. LedgerTypes'
  BY <1>1, <1>2, <1>3, <1>4, <1>7, LedgerTotals DEF LedgerTypes
<1>9. LedgerBalanced' /\ LoansCovered'
  BY <1>1, <1>2, <1>3, <1>6, <1>7, LedgerTotals
     DEF LedgerBalanced, LoansCovered, DepositsTotal, BorrowsTotal
<1>10. FrozenCovered'
  BY <1>1, <1>2, <1>3, <1>4, LedgerTotals DEF FrozenCovered
<1> QED BY <1>5, <1>8, <1>9, <1>10 DEF IndInv, LedgerInv

(* The body of transfer preserves the invariant and settles fairly. *)
LEMMA MoveBytesSafe ==
    ASSUME IndInv, NEW from \in Accounts, NEW to \in Accounts, NEW amount \in Amounts,
           MoveBytes(from, to, amount)
    PROVE  IndInv' /\ Fair
<1> DEFINE after == Moved(from, to, amount)
<1>1. LedgerInv /\ LedgerTypes /\ RewardInv /\ amount \in Nat
  BY BoundsAssumption DEF IndInv, LedgerInv
<1>2. /\ deposits' = after /\ TokenChange({from, to}, after)
      /\ UNCHANGED <<config, stat, borrows, container>>
      /\ from # to
  BY DEF MoveBytes
<1>3. amount <= deposits[from].bytes - deposits[from].frozen_bytes
  BY DEF MoveBytes, Available
<1>4. /\ after \in [Accounts -> DepositRow]
      /\ after[from].bytes = deposits[from].bytes - amount
      /\ after[to].bytes = deposits[to].bytes + amount
      /\ \A b \in Accounts : after[b].frozen_bytes = deposits[b].frozen_bytes
      /\ \A b \in Accounts \ {from, to} : after[b].bytes = deposits[b].bytes
  <2>1. /\ deposits[from] \in DepositRow /\ deposits[to] \in DepositRow
        /\ deposits[from].bytes \in Nat /\ deposits[from].frozen_bytes \in Nat
        /\ deposits[to].bytes \in Nat /\ deposits \in [Accounts -> DepositRow]
    BY <1>1, LedgerTotals DEF LedgerTypes
  <2> DEFINE less == [deposits[from] EXCEPT !.bytes = deposits[from].bytes - amount]
             more == [deposits[to] EXCEPT !.bytes = deposits[to].bytes + amount]
  <2>2. after = [deposits EXCEPT ![from] = less, ![to] = more]
    BY <1>2, <2>1 DEF Moved
  <2>3. /\ less \in DepositRow /\ less.bytes = deposits[from].bytes - amount
        /\ less.frozen_bytes = deposits[from].frozen_bytes
    BY <1>1, <1>3, <2>1 DEF DepositRow
  <2>4. /\ more \in DepositRow /\ more.bytes = deposits[to].bytes + amount
        /\ more.frozen_bytes = deposits[to].frozen_bytes
    BY <1>1, <2>1 DEF DepositRow
  <2> HIDE DEF after, less, more
  <2>5. /\ after \in [Accounts -> DepositRow] /\ after[from] = less /\ after[to] = more
        /\ \A b \in Accounts \ {from, to} : after[b] = deposits[b]
    BY <1>2, <2>1, <2>2, <2>3, <2>4
  <2> QED BY <2>3, <2>4, <2>5
<1> HIDE DEF after
<1>5. RewardInv' /\ Fair
  <2>1. Changes({from, to}, after)
    BY <1>4 DEF Changes
  <2> QED BY <1>1, <1>2, <2>1, TokenChangeSafe DEF Fair
<1>6. DepositsTotal' = DepositsTotal /\ BorrowsTotal' = BorrowsTotal
  <2>1. deposits'[from].bytes + deposits'[to].bytes
          = deposits[from].bytes + deposits[to].bytes
    BY <1>1, <1>2, <1>4, LedgerTotals
  <2>2. DepositsTotal' = DepositsTotal
    BY <1>1, <1>2, <1>4, <2>1, DepositsTotalMove
  <2> QED BY <1>2, <2>2 DEF BorrowsTotal
<1>7. LedgerTypes'
  BY <1>1, <1>2, <1>4 DEF LedgerTypes
<1>8. LedgerBalanced' /\ LoansCovered'
  BY <1>1, <1>2, <1>6, LedgerTotals
     DEF LedgerBalanced, LoansCovered, DepositsTotal, BorrowsTotal
<1>9. FrozenCovered'
  BY <1>1, <1>2, <1>3, <1>4, LedgerTotals DEF FrozenCovered
<1> QED BY <1>5, <1>7, <1>8, <1>9 DEF IndInv, LedgerInv

(* Loans and their repayment move bytes between the borrows table, stat and the
   container. *)
LEMMA LoanSafe ==
    ASSUME IndInv, NEW account \in Accounts, NEW change \in Int,
           borrows' = [borrows EXCEPT ![account] = @ + change],
           stat' = [stat EXCEPT !.used_bytes = @ + change],
           container' = container - change,
           UNCHANGED <<config, deposits, rewardVars>>,
           0 <= borrows[account] + change,
           stat.used_bytes + change <= stat.deposited_bytes
    PROVE  IndInv' /\ Fair
<1>1. LedgerInv /\ LedgerTypes /\ RewardInv
  BY DEF IndInv, LedgerInv
<1>2. borrows[account] + change \in Nat
  BY <1>1, LedgerTotals
<1>3. BorrowsTotal' = BorrowsTotal + change /\ DepositsTotal' = DepositsTotal
  <2>1. BorrowsTotal' = BorrowsTotal + (borrows[account] + change) - borrows[account]
    BY <1>1, <1>2, BorrowsTotalStep
  <2>2. BorrowsTotal \in Nat /\ borrows[account] \in Nat
    BY <1>1, LedgerTotals
  <2> QED BY <2>1, <2>2 DEF DepositsTotal, DepositBytes
<1>4. stat.used_bytes + change \in Nat
  BY <1>1, <1>2, LedgerTotals
<1>5. /\ stat' \in StatRow
      /\ stat'.used_bytes = stat.used_bytes + change
      /\ stat'.deposited_bytes = stat.deposited_bytes
  BY <1>1, <1>4, LedgerTotals DEF StatRow
<1>6. container' \in Nat
  BY <1>1, LedgerTotals
<1>7. borrows' \in [Accounts -> Nat]
  BY <1>1, <1>2 DEF LedgerTypes
<1>8. LedgerTypes'
  BY <1>1, <1>5, <1>6, <1>7 DEF LedgerTypes
<1>9. LedgerBalanced' /\ LoansCovered'
  BY <1>1, <1>3, <1>5, LedgerTotals
     DEF LedgerBalanced, LoansCovered, DepositsTotal, BorrowsTotal
<1>10. FrozenCovered'
  BY <1>1 DEF LedgerInv, FrozenCovered
<1>11. RewardInv' /\ Fair
  BY <1>1, RewardsUnchanged
<1> QED BY <1>8, <1>9, <1>10, <1>11 DEF IndInv, LedgerInv

(* borrow preserves the invariant: a loan is a move of the container. *)
LEMMA BorrowSafe ==
    ASSUME IndInv, NEW account \in Accounts, NEW amount \in Amounts, Borrow(account, amount)
    PROVE  IndInv' /\ Fair
<1>1. amount \in Int /\ 0 <= borrows[account] + amount
  BY BoundsAssumption, LedgerTotals DEF IndInv
<1>2. /\ borrows' = [borrows EXCEPT ![account] = @ + amount]
      /\ stat' = [stat EXCEPT !.used_bytes = @ + amount]
      /\ container' = container - amount
      /\ UNCHANGED <<config, deposits, rewardVars>>
      /\ stat.used_bytes + amount <= stat.deposited_bytes
  BY DEF Borrow
<1> QED BY <1>1, <1>2, LoanSafe

(* do_repay_ram preserves the invariant: what is repaid never exceeds the loan. *)
LEMMA RepayRamSafe ==
    ASSUME IndInv, NEW account \in Accounts, NEW amount \in Amounts, RepayRam(account, amount)
    PROVE  IndInv' /\ Fair
<1>1. /\ amount \in Nat /\ borrows[account] \in Nat
      /\ stat.used_bytes \in Nat /\ stat.deposited_bytes \in Nat /\ container \in Nat
      /\ stat.used_bytes <= stat.deposited_bytes
  BY BoundsAssumption, LedgerTotals DEF IndInv
<1> DEFINE repaid == IF amount > borrows[account] THEN borrows[account] ELSE amount
           change == 0 - repaid
<1>2. change \in Int /\ change <= 0 /\ 0 <= borrows[account] + change
  BY <1>1
<1>3. /\ borrows[account] - repaid = borrows[account] + change
      /\ stat.used_bytes - repaid = stat.used_bytes + change
      /\ container + repaid = container - change
  BY <1>1
<1>4. /\ borrows' = [borrows EXCEPT ![account] = borrows[account] - repaid]
      /\ stat' = [stat EXCEPT !.used_bytes = stat.used_bytes - repaid]
      /\ container' = container + repaid
      /\ UNCHANGED <<config, deposits, rewardVars>>
  BY DEF RepayRam
<1> HIDE DEF repaid, change
<1>5. stat.used_bytes + change <= stat.deposited_bytes
  BY <1>1, <1>2
<1>6. /\ borrows' = [borrows EXCEPT ![account] = @ + change]
      /\ stat' = [stat EXCEPT !.used_bytes = @ + change]
      /\ container' = container - change
  BY <1>3, <1>4
<1> QED BY <1>2, <1>4, <1>5, <1>6, LoanSafe

(* Freezing and unfreezing, of any accounts, moves no bytes and pays nothing. *)
LEMMA FrozenOnlySafe ==
    ASSUME IndInv, deposits' \in [Accounts -> DepositRow],
           \A b \in Accounts : deposits'[b].bytes = deposits[b].bytes,
           \A b \in Accounts : deposits'[b].frozen_bytes <= deposits'[b].bytes,
           UNCHANGED <<config, stat, borrows, container, rewardVars>>
    PROVE  IndInv' /\ Fair
<1>1. LedgerInv /\ LedgerTypes /\ RewardInv
  BY DEF IndInv, LedgerInv
<1>2. DepositBytes' = DepositBytes
  BY DEF DepositBytes
<1>3. LedgerTypes' /\ LedgerBalanced' /\ LoansCovered' /\ FrozenCovered'
  BY <1>1, <1>2 DEF LedgerInv, LedgerTypes, LedgerBalanced, LoansCovered, FrozenCovered
<1>4. RewardInv' /\ Fair
  BY <1>1, RewardsUnchanged
<1> QED BY <1>3, <1>4 DEF IndInv, LedgerInv

(* Freezing and unfreezing change frozen_bytes of one account only. *)
LEMMA FreezingSafe ==
    ASSUME IndInv, NEW owner \in Accounts, NEW frozen \in Nat,
           frozen <= deposits[owner].bytes,
           deposits' = [deposits EXCEPT ![owner].frozen_bytes = frozen],
           UNCHANGED <<config, stat, borrows, container, rewardVars>>
    PROVE  IndInv' /\ Fair
<1>1. /\ deposits' \in [Accounts -> DepositRow]
      /\ \A b \in Accounts : deposits'[b].bytes = deposits[b].bytes
      /\ \A b \in Accounts : deposits'[b].frozen_bytes <= deposits'[b].bytes
  BY LedgerTotals DEF IndInv, LedgerInv, LedgerTypes, DepositRow
<1> QED BY <1>1, FrozenOnlySafe

(* freeze preserves the invariant. *)
LEMMA FreezeSafe ==
    ASSUME IndInv, NEW owner \in Accounts, NEW amount \in Amounts, Freeze(owner, amount)
    PROVE  IndInv' /\ Fair
<1> DEFINE frozen == deposits[owner].frozen_bytes + amount
<1>1. frozen \in Nat /\ frozen <= deposits[owner].bytes
  BY BoundsAssumption, LedgerTotals DEF IndInv, Freeze, CanFreeze, Available
<1>2. /\ deposits' = [deposits EXCEPT ![owner].frozen_bytes = frozen]
      /\ UNCHANGED <<config, stat, borrows, container, rewardVars>>
  BY DEF Freeze, Frozen
<1> HIDE DEF frozen
<1> QED BY <1>1, <1>2, FreezingSafe

(* unfreeze preserves the invariant. *)
LEMMA UnfreezeSafe ==
    ASSUME IndInv, NEW owner \in Accounts, NEW amount \in Amounts, Unfreeze(owner, amount)
    PROVE  IndInv' /\ Fair
<1> DEFINE frozen == deposits[owner].frozen_bytes - amount
<1>1. frozen \in Nat /\ frozen <= deposits[owner].bytes
  BY BoundsAssumption, LedgerTotals DEF IndInv, Unfreeze, CanUnfreeze
<1>2. /\ deposits' = [deposits EXCEPT ![owner].frozen_bytes = frozen]
      /\ UNCHANGED <<config, stat, borrows, container, rewardVars>>
  BY DEF Unfreeze, Unfrozen
<1> HIDE DEF frozen
<1> QED BY <1>1, <1>2, FreezingSafe

(* do_deposit_rent preserves the invariant: the rents row and the total of the
   token grow alike, and the sweep that precedes it never lowers a share. *)
LEMMA DepositRentSafe ==
    ASSUME IndInv, NEW t \in Tokens, NEW borrower \in Accounts, NEW amount \in Rents,
           DepositRent(t, borrower, amount)
    PROVE  IndInv' /\ Fair
<1> DEFINE dao == (amount * config.reward_dao_ratio) \div RatioPrecision
           row == Rewarded(t)
<1>1. LedgerInv /\ LedgerTypes /\ RewardInv /\ RewardTypes /\ amount \in Nat
  BY BoundsAssumption DEF IndInv, LedgerInv, RewardInv
<1>2. /\ rentTokens[t].listed
      /\ CanReward(t)
      /\ rentTokens' = [rentTokens EXCEPT
                          ![t] = [row EXCEPT !.total_rent_received = @ + amount]]
      /\ rents' = [rents EXCEPT ![t][borrower] = @ + amount]
      /\ pool' = [pool EXCEPT ![t] = @ - Swept(t) + (amount - dao)]
      /\ balance' = [balance EXCEPT ![t] = @ + Swept(t)]
      /\ UNCHANGED <<config, ledgerVars, userRewards>>
  BY DEF DepositRent, RentPaid
<1>3. /\ row \in RentTokenRow
      /\ row.listed = rentTokens[t].listed
      /\ row.total_rent_received = rentTokens[t].total_rent_received
      /\ rentTokens[t].acc_per_share <= row.acc_per_share
      /\ Swept(t) \in 0..pool[t]
  BY <1>1, <1>2, RewardedFacts
<1>4. dao \in 0..amount
  <2>1. config.reward_dao_ratio \in Ratio
    BY <1>1 DEF LedgerTypes, ConfigRow
  <2> QED BY <1>1, <2>1, FeeFacts DEF Fee
<1> HIDE DEF dao, row
<1>5. /\ row.total_rent_received \in Nat /\ row.acc_per_share \in Nat
      /\ pool[t] \in Nat /\ balance[t] \in Nat /\ rents[t] \in [Accounts -> Nat]
      /\ rents \in [Tokens -> [Accounts -> Nat]]
  BY <1>1, <1>3 DEF RewardTypes, RentTokenRow
<1> DEFINE now == [row EXCEPT !.total_rent_received = @ + amount]
<1>6. /\ now \in RentTokenRow /\ now.listed = row.listed
      /\ now.acc_per_share = row.acc_per_share
      /\ now.total_rent_received = row.total_rent_received + amount
  <2>1. row.total_rent_received + amount \in Nat
    BY <1>1, <1>5
  <2>2. now \in RentTokenRow
    BY <1>3, <2>1, Zenon DEF RentTokenRow
  <2> QED BY <1>3, <2>2 DEF RentTokenRow
<1>7. rentTokens' = [rentTokens EXCEPT ![t] = now]
  BY <1>2
<1> HIDE DEF now
<1>8. /\ rentTokens'[t] = now
      /\ \A u \in Tokens \ {t} : rentTokens'[u] = rentTokens[u] /\ rents'[u] = rents[u]
      /\ rentTokens' \in [Tokens -> RentTokenRow]
  BY <1>1, <1>2, <1>5, <1>6, <1>7 DEF RewardTypes
<1>9. RewardTypes'
  <2>1. rents' \in [Tokens -> [Accounts -> Nat]]
    BY <1>1, <1>2, <1>5
  <2>2. pool[t] - Swept(t) + (amount - dao) \in Nat /\ balance[t] + Swept(t) \in Nat
    BY <1>1, <1>3, <1>4, <1>5
  <2>3. pool' \in [Tokens -> Nat] /\ balance' \in [Tokens -> Nat]
    BY <1>1, <1>2, <2>2 DEF RewardTypes
  <2>4. userRewards' \in [Tokens -> [Accounts -> UserRewardRow]]
    BY <1>1, <1>2 DEF RewardTypes
  <2> QED BY <1>8, <2>1, <2>3, <2>4 DEF RewardTypes
<1>10. UnlistedIdle'
  BY <1>1, <1>2, <1>3, <1>6, <1>8 DEF RewardInv, UnlistedIdle
<1>11. ASSUME NEW u \in Tokens
       PROVE  /\ rentTokens[u].acc_per_share \in Nat /\ rentTokens'[u].acc_per_share \in Nat
              /\ rentTokens[u].acc_per_share <= rentTokens'[u].acc_per_share
  <2>1. rentTokens[u].acc_per_share \in Nat /\ rentTokens'[u].acc_per_share \in Nat
    BY <1>1, <1>8 DEF RewardTypes, RentTokenRow
  <2>2. CASE u = t
    BY <1>3, <1>6, <1>8, <2>1, <2>2
  <2>3. CASE u # t
    BY <1>8, <2>1, <2>3
  <2> QED BY <2>1, <2>2, <2>3
<1>12. ASSUME NEW u \in Tokens, NEW a \in Accounts
       PROVE  /\ userRewards'[u][a].debt <=
                   Share(deposits'[a].bytes, rentTokens'[u].acc_per_share)
              /\ PaidFairly(u, a)
  <2> DEFINE old == Share(deposits[a].bytes, rentTokens[u].acc_per_share)
             new == Share(deposits[a].bytes, rentTokens'[u].acc_per_share)
  <2>1. /\ deposits[a].bytes \in Nat /\ deposits' = deposits
        /\ userRewards' = userRewards
        /\ userRewards[u][a].debt \in Nat /\ userRewards[u][a].unclaimed \in Nat
    BY <1>1, <1>2 DEF LedgerTypes, DepositRow, RewardTypes, UserRewardRow, ledgerVars
  <2>2. old \in Nat /\ new \in Nat /\ old <= new
    BY <1>11, <2>1, ShareFacts
  <2>3. userRewards[u][a].debt <= old
    BY <1>1 DEF RewardInv, DebtCovered
  <2>4. /\ Entitled(u, a) = userRewards[u][a].unclaimed + old - userRewards[u][a].debt
        /\ Entitled(u, a)' = userRewards[u][a].unclaimed + new - userRewards[u][a].debt
    BY <2>1 DEF Entitled, Share
  <2>5. Entitled(u, a)' = Entitled(u, a) + new - old
    <3> HIDE DEF old, new
    <3> QED BY <2>1, <2>2, <2>4
  <2>6. userRewards'[u][a].debt <= new
    <3> HIDE DEF old, new
    <3> QED BY <2>1, <2>2, <2>3
  <2> QED BY <2>1, <2>5, <2>6 DEF PaidFairly
<1>13. DebtCovered' /\ Fair
  BY <1>12 DEF DebtCovered, Fair, Share
<1>14. RentsTotalled'
  <2>1. ASSUME NEW u \in Tokens, u # t
        PROVE  SumFunctionOnSet(rents'[u], Accounts) = rentTokens'[u].total_rent_received
    BY <1>1, <1>8, <2>1 DEF RewardInv, RentsTotalled
  <2>2. SumFunctionOnSet(rents'[t], Accounts) = rentTokens'[t].total_rent_received
    <3> DEFINE f == rents[t]  g == [f EXCEPT ![borrower] = @ + amount]
    <3>1. rents'[t] = g
      BY <1>2, <1>5
    <3>2. /\ \A b \in Accounts : f[b] \in Int /\ g[b] \in Int
          /\ \A b \in Accounts : b # borrower => g[b] = f[b]
          /\ g[borrower] = f[borrower] + amount
      BY <1>1, <1>5
    <3>3. SumFunctionOnSet(f, Accounts) = rentTokens[t].total_rent_received
      BY <1>1 DEF RewardInv, RentsTotalled
    <3> HIDE DEF f, g
    <3>4. SumFunctionOnSet(g, Accounts)
            = SumFunctionOnSet(f, Accounts) + g[borrower] - f[borrower]
      BY <3>2, AccountsAssumption, SumUpdate
    <3>5. rentTokens'[t].total_rent_received = rentTokens[t].total_rent_received + amount
      BY <1>3, <1>6, <1>8
    <3>6. SumFunctionOnSet(f, Accounts) \in Int
      BY <3>2, AccountsAssumption, SumInt
    <3> QED BY <1>1, <3>1, <3>2, <3>3, <3>4, <3>5, <3>6
  <2> QED BY <2>1, <2>2 DEF RentsTotalled
<1>15. LedgerInv'
  BY <1>1, <1>2 DEF LedgerInv, ledgerVars, LedgerTypes, LedgerBalanced, DepositBytes,
                    LoansCovered, FrozenCovered
<1> QED BY <1>9, <1>10, <1>13, <1>14, <1>15 DEF IndInv, RewardInv

(* A step that leaves the ledger alone and of a token changes only its status. *)
LEMMA StatusSafe ==
    ASSUME IndInv, NEW t \in Tokens, NEW row \in RentTokenRow,
           rentTokens' = [rentTokens EXCEPT ![t] = row],
           row.acc_per_share = rentTokens[t].acc_per_share,
           row.total_rent_received = rentTokens[t].total_rent_received,
           rentTokens[t].listed => row.listed,
           UNCHANGED <<config, ledgerVars, rents, userRewards, pool, balance>>
    PROVE  IndInv' /\ Fair
<1>1. LedgerInv /\ LedgerTypes /\ RewardInv /\ RewardTypes
  BY DEF IndInv, LedgerInv, RewardInv
<1>2. /\ rentTokens' \in [Tokens -> RentTokenRow]
      /\ \A u \in Tokens :
           /\ rentTokens'[u].acc_per_share = rentTokens[u].acc_per_share
           /\ rentTokens'[u].total_rent_received = rentTokens[u].total_rent_received
           /\ rentTokens[u].listed => rentTokens'[u].listed
  BY <1>1 DEF RewardTypes
<1>3. LedgerInv'
  BY <1>1 DEF LedgerInv, ledgerVars, LedgerTypes, LedgerBalanced, DepositBytes,
              LoansCovered, FrozenCovered
<1>4. RewardTypes' /\ UnlistedIdle' /\ RentsTotalled'
  BY <1>1, <1>2 DEF RewardInv, RewardTypes, UnlistedIdle, RentsTotalled
<1>5. DebtCovered'
  BY <1>1, <1>2 DEF RewardInv, DebtCovered, ledgerVars, Share
<1>6. ASSUME NEW u \in Tokens, NEW a \in Accounts PROVE PaidFairly(u, a)
  <2>1. /\ userRewards[u][a].debt \in Nat /\ userRewards[u][a].unclaimed \in Nat
        /\ rentTokens[u].acc_per_share \in Nat /\ deposits[a].bytes \in Nat
    BY <1>1 DEF RewardTypes, UserRewardRow, RentTokenRow, LedgerTypes, DepositRow
  <2>2. Share(deposits[a].bytes, rentTokens[u].acc_per_share) \in Nat
    BY <2>1, ShareFacts
  <2>3. Entitled(u, a)' = Entitled(u, a) /\ Entitled(u, a) \in Int
    BY <1>2, <2>1, <2>2 DEF ledgerVars, Entitled, Share
  <2> QED BY <1>2, <2>2, <2>3 DEF PaidFairly
<1> QED BY <1>3, <1>4, <1>5, <1>6 DEF IndInv, RewardInv, Fair

(* Every setter of the configuration preserves the invariant. *)
LEMMA SetConfigSafe ==
    ASSUME IndInv, NEW row \in ConfigRow, SetConfig(row)
    PROVE  IndInv' /\ Fair
<1>1. LedgerInv /\ LedgerTypes /\ RewardInv
  BY DEF IndInv, LedgerInv
<1>2. config' \in ConfigRow
  <2>1. config' = [row EXCEPT !.exists = TRUE]
    BY DEF SetConfig
  <2> QED BY <2>1, Zenon DEF ConfigRow
<1>3. UNCHANGED ledgerVars /\ UNCHANGED rewardVars
  BY DEF SetConfig
<1>4. LedgerInv'
  BY <1>1, <1>2, <1>3 DEF LedgerInv, ledgerVars, LedgerTypes, LedgerBalanced,
                          DepositBytes, LoansCovered, FrozenCovered
<1>5. RewardInv' /\ Fair
  BY <1>1, <1>3, RewardsUnchanged DEF ledgerVars
<1> QED BY <1>4, <1>5 DEF IndInv

(* The actions of the own account preserve the invariant. *)
LEMMA AdminSafe ==
    ASSUME IndInv, AdminNext
    PROVE  IndInv' /\ Fair
<1>1. /\ config \in ConfigRow
      /\ \A t \in Tokens : rentTokens[t] \in RentTokenRow
  BY DEF IndInv, LedgerInv, LedgerTypes, RewardInv, RewardTypes
<1>2. CASE \E t \in Tokens : AddRentToken(t)
  <2>1. PICK t \in Tokens : AddRentToken(t)
    BY <1>2
  <2> DEFINE old == rentTokens[t]
             row == [old EXCEPT !.listed = TRUE, !.enabled = TRUE]
  <2>2. rentTokens' = [rentTokens EXCEPT ![t] = row]
    BY <2>1 DEF AddRentToken
  <2>3. old \in RentTokenRow
    BY <1>1
  <2> HIDE DEF old
  <2>4. row \in RentTokenRow
    BY <2>3, Zenon DEF RentTokenRow
  <2>5. /\ row.acc_per_share = old.acc_per_share /\ row.listed
        /\ row.total_rent_received = old.total_rent_received
    BY <2>3 DEF RentTokenRow
  <2> QED BY <2>1, <2>2, <2>4, <2>5, StatusSafe DEF AddRentToken, old
<1>3. CASE \E t \in Tokens, enabled \in BOOLEAN : TokenStatus(t, enabled)
  <2>1. PICK t \in Tokens, enabled \in BOOLEAN : TokenStatus(t, enabled)
    BY <1>3
  <2> DEFINE old == rentTokens[t]
             row == [old EXCEPT !.enabled = enabled]
  <2>2. rentTokens' = [rentTokens EXCEPT ![t] = row] /\ old.listed
    BY <2>1 DEF TokenStatus
  <2>3. old \in RentTokenRow
    BY <1>1
  <2> HIDE DEF old
  <2>4. row \in RentTokenRow
    BY <2>3, Zenon DEF RentTokenRow
  <2>5. /\ row.acc_per_share = old.acc_per_share /\ row.listed = old.listed
        /\ row.total_rent_received = old.total_rent_received
    BY <2>3 DEF RentTokenRow
  <2> QED BY <2>1, <2>2, <2>4, <2>5, StatusSafe DEF TokenStatus, old
<1>4. CASE \E limit \in DepositLimits : MaxDeposit(limit)
  <2>1. PICK limit \in DepositLimits : MaxDeposit(limit)
    BY <1>4
  <2>2. [config EXCEPT !.max_deposit_limit = limit] \in ConfigRow
    BY <1>1, BoundsAssumption, Zenon DEF ConfigRow
  <2> QED BY <2>1, <2>2, SetConfigSafe DEF MaxDeposit
<1>5. CASE \E noDeposit, noWithdraw \in BOOLEAN : UpdateStatus(noDeposit, noWithdraw)
  <2>1. PICK noDeposit \in BOOLEAN, noWithdraw \in BOOLEAN : UpdateStatus(noDeposit, noWithdraw)
    BY <1>5
  <2>2. [config EXCEPT !.disabled_deposit = noDeposit,
                       !.disabled_withdraw = noWithdraw] \in ConfigRow
    BY <1>1, Zenon DEF ConfigRow
  <2> QED BY <2>1, <2>2, SetConfigSafe DEF UpdateStatus
<1>6. CASE \E df, wf \in FeeRatios, dao \in DaoRatios, usage \in UsageLimits :
             UpdateRatio(df, wf, dao, usage)
  <2>1. PICK df \in FeeRatios, wf \in FeeRatios, dao \in DaoRatios, usage \in UsageLimits :
             UpdateRatio(df, wf, dao, usage)
    BY <1>6
  <2>2. df \in Ratio /\ wf \in Ratio /\ dao \in Ratio /\ usage \in Ratio
    BY <2>1, ConfigAssumption, BoundsAssumption, PrecisionAssumption DEF UpdateRatio, Ratio
  <2>3. [config EXCEPT !.deposit_fee_ratio = df, !.withdraw_fee_ratio = wf,
                       !.reward_dao_ratio = dao, !.usage_limit_ratio = usage] \in ConfigRow
    BY <1>1, <2>2, Zenon DEF ConfigRow
  <2> QED BY <2>1, <2>3, SetConfigSafe DEF UpdateRatio
<1>7. CASE \E disabled \in BOOLEAN : TransStatus(disabled)
  <2>1. PICK disabled \in BOOLEAN : TransStatus(disabled)
    BY <1>7
  <2>2. [config EXCEPT !.disabled_transfer = disabled] \in ConfigRow
    BY <1>1, Zenon DEF ConfigRow
  <2> QED BY <2>1, <2>2, SetConfigSafe DEF TransStatus
<1> QED BY <1>2, <1>3, <1>4, <1>5, <1>6, <1>7 DEF AdminNext

-----------------------------------------------------------------------------
(* The tables are empty initially, and every total is zero. *)
LEMMA InitSafe == Init => IndInv
<1> SUFFICES ASSUME Init PROVE IndInv
  OBVIOUS
<1>1. /\ 0 \in Ratio /\ DefaultDaoRatio \in Ratio /\ DefaultUsageLimit \in Ratio
      /\ DefaultMaxDeposit \in Nat
  BY ConfigAssumption, PrecisionAssumption DEF Ratio
<1>2. config \in ConfigRow
  <2>1. config = [exists |-> FALSE, disabled_deposit |-> FALSE,
                 disabled_withdraw |-> FALSE, disabled_transfer |-> FALSE,
                 deposit_fee_ratio |-> 0, withdraw_fee_ratio |-> 0,
                 max_deposit_limit |-> DefaultMaxDeposit,
                 reward_dao_ratio |-> DefaultDaoRatio,
                 usage_limit_ratio |-> DefaultUsageLimit]
    BY DEF Init
  <2> QED BY <1>1, <2>1, Zenon DEF ConfigRow
<1>3. LedgerTypes
  BY <1>2 DEF Init, LedgerTypes, StatRow, DepositRow
<1>4. /\ \A a \in Accounts : DepositBytes[a] = 0
      /\ \A a \in Accounts : borrows[a] = 0
      /\ \A t \in Tokens, a \in Accounts : rents[t][a] = 0
  BY DEF Init, DepositBytes
<1>5. LedgerBalanced /\ LoansCovered
  <2>1. SumFunctionOnSet(DepositBytes, Accounts) = 0
    BY <1>4, AccountsAssumption, SumZero
  <2>2. SumFunctionOnSet(borrows, Accounts) = 0
    BY <1>4, AccountsAssumption, SumZero
  <2> QED BY <2>1, <2>2 DEF Init, LedgerBalanced, LoansCovered
<1>6. FrozenCovered
  BY DEF Init, FrozenCovered
<1>7. RewardTypes
  <2>1. rentTokens \in [Tokens -> RentTokenRow]
    <3> DEFINE new == [listed |-> FALSE, enabled |-> FALSE, total_rent_received |-> 0,
                       acc_per_share |-> 0, total_reward |-> 0, reward_balance |-> 0]
    <3>1. new \in RentTokenRow
      BY DEF RentTokenRow
    <3>2. rentTokens = [t \in Tokens |-> new]
      BY DEF Init
    <3> HIDE DEF new
    <3> QED BY <3>1, <3>2
  <2>2. userRewards \in [Tokens -> [Accounts -> UserRewardRow]]
    BY DEF Init, UserRewardRow
  <2>3. /\ rents \in [Tokens -> [Accounts -> Nat]]
        /\ pool \in [Tokens -> Nat] /\ balance \in [Tokens -> Nat]
    BY DEF Init
  <2> QED BY <2>1, <2>2, <2>3 DEF RewardTypes
<1>8. /\ \A t \in Tokens : /\ rentTokens[t].acc_per_share = 0
                           /\ rentTokens[t].total_rent_received = 0
      /\ \A t \in Tokens, a \in Accounts : userRewards[t][a].debt = 0
      /\ \A a \in Accounts : deposits[a].bytes = 0
  BY DEF Init
<1>9. DebtCovered
  BY <1>8, ShareZero DEF DebtCovered
<1>10. RentsTotalled
  <2>1. ASSUME NEW t \in Tokens PROVE SumFunctionOnSet(rents[t], Accounts) = 0
    BY <1>4, AccountsAssumption, SumZero
  <2> QED BY <1>8, <2>1 DEF RentsTotalled
<1>11. UnlistedIdle
  BY <1>8 DEF UnlistedIdle
<1> QED BY <1>3, <1>5, <1>6, <1>7, <1>9, <1>10, <1>11 DEF IndInv, LedgerInv, RewardInv

(* Every step of the contract preserves the invariant and settles fairly. *)
LEMMA NextSafe ==
    ASSUME IndInv, Next PROVE IndInv' /\ Fair
<1>1. CASE AdminNext
  BY <1>1, AdminSafe
<1>2. CASE LedgerNext
  <2>1. CASE \E a \in Accounts, n \in Amounts : DepositRam(a, n)
    BY <2>1, DepositRamSafe
  <2>2. CASE \E a \in Accounts, n \in Amounts : Withdraw(a, n)
    BY <2>2, WithdrawSafe
  <2>3. CASE \E a \in Accounts, n \in Amounts : Borrow(a, n)
    BY <2>3, BorrowSafe
  <2>4. CASE \E a \in Accounts, n \in Amounts : RepayRam(a, n)
    BY <2>4, RepayRamSafe
  <2>5. CASE \E a, b \in Accounts, n \in Amounts : Transfer(a, b, n)
    BY <2>5, MoveBytesSafe DEF Transfer
  <2>6. CASE \E t \in Tokens, a \in Accounts, n \in Rents : DepositRent(t, a, n)
    BY <2>6, DepositRentSafe
  <2> QED BY <1>2, <2>1, <2>2, <2>3, <2>4, <2>5, <2>6 DEF LedgerNext
<1>3. CASE RamxNext
  BY <1>3, FreezeSafe, UnfreezeSafe, MoveBytesSafe DEF RamxNext
<1> QED BY <1>1, <1>2, <1>3 DEF Next

(* A step that changes nothing does so too. *)
LEMMA StutterSafe ==
    ASSUME IndInv, UNCHANGED bankVars PROVE IndInv' /\ Fair
<1>1. LedgerInv /\ LedgerTypes /\ RewardInv
  BY DEF IndInv, LedgerInv
<1>2. LedgerInv'
  BY <1>1 DEF bankVars, ledgerVars, LedgerInv, LedgerTypes, LedgerBalanced,
              DepositBytes, LoansCovered, FrozenCovered
<1>3. UNCHANGED rewardVars /\ \A a \in Accounts : deposits'[a].bytes = deposits[a].bytes
  BY DEF bankVars, ledgerVars
<1> QED BY <1>1, <1>2, <1>3, RewardsUnchanged DEF IndInv

(* The inductive invariant of rambank.eos holds in every state: the tables are
   well typed, the ledger is balanced, loans, frozen bytes and debts are covered,
   and a token that is not listed has distributed nothing. *)
THEOREM Invariance == Spec => []IndInv
<1>1. IndInv /\ [Next]_bankVars => IndInv'
  BY NextSafe, StutterSafe
<1> QED BY InitSafe, <1>1, PTL DEF Spec

(* No row ever leaves its type: no unsigned field of rambank.eos wraps below
   zero, whatever is deposited, lent, traded or distributed. *)
THEOREM TypesHold == Spec => []TypeOK
<1>1. IndInv => TypeOK
  BY DEF IndInv, LedgerInv, LedgerTypes, RewardInv, RewardTypes, TypeOK
<1> QED BY <1>1, Invariance, PTL

(* stat, the tables and the RAM container stay in step. *)
THEOREM LedgerStaysBalanced == Spec => []LedgerBalanced
<1>1. IndInv => LedgerBalanced
  BY DEF IndInv, LedgerInv
<1> QED BY <1>1, Invariance, PTL

(* The contract never lends more than it holds for its depositors. *)
THEOREM LoansStayCovered == Spec => []LoansCovered
<1>1. IndInv => LoansCovered
  BY DEF IndInv, LedgerInv
<1> QED BY <1>1, Invariance, PTL

(* Bytes frozen for sell orders cannot be withdrawn or transferred. *)
THEOREM FrozenStaysCovered == Spec => []FrozenCovered
<1>1. IndInv => FrozenCovered
  BY DEF IndInv, LedgerInv
<1> QED BY <1>1, Invariance, PTL

(* The subtraction of the debt in update_user_reward never wraps around. *)
THEOREM DebtStaysCovered == Spec => []DebtCovered
<1>1. IndInv => DebtCovered
  BY DEF IndInv, RewardInv
<1> QED BY <1>1, Invariance, PTL

(* The rent a token received is the rent its borrowers paid. *)
THEOREM RentsStayTotalled == Spec => []RentsTotalled
<1>1. IndInv => RentsTotalled
  BY DEF IndInv, RewardInv
<1> QED BY <1>1, Invariance, PTL

(* Whatever moves bytes settles the accounts it touches on the bytes they held. *)
THEOREM SettlementIsFair == Spec => PaidOnBytesHeld
<1>1. IndInv /\ [Next]_bankVars =>
        [\A t \in Tokens, a \in Accounts : PaidFairly(t, a)]_bankVars
  BY NextSafe DEF Fair
<1> QED BY <1>1, Invariance, PTL DEF Spec, PaidOnBytesHeld, PaidFairly

-----------------------------------------------------------------------------
(* Booking of rewards, as long as the pool fits the int of update_reward. *)

PoolFits == \A t \in Tokens : 2 * pool[t] < IntModulus

(* A sweep books what it moves. *)
LEMMA RewardedBooks ==
    ASSUME LedgerTypes, RewardTypes, PoolFits, NEW t \in Tokens
    PROVE  Rewarded(t).reward_balance = rentTokens[t].reward_balance + Swept(t)
<1>1. /\ stat.deposited_bytes \in Nat /\ pool[t] \in Nat
      /\ rentTokens[t] \in RentTokenRow /\ rentTokens[t].reward_balance \in Nat
  BY DEF LedgerTypes, RewardTypes, StatRow, RentTokenRow
<1>2. Swept(t) \in Nat /\ 2 * Swept(t) < IntModulus /\ Swept(t) < IntModulus
  BY <1>1, PrecisionAssumption DEF Swept, PoolFits
<1>3. Rewards(t) = Swept(t)
  <2>1. Swept(t) % IntModulus = Swept(t)
    BY <1>2, PrecisionAssumption
  <2> QED BY <1>2, <2>1 DEF Rewards, ToInt
<1>4. CASE Rewards(t) = 0
  BY <1>1, <1>3, <1>4 DEF Rewarded
<1>5. CASE Rewards(t) # 0
  BY <1>1, <1>3, <1>5 DEF Rewarded, RentTokenRow
<1> QED BY <1>4, <1>5

(* As long as the pool fits the int of update_reward, every step books what it
   moves into the contract. *)
LEMMA NextBooks ==
    ASSUME IndInv, PoolFits, RewardBooked, [Next]_bankVars PROVE RewardBooked'
<1>1. LedgerTypes /\ RewardTypes
  BY DEF IndInv, LedgerInv, RewardInv
<1>2. ASSUME NEW S, NEW after, TokenChange(S, after) PROVE RewardBooked'
  <2>1. ASSUME NEW t \in Tokens PROVE balance'[t] = rentTokens'[t].reward_balance
    <3>1. CASE t \in Listed
      <4>1. rentTokens'[t] = Rewarded(t) /\ balance'[t] = balance[t] + Swept(t)
        BY <1>2, <3>1 DEF TokenChange
      <4> QED BY <1>1, <4>1, RewardedBooks DEF RewardBooked
    <3>2. CASE t \notin Listed
      <4>1. rentTokens'[t] = rentTokens[t] /\ balance'[t] = balance[t]
        BY <1>2, <3>2 DEF TokenChange
      <4> QED BY <4>1 DEF RewardBooked
    <3> QED BY <3>1, <3>2
  <2> QED BY <2>1 DEF RewardBooked
<1>3. ASSUME NEW t \in Tokens, NEW borrower \in Accounts, NEW amount \in Rents,
             DepositRent(t, borrower, amount)
      PROVE  RewardBooked'
  <2> DEFINE row == Rewarded(t)
  <2>1. /\ rentTokens' = [rentTokens EXCEPT
                            ![t] = [row EXCEPT !.total_rent_received = @ + amount]]
        /\ balance' = [balance EXCEPT ![t] = @ + Swept(t)]
        /\ CanReward(t)
    BY <1>3 DEF DepositRent
  <2>2. row \in RentTokenRow /\ row.reward_balance = rentTokens[t].reward_balance + Swept(t)
    BY <1>1, <2>1, RewardedFacts, RewardedBooks
  <2> HIDE DEF row
  <2>3. [row EXCEPT !.total_rent_received = @ + amount].reward_balance = row.reward_balance
    BY <2>2 DEF RentTokenRow
  <2>4. balance'[t] = rentTokens'[t].reward_balance
    BY <1>1, <2>1, <2>2, <2>3 DEF RewardBooked, RewardTypes
  <2>5. \A u \in Tokens \ {t} : balance'[u] = rentTokens'[u].reward_balance
    BY <1>1, <2>1 DEF RewardBooked, RewardTypes
  <2> QED BY <2>4, <2>5 DEF RewardBooked
<1>4. ASSUME UNCHANGED <<rentTokens, balance>> PROVE RewardBooked'
  BY <1>4 DEF RewardBooked
<1>5. CASE AdminNext
  <2>1. ASSUME NEW t \in Tokens, NEW row,
               row.reward_balance = rentTokens[t].reward_balance,
               rentTokens' = [rentTokens EXCEPT ![t] = row], balance' = balance
        PROVE  RewardBooked'
    BY <1>1, <2>1 DEF RewardBooked, RewardTypes
  <2>2. ASSUME NEW t \in Tokens, AddRentToken(t) PROVE RewardBooked'
    <3> DEFINE row == [rentTokens[t] EXCEPT !.listed = TRUE, !.enabled = TRUE]
    <3>1. row.reward_balance = rentTokens[t].reward_balance
      BY <1>1 DEF RewardTypes, RentTokenRow
    <3>2. rentTokens' = [rentTokens EXCEPT ![t] = row] /\ balance' = balance
      BY <2>2 DEF AddRentToken
    <3> HIDE DEF row
    <3> QED BY <3>1, <3>2, <2>1
  <2>3. ASSUME NEW t \in Tokens, NEW enabled \in BOOLEAN, TokenStatus(t, enabled)
        PROVE  RewardBooked'
    <3> DEFINE row == [rentTokens[t] EXCEPT !.enabled = enabled]
    <3>1. row.reward_balance = rentTokens[t].reward_balance
      BY <1>1 DEF RewardTypes, RentTokenRow
    <3>2. rentTokens' = [rentTokens EXCEPT ![t] = row] /\ balance' = balance
      BY <2>3 DEF TokenStatus
    <3> HIDE DEF row
    <3> QED BY <3>1, <3>2, <2>1
  <2>4. ASSUME NEW row, SetConfig(row) PROVE RewardBooked'
    BY <1>4, <2>4 DEF SetConfig, rewardVars
  <2> QED BY <1>5, <2>2, <2>3, <2>4
          DEF AdminNext, MaxDeposit, UpdateStatus, UpdateRatio, TransStatus
<1>6. CASE LedgerNext
  <2>1. ASSUME UNCHANGED rewardVars PROVE RewardBooked'
    BY <1>4, <2>1 DEF rewardVars
  <2> QED BY <1>6, <1>2, <1>3, <2>1
          DEF LedgerNext, DepositRam, Withdraw, Borrow, RepayRam, Transfer, MoveBytes
<1>7. CASE RamxNext
  <2>1. ASSUME UNCHANGED rewardVars PROVE RewardBooked'
    BY <1>4, <2>1 DEF rewardVars
  <2> QED BY <1>7, <1>2, <2>1 DEF RamxNext, Freeze, Unfreeze, MoveBytes
<1>8. CASE UNCHANGED bankVars
  BY <1>4, <1>8 DEF bankVars, rewardVars
<1> QED BY <1>5, <1>6, <1>7, <1>8 DEF Next

(* As long as no pool reaches 2^31, every token swept is booked as reward. *)
THEOREM RewardsStayBooked == Spec /\ []PoolFits => []RewardBooked
<1>1. Init => RewardBooked
  BY DEF Init, RewardBooked
<1> QED BY <1>1, NextBooks, Invariance, PTL DEF Spec

-----------------------------------------------------------------------------
(* What a distribution promises. *)

(* The row a token may have after a step: nothing has been distributed, or r has,
   over the bytes deposited. *)
Distributes(t, row) ==
    \E r \in Nat :
       /\ row.reward_balance = rentTokens[t].reward_balance + r
       /\ r = 0 => row.acc_per_share = rentTokens[t].acc_per_share
       /\ r # 0 => /\ stat.deposited_bytes # 0
                   /\ row.acc_per_share = rentTokens[t].acc_per_share
                        + (r * PrecisionFactor) \div stat.deposited_bytes

(* A row that keeps both fields has distributed nothing. *)
LEMMA IdleDistributes ==
    ASSUME RewardTypes, NEW t \in Tokens, NEW row,
           row.reward_balance = rentTokens[t].reward_balance,
           row.acc_per_share = rentTokens[t].acc_per_share
    PROVE  Distributes(t, row)
<1>1. rentTokens[t].reward_balance \in Nat
  BY DEF RewardTypes, RentTokenRow
<1>2. row.reward_balance = rentTokens[t].reward_balance + 0
  BY <1>1
<1> QED BY <1>2 DEF Distributes

(* update_reward distributes what it books. *)
LEMMA RewardedDistributes ==
    ASSUME LedgerTypes, RewardTypes, NEW t \in Tokens, CanReward(t)
    PROVE  Distributes(t, Rewarded(t))
<1>1. /\ stat.deposited_bytes \in Nat /\ pool[t] \in Nat
      /\ rentTokens[t] \in RentTokenRow
  BY DEF LedgerTypes, RewardTypes, StatRow
<1>2. CASE Rewards(t) = 0
  BY <1>2, IdleDistributes DEF Rewarded
<1>3. CASE Rewards(t) # 0
  <2>1. ToInt(Swept(t)) \in Int
    BY <1>1, PrecisionAssumption DEF ToInt, Swept
  <2>2. Rewards(t) \in Nat
    BY <2>1 DEF CanReward, Rewards
  <2>3. stat.deposited_bytes # 0
    <3>1. ToInt(0) = 0
      BY PrecisionAssumption DEF ToInt
    <3> QED BY <3>1, <1>1, <1>3 DEF Rewards, Swept
  <2>4. /\ Rewarded(t).reward_balance = rentTokens[t].reward_balance + Rewards(t)
        /\ Rewarded(t).acc_per_share = rentTokens[t].acc_per_share
             + (Rewards(t) * PrecisionFactor) \div stat.deposited_bytes
    BY <1>1, <1>3 DEF Rewarded, RentTokenRow
  <2> QED BY <1>3, <2>2, <2>3, <2>4 DEF Distributes
<1> QED BY <1>2, <1>3

Distributed == \A t \in Tokens : Distributes(t, rentTokens'[t])

(* Every step distributes, of every token, nothing or what it books. *)
LEMMA NextDistributes ==
    ASSUME IndInv, [Next]_bankVars PROVE Distributed
<1>1. LedgerTypes /\ RewardTypes
  BY DEF IndInv, LedgerInv, RewardInv
<1>2. ASSUME NEW S, NEW after, TokenChange(S, after) PROVE Distributed
  <2>1. ASSUME NEW t \in Tokens PROVE Distributes(t, rentTokens'[t])
    <3>1. CASE t \in Listed
      <4>1. rentTokens'[t] = Rewarded(t) /\ CanReward(t)
        BY <1>2, <3>1 DEF TokenChange
      <4> QED BY <1>1, <4>1, RewardedDistributes
    <3>2. CASE t \notin Listed
      <4>1. rentTokens'[t] = rentTokens[t]
        BY <1>2, <3>2 DEF TokenChange
      <4> QED BY <1>1, <4>1, IdleDistributes
    <3> QED BY <3>1, <3>2
  <2> QED BY <2>1 DEF Distributed
<1>3. ASSUME NEW t \in Tokens, NEW row, Distributes(t, row),
             rentTokens' = [rentTokens EXCEPT ![t] = row]
      PROVE  Distributed
  <2>1. rentTokens'[t] = row
    BY <1>1, <1>3 DEF RewardTypes
  <2>2. ASSUME NEW u \in Tokens, u # t PROVE Distributes(u, rentTokens'[u])
    BY <1>1, <1>3, <2>2, IdleDistributes DEF RewardTypes
  <2> QED BY <1>3, <2>1, <2>2 DEF Distributed
<1>4. ASSUME NEW t \in Tokens, NEW borrower \in Accounts, NEW amount \in Rents,
             DepositRent(t, borrower, amount)
      PROVE  Distributed
  <2> DEFINE old == Rewarded(t)  row == [old EXCEPT !.total_rent_received = @ + amount]
  <2>1. rentTokens' = [rentTokens EXCEPT ![t] = row] /\ CanReward(t)
    BY <1>4 DEF DepositRent
  <2>2. old \in RentTokenRow /\ Distributes(t, old)
    BY <1>1, <2>1, RewardedFacts, RewardedDistributes
  <2> HIDE DEF old
  <2>3. row.reward_balance = old.reward_balance /\ row.acc_per_share = old.acc_per_share
    BY <2>2 DEF RentTokenRow
  <2> HIDE DEF row
  <2>4. Distributes(t, row)
    BY <2>2, <2>3 DEF Distributes
  <2> QED BY <1>3, <2>1, <2>4
<1>5. ASSUME UNCHANGED rentTokens PROVE Distributed
  BY <1>1, <1>5, IdleDistributes DEF Distributed
<1>6. CASE AdminNext
  <2>1. ASSUME NEW t \in Tokens, AddRentToken(t) PROVE Distributed
    <3> DEFINE old == rentTokens[t]  row == [old EXCEPT !.listed = TRUE, !.enabled = TRUE]
    <3>1. row.reward_balance = old.reward_balance /\ row.acc_per_share = old.acc_per_share
      BY <1>1 DEF RewardTypes, RentTokenRow
    <3>2. rentTokens' = [rentTokens EXCEPT ![t] = row]
      BY <2>1 DEF AddRentToken
    <3> HIDE DEF row
    <3> QED BY <1>1, <1>3, <3>1, <3>2, IdleDistributes
  <2>2. ASSUME NEW t \in Tokens, NEW enabled \in BOOLEAN, TokenStatus(t, enabled)
        PROVE  Distributed
    <3> DEFINE old == rentTokens[t]  row == [old EXCEPT !.enabled = enabled]
    <3>1. row.reward_balance = old.reward_balance /\ row.acc_per_share = old.acc_per_share
      BY <1>1 DEF RewardTypes, RentTokenRow
    <3>2. rentTokens' = [rentTokens EXCEPT ![t] = row]
      BY <2>2 DEF TokenStatus
    <3> HIDE DEF row
    <3> QED BY <1>1, <1>3, <3>1, <3>2, IdleDistributes
  <2>3. ASSUME NEW row, SetConfig(row) PROVE Distributed
    BY <1>5, <2>3 DEF SetConfig, rewardVars
  <2> QED BY <1>6, <2>1, <2>2, <2>3
          DEF AdminNext, MaxDeposit, UpdateStatus, UpdateRatio, TransStatus
<1>7. CASE LedgerNext
  <2>1. ASSUME UNCHANGED rewardVars PROVE Distributed
    BY <1>5, <2>1 DEF rewardVars
  <2> QED BY <1>7, <1>2, <1>4, <2>1
          DEF LedgerNext, DepositRam, Withdraw, Borrow, RepayRam, Transfer, MoveBytes
<1>8. CASE RamxNext
  <2>1. ASSUME UNCHANGED rewardVars PROVE Distributed
    BY <1>5, <2>1 DEF rewardVars
  <2> QED BY <1>8, <1>2, <2>1 DEF RamxNext, Freeze, Unfreeze, MoveBytes
<1>9. CASE UNCHANGED bankVars
  BY <1>5, <1>9 DEF bankVars, rewardVars
<1> QED BY <1>6, <1>7, <1>8, <1>9 DEF Next

(* The body of RewardsShared for one token, on its three numbers. *)
SharedOut(promised, received, rounding) ==
    IF received = 0 THEN promised = 0
    ELSE PrecisionFactor * promised
           \in (PrecisionFactor * received - rounding - (stat.deposited_bytes - 1))
                 ..(PrecisionFactor * received + rounding)

Promised(t) == SumFunctionOnSet([a \in Accounts |-> Entitled(t, a)' - Entitled(t, a)], Accounts)
Received(t) == rentTokens'[t].reward_balance - rentTokens[t].reward_balance
Rounding    == Cardinality(Depositors) * (PrecisionFactor - 1)

(* A step that pays fairly what it distributes shares it out. *)
LEMMA StepShares ==
    ASSUME IndInv, Fair, Distributed, NEW t \in Tokens
    PROVE  SharedOut(Promised(t), Received(t), Rounding)
<1> DEFINE bytes == [a \in Accounts |-> deposits[a].bytes]
           acc   == rentTokens[t].acc_per_share
           next  == rentTokens'[t].acc_per_share
           gain  == [a \in Accounts |-> Entitled(t, a)' - Entitled(t, a)]
           B     == stat.deposited_bytes
           F     == PrecisionFactor
<1>1. LedgerTypes /\ RewardTypes /\ LedgerBalanced
  BY DEF IndInv, LedgerInv, RewardInv
<1>2. /\ acc \in Nat /\ rentTokens[t].reward_balance \in Nat
      /\ B \in Nat /\ F \in Nat \ {0} /\ IsFiniteSet(Accounts)
  BY <1>1, PrecisionAssumption, AccountsAssumption
     DEF RewardTypes, RentTokenRow, LedgerTypes, StatRow
<1>3. PICK r \in Nat :
        /\ rentTokens'[t].reward_balance = rentTokens[t].reward_balance + r
        /\ r = 0 => next = acc
        /\ r # 0 => B # 0 /\ next = acc + (r * F) \div B
  BY DEF Distributed, Distributes
<1>4. Received(t) = r
  BY <1>2, <1>3 DEF Received
<1>5. PICK d \in Nat : next = acc + d /\ (r = 0 => d = 0) /\ (r # 0 => B # 0 /\ d = (r * F) \div B)
  <2>1. CASE r = 0
    BY <1>2, <1>3, <2>1
  <2>2. CASE r # 0
    <3>1. (r * F) \div B \in Nat
      BY <1>2, <1>3, <2>2, ProductNat, Division
    <3> QED BY <1>3, <2>2, <3>1
  <2> QED BY <2>1, <2>2
<1>6. \A a \in Accounts : bytes[a] \in Nat /\ bytes[a] = deposits[a].bytes
  BY <1>1 DEF LedgerTypes, DepositRow
<1>7. ASSUME NEW a \in Accounts
      PROVE  gain[a] = Share(bytes[a], acc + d) - Share(bytes[a], acc)
  <2>1. PaidFairly(t, a)
    BY DEF Fair
  <2>2. Entitled(t, a)' = Entitled(t, a) + Share(bytes[a], next) - Share(bytes[a], acc)
    BY <2>1 DEF PaidFairly
  <2>3. Share(bytes[a], acc) \in Nat /\ Share(bytes[a], next) \in Nat
    <3>1. bytes[a] \in Nat /\ acc \in Nat /\ next \in Nat
      BY <1>2, <1>5, <1>6
    <3> HIDE DEF bytes, acc, next
    <3> QED BY <3>1, ShareFacts
  <2>4. Entitled(t, a) \in Int
    <3>1. userRewards[t][a].unclaimed \in Nat /\ userRewards[t][a].debt \in Nat
      BY <1>1 DEF RewardTypes, UserRewardRow
    <3>2. Entitled(t, a) = userRewards[t][a].unclaimed + Share(bytes[a], acc)
                             - userRewards[t][a].debt
      BY DEF Entitled
    <3> QED BY <2>3, <3>1, <3>2
  <2>5. gain[a] = Entitled(t, a)' - Entitled(t, a)
    OBVIOUS
  <2>6. next = acc + d
    BY <1>5
  <2> HIDE DEF gain, bytes, acc, next
  <2> QED BY <2>2, <2>3, <2>4, <2>5, <2>6
<1>8. SumFunctionOnSet(bytes, Accounts) = B
  BY <1>1 DEF LedgerBalanced, DepositBytes
<1>9. {a \in Accounts : bytes[a] > 0} = Depositors
  BY <1>6 DEF Depositors
<1>10. Promised(t) = SumFunctionOnSet(gain, Accounts)
  BY DEF Promised
<1>11. Rounding = Cardinality(Depositors) * (F - 1)
  BY DEF Rounding
<1> DEFINE G == SumFunctionOnSet(gain, Accounts)  N == Cardinality(Depositors)
<1> HIDE DEF bytes, acc, next, gain
<1>12. /\ G \in Int /\ N \in Nat
       /\ d * B - (F - 1) * N <= F * G
       /\ F * G <= d * B + (F - 1) * N
  <2>1. \A a \in Accounts : bytes[a] \in Nat
    BY <1>6
  <2>2. IsRise(gain, bytes, Accounts, F, acc, d)
    BY <1>7 DEF IsRise, Share
  <2> DEFINE T == Depositors  total == SumFunctionOnSet(bytes, Accounts)
  <2>3. T \in SUBSET Accounts /\ \A a \in Accounts : a \in T <=> bytes[a] > 0
    BY <1>9
  <2> HIDE DEF T, F
  <2>4. /\ G \in Int /\ Cardinality(T) \in Nat
        /\ WithinRounding(G, total, Cardinality(T), F, d)
    BY <1>2, <2>1, <2>2, <2>3, SharesRise
  <2> HIDE DEF total
  <2>5. total = B
    BY <1>8 DEF total
  <2> QED BY <2>4, <2>5 DEF T, WithinRounding
<1>13. CASE r = 0
  <2>1. ASSUME NEW a \in Accounts PROVE gain[a] = 0
    <3>1. d = 0 /\ bytes[a] \in Nat /\ acc \in Nat
      BY <1>2, <1>5, <1>6, <1>13
    <3>2. Share(bytes[a], acc) \in Nat
      BY <3>1, ShareFacts
    <3>3. acc + d = acc
      BY <3>1
    <3> QED BY <1>7, <3>2, <3>3
  <2>2. G = 0
    BY <1>2, <2>1, SumZero
  <2> QED BY <1>4, <1>10, <1>13, <2>2 DEF SharedOut
<1>14. CASE r # 0
  <2> DEFINE k == F - 1  rem == (r * F) % B
  <2>1. B \in Nat \ {0} /\ r * F \in Nat /\ k \in Nat
    BY <1>2, <1>5, <1>14, ProductNat
  <2>2. rem \in 0..(B - 1) /\ r * F = B * d + rem
    BY <1>5, <1>14, <2>1, Division
  <2>3. /\ k * N = N * k /\ N * k \in Nat /\ F * r = r * F /\ B * d = d * B
        /\ d * B \in Nat /\ F * G \in Int
    <3>1. k * N = N * k /\ F * r = r * F /\ B * d = d * B
      <4> HIDE DEF k, F, B
      <4> QED BY <1>2, <1>12, <2>1
    <3>2. N * k \in Nat /\ d * B \in Nat
      BY <1>2, <1>12, <2>1, ProductNat
    <3>3. F * G \in Int
      <4> HIDE DEF F
      <4> QED BY <1>2, <1>12
    <3> QED BY <3>1, <3>2, <3>3
  <2>4. d * B - k * N <= F * G /\ F * G <= d * B + k * N
    BY <1>12
  <2>5. /\ F * r - N * k - (B - 1) <= F * G
        /\ F * G <= F * r + N * k
    <3> HIDE DEF k, rem, F, G, N, B
    <3> DEFINE FG == F * G  NK == N * k  KN == k * N  FR == F * r  RF == r * F
               BD == B * d  DB == d * B
    <3>1. /\ KN = NK /\ NK \in Nat /\ FR = RF /\ BD = DB /\ DB \in Nat /\ FG \in Int
          /\ DB - KN <= FG /\ FG <= DB + KN /\ RF \in Nat
          /\ rem \in 0..(B - 1) /\ RF = BD + rem /\ B \in Nat
      BY <2>1, <2>2, <2>3, <2>4
    <3> HIDE DEF FG, NK, KN, FR, RF, BD, DB
    <3>2. FR - NK - (B - 1) <= FG /\ FG <= FR + NK
      BY <3>1
    <3> QED BY <3>2 DEF FG, NK, FR
  <2>6. /\ F * r - N * k - (B - 1) \in Int /\ F * r + N * k \in Int
    BY <2>1, <2>3
  <2>7. F * G \in (F * r - N * k - (B - 1))..(F * r + N * k)
    BY <2>3, <2>5, <2>6
  <2>8. Received(t) = r /\ Promised(t) = G /\ Rounding = N * k
    BY <1>4, <1>10, <1>11
  <2> QED BY <1>14, <2>7, <2>8 DEF SharedOut
<1> QED BY <1>13, <1>14

(* A reward is shared out among those who hold bytes: the depositors are promised
   what was received, up to less than one unit each and a remainder. *)
THEOREM RewardsAreShared == Spec => RewardsShared
<1>1. IndInv /\ [Next]_bankVars =>
        [\A t \in Tokens : SharedOut(Promised(t), Received(t), Rounding)]_bankVars
  BY NextSafe, NextDistributes, StepShares
<1> QED BY <1>1, Invariance, PTL DEF Spec, RewardsShared, SharedOut, Promised, Received, Rounding

=============================================================================
