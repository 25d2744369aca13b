----------------------------- MODULE NumberLemmas -----------------------------
(***************************************************************************)
(* Facts about the truncating division with which the contracts compute    *)
(* fees and shares, and about sums of an integer-valued function over a    *)
(* finite set, for the operator SumFunctionOnSet of module Functions.  The *)
(* totals that the contracts keep in their "stat" singletons are such sums *)
(* over the rows of a table.                                               *)
(*                                                                         *)
(* Induction is done with minimal counterexamples: a nonempty family of    *)
(* subsets of a finite set has a member with no smaller member.            *)
(***************************************************************************)
EXTENDS Integers, FiniteSets, Functions, TLAPS,
        FiniteSetTheorems, WellFoundedInduction

(* Products and quotients. *)

(* The product of natural numbers is natural. *)
LEMMA ProductNat ==
    ASSUME NEW m \in Nat, NEW n \in Nat PROVE m * n \in Nat
  OBVIOUS

(* A product of natural numbers grows with its factors. *)
LEMMA ProductMonotone ==
    ASSUME NEW m \in Nat, NEW n \in Nat, NEW k \in Nat, m <= n
    PROVE  k * m <= k * n /\ m * k <= n * k
<1>1. PICK d \in Nat : n = m + d
  <2>1. n - m \in Nat /\ n = m + (n - m)
    OBVIOUS
  <2> QED BY <2>1
<1>2. k * d \in Nat /\ d * k \in Nat
  BY ProductNat
<1>3. k * n = k * m + k * d /\ n * k = m * k + d * k
  BY <1>1
<1> QED BY <1>2, <1>3

(* The quotient and the remainder of a division by a positive number. *)
LEMMA Division ==
    ASSUME NEW n \in Nat, NEW d \in Nat \ {0}
    PROVE  /\ n \div d \in Nat
           /\ n % d \in 0..(d - 1)
           /\ n = d * (n \div d) + (n % d)
  OBVIOUS

(* Division is monotone. *)
LEMMA DivMonotone ==
    ASSUME NEW m \in Nat, NEW n \in Nat, NEW d \in Nat \ {0}, m <= n
    PROVE  m \div d <= n \div d
<1> DEFINE p == m \div d  q == n \div d
<1>1. /\ p \in Nat /\ q \in Nat /\ m % d \in 0..(d - 1) /\ n % d \in 0..(d - 1)
      /\ m = d * p + (m % d) /\ n = d * q + (n % d)
  BY Division
<1> HIDE DEF p, q
<1>2. CASE p <= q
  BY <1>2 DEF p, q
<1>3. CASE q + 1 <= p
  <2>1. d * (q + 1) <= d * p
    BY <1>1, <1>3, ProductMonotone
  <2>2. d * (q + 1) = d * q + d
    BY <1>1
  <2>3. d * q \in Nat /\ d * p \in Nat
    BY <1>1, ProductNat
  <2> QED BY <1>1, <2>1, <2>2, <2>3
<1> QED BY <1>1, <1>2, <1>3

(* A part n/d of k with n <= d is at most k. *)
LEMMA PartAtMost ==
    ASSUME NEW k \in Nat, NEW n \in Nat, NEW d \in Nat \ {0}, n <= d
    PROVE  (k * n) \div d \in 0..k
<1>1. k * n \in Nat /\ k * d \in Nat /\ k * n <= k * d
  BY ProductNat, ProductMonotone
<1>2. (k * n) \div d <= (k * d) \div d /\ (k * n) \div d \in Nat
  BY <1>1, DivMonotone, Division
<1>3. (k * d) \div d = k
  OBVIOUS
<1> QED BY <1>2, <1>3

(* Rounding x - y and x + y down instead of x twice moves the sum by one at most. *)
LEMMA DivTwice ==
    ASSUME NEW x \in Nat, NEW y \in Nat, y <= x, NEW d \in Nat \ {0}
    PROVE  (x - y) \div d + (x + y) \div d - 2 * (x \div d) \in -1..1
<1> DEFINE p == (x - y) \div d  q == (x + y) \div d  r == x \div d
           k == p + q - 2 * r
           e == (x - y) % d  f == (x + y) % d  g == x % d
<1>1. x - y \in Nat /\ x + y \in Nat
  OBVIOUS
<1>2. /\ p \in Nat /\ q \in Nat /\ r \in Nat
      /\ e \in 0..(d - 1) /\ f \in 0..(d - 1) /\ g \in 0..(d - 1)
      /\ x - y = d * p + e /\ x + y = d * q + f /\ x = d * r + g
  BY <1>1, Division
<1> HIDE DEF p, q, r, e, f, g
<1>3. k \in Int
  BY <1>2
<1>4. d * k = 2 * g - e - f
  <2>1. d * k = d * p + d * q - 2 * (d * r)
    BY <1>2
  <2>2. d * p \in Int /\ d * q \in Int /\ d * r \in Int
    BY <1>2
  <2> HIDE DEF k
  <2> QED BY <1>2, <2>1, <2>2
<1>5. d * k < 2 * d /\ - (2 * d) < d * k
  BY <1>2, <1>4
<1> HIDE DEF k
<1>6. k < 2
  <2> SUFFICES ASSUME 2 <= k PROVE FALSE
    BY <1>3
  <2>1. k \in Nat /\ d * 2 <= d * k
    BY <1>3, ProductMonotone
  <2> QED BY <1>3, <1>5, <2>1
<1>7. -2 < k
  <2> SUFFICES ASSUME k <= -2 PROVE FALSE
    BY <1>3
  <2>1. -k \in Nat /\ d * 2 <= d * (-k)
    BY <1>3, ProductMonotone
  <2>2. d * (-k) = - (d * k)
    BY <1>3
  <2> QED BY <1>3, <1>5, <2>1, <2>2
<1>8. k \in -1..1
  BY <1>3, <1>6, <1>7
<1> QED BY <1>8 DEF k, p, q, r

-----------------------------------------------------------------------------
(* Sums. *)

LOCAL LessThan == {ss \in Nat \X Nat : ss[1] < ss[2]}

(* The element with which SumFunctionOnSet starts the summation over S. *)
LOCAL Pick(S) == CHOOSE x \in S : TRUE

(* g sums f over every member of the family D of sets, which is closed under
   removal of the picked element. *)
LOCAL Sums(g, f, D) ==
    g = [s \in D |-> IF s = {} THEN 0 ELSE f[Pick(s)] + g[s \ {Pick(s)}]]
LOCAL SumsSubsets(g, f, S) == Sums(g, f, SUBSET S)

-----------------------------------------------------------------------------

(* A nonempty set of natural numbers has a least element. *)
LEMMA LeastNatural ==
    ASSUME NEW T \in SUBSET Nat, T # {}
    PROVE  \E m \in T : \A k \in T : m <= k
<1>1. IsWellFoundedOn(LessThan, Nat)
  <2>1. OpToRel(<, Nat) = LessThan
    BY DEF OpToRel, LessThan
  <2> QED BY <2>1, NatLessThanWellFounded
<1>2. PICK m \in T : \A y \in T : ~ (<<y, m>> \in LessThan)
  BY <1>1, WFMin, Zenon
<1>3. ASSUME NEW k \in T PROVE m <= k
  <2>1. <<k, m>> \in Nat \X Nat /\ <<k, m>> \notin LessThan
    BY <1>2
  <2>2. ~ (k < m)
    BY <2>1 DEF LessThan
  <2> QED BY <2>2
<1> QED BY <1>3

(* A nonempty family of subsets of a finite set has a minimal member. *)
LEMMA MinimalSet ==
    ASSUME NEW S, IsFiniteSet(S), NEW F, F \subseteq SUBSET S, F # {}
    PROVE  \E m \in F : \A k \in F : k \subseteq m => k = m
<1>1. F \subseteq FiniteSubsetsOf(S)
  BY FS_FiniteSubsetsOfFinite
<1>2. PICK m \in F : \A k \in F : ~ (<<k, m>> \in StrictSubsetOrdering(S))
  BY <1>1, WFMin, FS_StrictSubsetOrderingWellFounded, Zenon
<1>3. ASSUME NEW k \in F, k \subseteq m, k # m PROVE FALSE
  <2>1. <<k, m>> \in (SUBSET S) \X (SUBSET S)
    OBVIOUS
  <2>2. <<k, m>> \in StrictSubsetOrdering(S)
    BY <1>3, <2>1 DEF StrictSubsetOrdering
  <2> QED BY <1>2, <2>2
<1> QED BY <1>3

-----------------------------------------------------------------------------
(* The recursive function inside SumFunctionOnSet exists. *)
LEMMA SumsExist ==
    ASSUME NEW f, NEW S, IsFiniteSet(S)
    PROVE  \E g : Sums(g, f, SUBSET S)
<1> DEFINE Small(n) == {s \in SUBSET S : Cardinality(s) <= n}
           Bad == {n \in Nat : ~ \E g : Sums(g, f, Small(n))}
<1>c. \A s \in SUBSET S : /\ IsFiniteSet(s) /\ Cardinality(s) \in Nat
                          /\ Cardinality(s) <= Cardinality(S)
  BY FS_Subset, FS_CardinalityType
<1>d. ASSUME NEW s \in SUBSET S, s # {}
      PROVE  /\ s \ {Pick(s)} \in SUBSET S
             /\ Cardinality(s \ {Pick(s)}) = Cardinality(s) - 1
  <2>1. Pick(s) \in s
    BY <1>d DEF Pick
  <2> QED BY <2>1, <1>c, FS_RemoveElement
<1>1. Bad = {}
  <2> SUFFICES ASSUME Bad # {} PROVE FALSE
    OBVIOUS
  <2>1. PICK m \in Bad : \A k \in Bad : m <= k
    <3>1. Bad \in SUBSET Nat
      OBVIOUS
    <3> QED BY <3>1, LeastNatural
  <2>2. CASE m = 0
    <3>1. \A s \in Small(m) : s = {}
      BY <2>2, <1>c, FS_EmptySet
    <3>2. Sums([s \in Small(m) |-> 0], f, Small(m))
      BY <3>1 DEF Sums
    <3> QED BY <3>2, <2>1
  <2>3. CASE m # 0
    <3>1. m - 1 \in Nat /\ m - 1 \notin Bad
      <4>1. m \in Nat
        OBVIOUS
      <4>2. m - 1 \in Nat /\ ~ (m <= m - 1)
        BY <4>1, <2>3
      <4> HIDE DEF Bad
      <4> QED BY <4>2, <2>1
    <3>2. PICK g : Sums(g, f, Small(m - 1))
      BY <3>1
    <3> DEFINE h == [s \in Small(m) |->
                       IF s \in Small(m - 1) THEN g[s]
                       ELSE f[Pick(s)] + g[s \ {Pick(s)}]]
    <3>3. ASSUME NEW s \in Small(m), s # {}
          PROVE  s \ {Pick(s)} \in Small(m) /\ s \ {Pick(s)} \in Small(m - 1)
      BY <3>3, <1>d, <1>c, <2>1
    <3>4. {} \in Small(m - 1)
      BY <3>1, FS_EmptySet
    <3>5. Small(m - 1) \subseteq Small(m)
      BY <1>c, <2>1
    <3>6. ASSUME NEW s \in Small(m)
          PROVE  h[s] = IF s = {} THEN 0 ELSE f[Pick(s)] + h[s \ {Pick(s)}]
      <4>1. CASE s = {}
        BY <4>1, <3>4, <3>5, <3>2 DEF Sums
      <4>2. CASE s # {} /\ s \in Small(m - 1)
        <5>1. h[s] = g[s]
          BY <4>2
        <5>2. g[s] = f[Pick(s)] + g[s \ {Pick(s)}]
          BY <4>2, <3>2 DEF Sums
        <5>3. h[s \ {Pick(s)}] = g[s \ {Pick(s)}]
          BY <3>3, <4>2
        <5> QED BY <5>1, <5>2, <5>3, <4>2
      <4>3. CASE s # {} /\ s \notin Small(m - 1)
        <5>1. h[s \ {Pick(s)}] = g[s \ {Pick(s)}]
          BY <3>3, <4>3
        <5> QED BY <5>1, <4>3
      <4> QED BY <4>1, <4>2, <4>3
    <3>7. Sums(h, f, Small(m))
      BY <3>6 DEF Sums
    <3> QED BY <3>7, <2>1
  <2> QED BY <2>2, <2>3
<1>2. Cardinality(S) \in Nat
  BY FS_CardinalityType
<1>3. Small(Cardinality(S)) = SUBSET S
  BY <1>c
<1> QED BY <1>1, <1>2, <1>3

(* Two such functions agree wherever both are defined. *)
LEMMA SumsUnique ==
    ASSUME NEW f, NEW S, IsFiniteSet(S), NEW T \in SUBSET S,
           NEW g, SumsSubsets(g, f, S), NEW h, SumsSubsets(h, f, T)
    PROVE  \A s \in SUBSET T : g[s] = h[s]
<1> USE DEF SumsSubsets
<1> DEFINE Bad == {s \in SUBSET T : g[s] # h[s]}
<1> SUFFICES ASSUME Bad # {} PROVE FALSE
  OBVIOUS
<1>1. PICK m \in Bad : \A k \in Bad : k \subseteq m => k = m
  <2>1. IsFiniteSet(T) /\ Bad \subseteq SUBSET T
    BY FS_Subset
  <2> HIDE DEF Bad
  <2> QED BY <2>1, MinimalSet
<1>2. m # {}
  BY <1>1 DEF SumsSubsets, Sums
<1>3. Pick(m) \in m
  BY <1>2 DEF Pick
<1>4. m \ {Pick(m)} \notin Bad
  BY <1>1, <1>3
<1>5. g[m \ {Pick(m)}] = h[m \ {Pick(m)}]
  BY <1>4
<1> QED BY <1>1, <1>2, <1>5 DEF SumsSubsets, Sums

-----------------------------------------------------------------------------
(* The facts that proofs about the contracts cite. *)

(* The equation that defines the sum. *)
LEMMA SumDef ==
    ASSUME NEW f, NEW S, IsFiniteSet(S)
    PROVE  SumFunctionOnSet(f, S) =
             IF S = {} THEN 0
             ELSE f[Pick(S)] + SumFunctionOnSet(f, S \ {Pick(S)})
<1> DEFINE G(T) == CHOOSE g : SumsSubsets(g, f, T)
<1>1. \A T : SumFunctionOnSet(f, T) = G(T)[T]
  BY DEF SumFunctionOnSet, FoldFunctionOnSet, MapThenFoldSet, SumsSubsets, Sums, Pick
<1>2. ASSUME NEW T \in SUBSET S PROVE SumsSubsets(G(T), f, T)
  BY SumsExist, FS_Subset, Zenon DEF SumsSubsets
<1>3. CASE S = {}
  <2>1. SumsSubsets(G(S), f, S)
    BY <1>2
  <2>2. G(S)[S] = 0
    <3> HIDE DEF G
    <3> QED BY <2>1, <1>3 DEF SumsSubsets, Sums
  <2> QED BY <2>2, <1>1, <1>3
<1>4. CASE S # {}
  <2> DEFINE R == S \ {Pick(S)}
  <2>1. SumsSubsets(G(S), f, S) /\ SumsSubsets(G(R), f, R)
    BY <1>2
  <2>2. G(S)[R] = G(R)[R]
    <3> HIDE DEF G, R
    <3>1. R \in SUBSET S /\ IsFiniteSet(S)
      BY DEF R
    <3>2. R \in SUBSET R
      OBVIOUS
    <3> QED BY <2>1, <3>1, <3>2, SumsUnique
  <2>3. G(S)[S] = f[Pick(S)] + G(S)[R]
    <3> HIDE DEF G
    <3> QED BY <2>1, <1>4 DEF SumsSubsets, Sums
  <2> HIDE DEF G
  <2> QED BY <2>2, <2>3, <1>1, <1>4
<1> QED BY <1>3, <1>4

(* The sum over no element is zero. *)
LEMMA SumEmpty == ASSUME NEW f PROVE SumFunctionOnSet(f, {}) = 0
  BY SumDef, FS_EmptySet

(* A sum of integers is an integer. *)
LEMMA SumInt ==
    ASSUME NEW S, IsFiniteSet(S), NEW f, \A x \in S : f[x] \in Int
    PROVE  SumFunctionOnSet(f, S) \in Int
<1> DEFINE Bad == {T \in SUBSET S : SumFunctionOnSet(f, T) \notin Int}
<1>1. CASE Bad = {}
  BY <1>1
<1>2. CASE Bad # {}
  <2>1. PICK m \in Bad : \A k \in Bad : k \subseteq m => k = m
    <3>1. Bad \subseteq SUBSET S
      OBVIOUS
    <3> HIDE DEF Bad
    <3> QED BY <1>2, <3>1, MinimalSet
  <2>2. IsFiniteSet(m)
    BY FS_Subset
  <2>3. m # {}
    BY <2>1, SumEmpty
  <2>4. Pick(m) \in m
    BY <2>3 DEF Pick
  <2>5. SumFunctionOnSet(f, m \ {Pick(m)}) \in Int
    BY <2>1, <2>4
  <2>6. SumFunctionOnSet(f, m) = f[Pick(m)] + SumFunctionOnSet(f, m \ {Pick(m)})
    BY <2>2, <2>3, SumDef
  <2> QED BY <2>4, <2>5, <2>6
<1> QED BY <1>1, <1>2

(* A sum can start with any element. *)
LEMMA SumRemove ==
    ASSUME NEW S, IsFiniteSet(S), NEW f, \A x \in S : f[x] \in Int, NEW a \in S
    PROVE  SumFunctionOnSet(f, S) = f[a] + SumFunctionOnSet(f, S \ {a})
<1> DEFINE Good(T, b) == SumFunctionOnSet(f, T) = f[b] + SumFunctionOnSet(f, T \ {b})
           Bad == {T \in SUBSET S : \E b \in T : ~ Good(T, b)}
<1>1. CASE Bad = {}
  BY <1>1
<1>2. CASE Bad # {}
  <2>1. PICK m \in Bad : \A k \in Bad : k \subseteq m => k = m
    <3>1. Bad \subseteq SUBSET S
      OBVIOUS
    <3> HIDE DEF Bad
    <3> QED BY <1>2, <3>1, MinimalSet
  <2>2. IsFiniteSet(m) /\ m \in SUBSET S
    BY FS_Subset
  <2>3. PICK b \in m : ~ Good(m, b)
    OBVIOUS
  <2> DEFINE p == Pick(m)
  <2>4. p \in m
    BY <2>3 DEF Pick
  <2>5. Good(m, p)
    BY <2>2, <2>3, SumDef
  <2>6. ASSUME NEW c \in m, NEW d \in m, c # d PROVE Good(m \ {c}, d)
    <3>1. m \ {c} \notin Bad
      <4> HIDE DEF Bad
      <4> QED BY <2>1
    <3> HIDE DEF Good
    <3> QED BY <3>1, <2>2, <2>6
  <2>7. p # b
    <3> HIDE DEF Good, p
    <3> QED BY <2>3, <2>5
  <2>8. Good(m \ {p}, b) /\ Good(m \ {b}, p)
    BY <2>4, <2>6, <2>7
  <2>9. (m \ {p}) \ {b} = (m \ {b}) \ {p}
    OBVIOUS
  <2>10. \A T \in SUBSET S : SumFunctionOnSet(f, T) \in Int
    BY SumInt, FS_Subset
  <2>11. SumFunctionOnSet(f, (m \ {p}) \ {b}) \in Int /\ f[p] \in Int /\ f[b] \in Int
    BY <2>10, <2>2, <2>4
  <2>12. Good(m, b)
    <3> DEFINE X == SumFunctionOnSet(f, (m \ {p}) \ {b})
    <3>1. /\ SumFunctionOnSet(f, m) = f[p] + SumFunctionOnSet(f, m \ {p})
          /\ SumFunctionOnSet(f, m \ {p}) = f[b] + X
          /\ SumFunctionOnSet(f, m \ {b}) = f[p] + X
      BY <2>5, <2>8, <2>9
    <3> HIDE DEF X, p
    <3> QED BY <3>1, <2>11 DEF X
  <2> QED BY <2>3, <2>12
<1> QED BY <1>1, <1>2

-----------------------------------------------------------------------------

(* Functions that agree on S have the same sum over S. *)
LEMMA SumSame ==
    ASSUME NEW S, IsFiniteSet(S), NEW f, NEW g,
           \A x \in S : f[x] \in Int /\ g[x] = f[x]
    PROVE  SumFunctionOnSet(g, S) = SumFunctionOnSet(f, S)
<1> DEFINE Bad == {T \in SUBSET S : SumFunctionOnSet(g, T) # SumFunctionOnSet(f, T)}
<1>1. CASE Bad = {}
  BY <1>1
<1>2. CASE Bad # {}
  <2>1. PICK m \in Bad : \A k \in Bad : k \subseteq m => k = m
    <3>1. Bad \subseteq SUBSET S
      OBVIOUS
    <3> HIDE DEF Bad
    <3> QED BY <1>2, <3>1, MinimalSet
  <2>2. IsFiniteSet(m) /\ m \in SUBSET S
    BY FS_Subset
  <2>3. m # {}
    BY <2>1, SumEmpty
  <2>4. PICK p \in m : TRUE
    BY <2>3
  <2>5. SumFunctionOnSet(g, m \ {p}) = SumFunctionOnSet(f, m \ {p})
    BY <2>1, <2>4
  <2>6. SumFunctionOnSet(f, m) = f[p] + SumFunctionOnSet(f, m \ {p})
    BY <2>2, <2>4, SumRemove
  <2>7. SumFunctionOnSet(g, m) = g[p] + SumFunctionOnSet(g, m \ {p})
    <3>1. \A x \in m : g[x] \in Int
      BY <2>2
    <3> QED BY <3>1, <2>2, <2>4, SumRemove
  <2> QED BY <2>1, <2>2, <2>4, <2>5, <2>6, <2>7
<1> QED BY <1>1, <1>2

(* Changing f at one element changes the sum by as much: a row of the table
   modified and the total in "stat" adjusted. *)
LEMMA SumUpdate ==
    ASSUME NEW S, IsFiniteSet(S), NEW a \in S, NEW f, NEW g,
           \A x \in S : f[x] \in Int /\ g[x] \in Int,
           \A x \in S : x # a => g[x] = f[x]
    PROVE  SumFunctionOnSet(g, S) = SumFunctionOnSet(f, S) + g[a] - f[a]
<1>1. IsFiniteSet(S \ {a})
  BY FS_RemoveElement
<1>2. SumFunctionOnSet(g, S \ {a}) = SumFunctionOnSet(f, S \ {a})
  BY <1>1, SumSame
<1>3. SumFunctionOnSet(f, S \ {a}) \in Int
  BY <1>1, SumInt
<1>4. SumFunctionOnSet(f, S) = f[a] + SumFunctionOnSet(f, S \ {a})
  BY SumRemove
<1>5. SumFunctionOnSet(g, S) = g[a] + SumFunctionOnSet(g, S \ {a})
  BY SumRemove
<1> QED BY <1>2, <1>3, <1>4, <1>5

(* A sum of natural numbers is natural. *)
LEMMA SumNat ==
    ASSUME NEW S, IsFiniteSet(S), NEW f, \A x \in S : f[x] \in Nat
    PROVE  SumFunctionOnSet(f, S) \in Nat
<1> DEFINE Bad == {T \in SUBSET S : SumFunctionOnSet(f, T) \notin Nat}
<1>1. CASE Bad = {}
  BY <1>1
<1>2. CASE Bad # {}
  <2>1. PICK m \in Bad : \A k \in Bad : k \subseteq m => k = m
    <3>1. Bad \subseteq SUBSET S
      OBVIOUS
    <3> HIDE DEF Bad
    <3> QED BY <1>2, <3>1, MinimalSet
  <2>2. IsFiniteSet(m) /\ m \in SUBSET S
    BY FS_Subset
  <2>3. m # {}
    <3>1. SumFunctionOnSet(f, {}) \in Nat
      BY SumEmpty
    <3> QED BY <2>1, <3>1
  <2>4. PICK p \in m : TRUE
    BY <2>3
  <2>5. SumFunctionOnSet(f, m \ {p}) \in Nat
    BY <2>1, <2>4
  <2>6. SumFunctionOnSet(f, m) = f[p] + SumFunctionOnSet(f, m \ {p})
    BY <2>2, <2>4, SumRemove
  <2> QED BY <2>1, <2>2, <2>5, <2>6
<1> QED BY <1>1, <1>2

(* No term of a sum of natural numbers exceeds the sum. *)
LEMMA SumAtLeast ==
    ASSUME NEW S, IsFiniteSet(S), NEW f, \A x \in S : f[x] \in Nat, NEW a \in S
    PROVE  f[a] <= SumFunctionOnSet(f, S)
<1>1. SumFunctionOnSet(f, S) = f[a] + SumFunctionOnSet(f, S \ {a})
  BY SumRemove
<1>2. SumFunctionOnSet(f, S \ {a}) \in Nat
  BY SumNat, FS_RemoveElement
<1> QED BY <1>1, <1>2

(* A sum of zeros is zero. *)
LEMMA SumZero ==
    ASSUME NEW S, IsFiniteSet(S), NEW f, \A x \in S : f[x] = 0
    PROVE  SumFunctionOnSet(f, S) = 0
<1> DEFINE Bad == {T \in SUBSET S : SumFunctionOnSet(f, T) # 0}
<1>1. CASE Bad = {}
  BY <1>1
<1>2. CASE Bad # {}
  <2>1. PICK m \in Bad : \A k \in Bad : k \subseteq m => k = m
    <3>1. Bad \subseteq SUBSET S
      OBVIOUS
    <3> HIDE DEF Bad
    <3> QED BY <1>2, <3>1, MinimalSet
  <2>2. IsFiniteSet(m) /\ m \in SUBSET S
    BY FS_Subset
  <2>3. m # {}
    BY <2>1, SumEmpty
  <2>4. PICK p \in m : TRUE
    BY <2>3
  <2>5. SumFunctionOnSet(f, m \ {p}) = 0
    BY <2>1, <2>4
  <2>6. SumFunctionOnSet(f, m) = f[p] + SumFunctionOnSet(f, m \ {p})
    BY <2>2, <2>4, SumRemove
  <2> QED BY <2>1, <2>2, <2>5, <2>6
<1> QED BY <1>1, <1>2

(* A sum of ones counts the elements. *)
LEMMA SumOnes ==
    ASSUME NEW S, IsFiniteSet(S), NEW f, \A x \in S : f[x] = 1
    PROVE  SumFunctionOnSet(f, S) = Cardinality(S)
<1> DEFINE Bad == {T \in SUBSET S : SumFunctionOnSet(f, T) # Cardinality(T)}
<1>1. CASE Bad = {}
  BY <1>1
<1>2. CASE Bad # {}
  <2>1. PICK m \in Bad : \A k \in Bad : k \subseteq m => k = m
    <3>1. Bad \subseteq SUBSET S
      OBVIOUS
    <3> HIDE DEF Bad
    <3> QED BY <1>2, <3>1, MinimalSet
  <2>2. IsFiniteSet(m) /\ m \in SUBSET S
    BY FS_Subset
  <2>3. m # {}
    BY <2>1, SumEmpty, FS_EmptySet
  <2>4. PICK p \in m : TRUE
    BY <2>3
  <2>5. SumFunctionOnSet(f, m \ {p}) = Cardinality(m \ {p})
    BY <2>1, <2>4
  <2>6. SumFunctionOnSet(f, m) = f[p] + SumFunctionOnSet(f, m \ {p})
    <3>1. \A x \in m : f[x] \in Int
      BY <2>2
    <3> QED BY <2>2, <2>4, <3>1, SumRemove
  <2>7. Cardinality(m \ {p}) = Cardinality(m) - 1 /\ Cardinality(m) \in Nat
    BY <2>2, <2>4, FS_RemoveElement, FS_CardinalityType
  <2>8. f[p] = 1
    BY <2>2, <2>4
  <2> QED BY <2>1, <2>5, <2>6, <2>7, <2>8
<1> QED BY <1>1, <1>2

(* The sum of h = f + g is the sum of the sums: a batch of changes d turns the
   total of f into the total of f plus the total of d. *)
LEMMA SumPlus ==
    ASSUME NEW S, IsFiniteSet(S), NEW f, NEW g, NEW h,
           \A x \in S : f[x] \in Int /\ g[x] \in Int,
           \A x \in S : h[x] = f[x] + g[x]
    PROVE  SumFunctionOnSet(h, S) = SumFunctionOnSet(f, S) + SumFunctionOnSet(g, S)
<1> DEFINE Good(T) == SumFunctionOnSet(h, T)
                        = SumFunctionOnSet(f, T) + SumFunctionOnSet(g, T)
           Bad == {T \in SUBSET S : ~ Good(T)}
<1>1. CASE Bad = {}
  BY <1>1
<1>2. CASE Bad # {}
  <2>1. PICK m \in Bad : \A k \in Bad : k \subseteq m => k = m
    <3>1. Bad \subseteq SUBSET S
      OBVIOUS
    <3> HIDE DEF Bad
    <3> QED BY <1>2, <3>1, MinimalSet
  <2>2. IsFiniteSet(m) /\ m \in SUBSET S
    BY FS_Subset
  <2>3. m # {}
    <3>1. Good({})
      <4>1. /\ SumFunctionOnSet(f, {}) = 0
            /\ SumFunctionOnSet(g, {}) = 0
            /\ SumFunctionOnSet(h, {}) = 0
        BY SumEmpty
      <4> QED BY <4>1
    <3> HIDE DEF Good
    <3> QED BY <2>1, <3>1
  <2>4. PICK p \in m : TRUE
    BY <2>3
  <2> DEFINE r == m \ {p}
  <2>5. Good(r)
    BY <2>1, <2>4
  <2>6. SumFunctionOnSet(f, m) = f[p] + SumFunctionOnSet(f, r)
    BY <2>2, <2>4, SumRemove
  <2>7. SumFunctionOnSet(g, m) = g[p] + SumFunctionOnSet(g, r)
    BY <2>2, <2>4, SumRemove
  <2>8. SumFunctionOnSet(h, m) = h[p] + SumFunctionOnSet(h, r)
    <3>1. \A x \in m : h[x] \in Int
      BY <2>2
    <3> QED BY <3>1, <2>2, <2>4, SumRemove
  <2>9. /\ SumFunctionOnSet(f, r) \in Int /\ SumFunctionOnSet(g, r) \in Int
        /\ f[p] \in Int /\ g[p] \in Int /\ h[p] = f[p] + g[p]
    <3>1. IsFiniteSet(r) /\ r \subseteq S
      BY <2>2, FS_RemoveElement
    <3> HIDE DEF r
    <3>2. SumFunctionOnSet(f, r) \in Int
      BY <3>1, SumInt
    <3>3. SumFunctionOnSet(g, r) \in Int
      BY <3>1, SumInt
    <3> QED BY <2>2, <2>4, <3>2, <3>3
  <2>10. Good(m)
    <3> HIDE DEF r
    <3> QED BY <2>5, <2>6, <2>7, <2>8, <2>9
  <2> QED BY <2>1, <2>10
<1> QED BY <1>1, <1>2

(* A sum is the sum over a part plus the sum over the rest. *)
LEMMA SumSplit ==
    ASSUME NEW S, IsFiniteSet(S), NEW f, \A x \in S : f[x] \in Int, NEW T \in SUBSET S
    PROVE  SumFunctionOnSet(f, S) = SumFunctionOnSet(f, T) + SumFunctionOnSet(f, S \ T)
<1> DEFINE Good(U) == SumFunctionOnSet(f, S \ (T \ U))
                        = SumFunctionOnSet(f, U) + SumFunctionOnSet(f, S \ T)
           Bad == {U \in SUBSET T : ~ Good(U)}
<1>1. IsFiniteSet(T)
  BY FS_Subset
<1>2. CASE Bad = {}
  <2>1. Good(T)
    BY <1>2
  <2>2. S \ (T \ T) = S
    OBVIOUS
  <2> QED BY <2>1, <2>2
<1>3. CASE Bad # {}
  <2>1. PICK m \in Bad : \A k \in Bad : k \subseteq m => k = m
    <3>1. Bad \subseteq SUBSET T
      OBVIOUS
    <3> HIDE DEF Bad
    <3> QED BY <1>1, <1>3, <3>1, MinimalSet
  <2>2. IsFiniteSet(m) /\ m \in SUBSET T
    BY <1>1, FS_Subset
  <2>3. \A U \in SUBSET S : IsFiniteSet(U) /\ SumFunctionOnSet(f, U) \in Int
    <3> SUFFICES ASSUME NEW U \in SUBSET S
                 PROVE  IsFiniteSet(U) /\ SumFunctionOnSet(f, U) \in Int
      OBVIOUS
    <3>1. IsFiniteSet(U)
      BY FS_Subset
    <3> QED BY <3>1, SumInt
  <2>4. m # {}
    <3>1. S \ (T \ {}) = S \ T /\ SumFunctionOnSet(f, {}) = 0
      BY SumEmpty
    <3>2. Good({})
      BY <2>3, <3>1
    <3> HIDE DEF Good
    <3> QED BY <2>1, <3>2
  <2>5. PICK p \in m : TRUE
    BY <2>4
  <2> DEFINE r == m \ {p}
             big == S \ (T \ m)
  <2>6. Good(r)
    <3>1. r \in SUBSET T /\ r \subseteq m /\ r # m
      BY <2>2, <2>5
    <3> HIDE DEF r, Good
    <3> QED BY <2>1, <3>1
  <2>7. SumFunctionOnSet(f, m) = f[p] + SumFunctionOnSet(f, r)
    BY <2>2, <2>5, SumRemove
  <2>8. SumFunctionOnSet(f, big) = f[p] + SumFunctionOnSet(f, S \ (T \ r))
    <3>1. big \in SUBSET S /\ p \in big /\ big \ {p} = S \ (T \ r)
      BY <2>2, <2>5
    <3> HIDE DEF big, r
    <3>2. IsFiniteSet(big) /\ \A x \in big : f[x] \in Int
      BY <2>3, <3>1
    <3>3. SumFunctionOnSet(f, big) = f[p] + SumFunctionOnSet(f, big \ {p})
      BY <3>1, <3>2, SumRemove
    <3> QED BY <3>1, <3>3
  <2>9. /\ SumFunctionOnSet(f, r) \in Int /\ SumFunctionOnSet(f, S \ T) \in Int
        /\ f[p] \in Int
    BY <2>2, <2>3, <2>5
  <2>10. Good(m)
    <3> HIDE DEF r
    <3> QED BY <2>6, <2>7, <2>8, <2>9
  <2> QED BY <2>1, <2>10
<1> QED BY <1>2, <1>3

(* A part of a sum of natural numbers is at most the sum. *)
LEMMA SumPart ==
    ASSUME NEW S, IsFiniteSet(S), NEW f, \A x \in S : f[x] \in Nat, NEW T \in SUBSET S
    PROVE  /\ SumFunctionOnSet(f, T) \in Nat
           /\ SumFunctionOnSet(f, T) <= SumFunctionOnSet(f, S)
<1>1. IsFiniteSet(T) /\ IsFiniteSet(S \ T)
  BY FS_Subset
<1>2. SumFunctionOnSet(f, T) \in Nat
  BY <1>1, SumNat
<1>3. SumFunctionOnSet(f, S \ T) \in Nat
  BY <1>1, SumNat
<1>4. SumFunctionOnSet(f, S) = SumFunctionOnSet(f, T) + SumFunctionOnSet(f, S \ T)
  BY SumSplit
<1> QED BY <1>2, <1>3, <1>4

(* A sum is the sum over the groups of the sums within each group. *)
LEMMA SumGroups ==
    ASSUME NEW A, IsFiniteSet(A), NEW S, IsFiniteSet(S),
           NEW f, \A x \in S : f[x] \in Int, NEW own, \A x \in S : own[x] \in A,
           NEW g, \A a \in A : g[a] = SumFunctionOnSet(f, {x \in S : own[x] = a})
    PROVE  SumFunctionOnSet(g, A) = SumFunctionOnSet(f, S)
<1> DEFINE Within(T, a) == SumFunctionOnSet(f, {x \in T : own[x] = a})
           Groups(T) == [a \in A |-> Within(T, a)]
           Good(T) == SumFunctionOnSet(Groups(T), A) = SumFunctionOnSet(f, T)
           Bad == {T \in SUBSET S : ~ Good(T)}
<1>1. ASSUME NEW T \in SUBSET S, NEW a \in A
      PROVE  Within(T, a) \in Int /\ Groups(T)[a] = Within(T, a)
  <2> DEFINE part == {x \in T : own[x] = a}
  <2>1. IsFiniteSet(part) /\ \A x \in part : f[x] \in Int
    BY FS_Subset
  <2> HIDE DEF part
  <2>2. SumFunctionOnSet(f, part) \in Int
    BY <2>1, SumInt
  <2> QED BY <2>2 DEF part
<1>2. Good(S)
  <2>1. CASE Bad = {}
    BY <2>1
  <2>2. CASE Bad # {}
    <3>1. PICK m \in Bad : \A k \in Bad : k \subseteq m => k = m
      <4>1. Bad \subseteq SUBSET S
        OBVIOUS
      <4> HIDE DEF Bad
      <4> QED BY <2>2, <4>1, MinimalSet
    <3>2. IsFiniteSet(m) /\ m \in SUBSET S
      BY <3>1, FS_Subset
    <3>3. m # {}
      <4>1. \A a \in A : Groups({})[a] = 0
        <5>1. ASSUME NEW a \in A PROVE Groups({})[a] = 0
          <6>1. {x \in {} : own[x] = a} = {}
            OBVIOUS
          <6> QED BY <6>1, SumEmpty
        <5> QED BY <5>1
      <4>2. SumFunctionOnSet(Groups({}), A) = 0
        <5> DEFINE z == Groups({})
        <5>1. \A a \in A : z[a] = 0
          BY <4>1
        <5> HIDE DEF z
        <5>2. SumFunctionOnSet(z, A) = 0
          BY <5>1, SumZero
        <5> QED BY <5>2 DEF z
      <4>3. Good({})
        BY <4>2, SumEmpty
      <4> HIDE DEF Good
      <4> QED BY <3>1, <4>3
    <3>4. PICK p \in m : TRUE
      BY <3>3
    <3> DEFINE r == m \ {p}
    <3>5. r \in SUBSET S /\ IsFiniteSet(r) /\ p \in S /\ own[p] \in A /\ f[p] \in Int
      BY <3>2, <3>4, FS_RemoveElement
    <3>6. Good(r)
      <4>1. r \subseteq m /\ r # m
        BY <3>4
      <4> HIDE DEF r, Good
      <4> QED BY <3>1, <3>5, <4>1
    <3>7. SumFunctionOnSet(f, m) = f[p] + SumFunctionOnSet(f, r)
      BY <3>2, <3>4, SumRemove
    <3>8. Within(m, own[p]) = f[p] + Within(r, own[p])
      <4> DEFINE part == {x \in m : own[x] = own[p]}
      <4>1. /\ part \in SUBSET S /\ p \in part
            /\ part \ {p} = {x \in r : own[x] = own[p]}
        BY <3>2, <3>4
      <4>2. IsFiniteSet(part) /\ \A x \in part : f[x] \in Int
        BY <3>2, FS_Subset
      <4>3. SumFunctionOnSet(f, part) = f[p] + SumFunctionOnSet(f, part \ {p})
        <5> HIDE DEF part
        <5> QED BY <4>1, <4>2, SumRemove
      <4> QED BY <4>1, <4>3
    <3>9. \A a \in A : a # own[p] => Within(m, a) = Within(r, a)
      <4>1. ASSUME NEW a \in A, a # own[p]
            PROVE  {x \in m : own[x] = a} = {x \in r : own[x] = a}
        BY <4>1
      <4> QED BY <4>1
    <3> DEFINE old == Groups(r)  new == Groups(m)
    <3>10. \A a \in A : old[a] \in Int /\ new[a] \in Int
      <4> HIDE DEF Within, Groups, r
      <4> QED BY <1>1, <3>2, <3>5
    <3>11. \A a \in A : a # own[p] => new[a] = old[a]
      <4> HIDE DEF Within, r
      <4> QED BY <3>9
    <3>12. new[own[p]] = f[p] + old[own[p]]
      <4> HIDE DEF Within, r
      <4> QED BY <3>5, <3>8
    <3>13. SumFunctionOnSet(new, A)
             = SumFunctionOnSet(old, A) + new[own[p]] - old[own[p]]
      <4> HIDE DEF Within, Groups, r, old, new
      <4> QED BY <3>5, <3>10, <3>11, SumUpdate
    <3>14. SumFunctionOnSet(old, A) \in Int /\ old[own[p]] \in Int
      <4> HIDE DEF Within, Groups, r, old, new
      <4> QED BY <3>5, <3>10, SumInt
    <3>15. SumFunctionOnSet(new, A) = SumFunctionOnSet(old, A) + f[p]
      <4> HIDE DEF Within, Groups, r, old, new
      <4> QED BY <3>5, <3>12, <3>13, <3>14
    <3>16. SumFunctionOnSet(f, r) \in Int
      BY <3>5, SumInt
    <3>17. Good(m)
      <4> DEFINE so == SumFunctionOnSet(old, A)  sn == SumFunctionOnSet(new, A)
      <4>1. so = SumFunctionOnSet(f, r) /\ sn = so + f[p]
        BY <3>6, <3>15
      <4>2. sn = SumFunctionOnSet(f, m)
        <5> HIDE DEF so, sn, r
        <5> QED BY <3>5, <3>7, <3>16, <4>1
      <4> QED BY <4>2
    <3> HIDE DEF Good
    <3> QED BY <3>1, <3>17
  <2> QED BY <2>1, <2>2
<1>3. \A a \in A : Groups(S)[a] \in Int /\ g[a] = Groups(S)[a]
  <2>1. S \in SUBSET S
    OBVIOUS
  <2>2. \A a \in A : Groups(S)[a] \in Int
    <3> HIDE DEF Within, Groups
    <3> QED BY <1>1, <2>1
  <2> QED BY <2>2
<1>4. SumFunctionOnSet(g, A) = SumFunctionOnSet(Groups(S), A)
  <2> HIDE DEF Groups
  <2> QED BY <1>3, SumSame
<1> QED BY <1>2, <1>4

(* A sum over a part of a set is one over the set of what counts in that part. *)
LEMMA SumFilter ==
    ASSUME NEW S, IsFiniteSet(S), NEW T \in SUBSET S, NEW f, \A x \in T : f[x] \in Int,
           NEW g, \A x \in S : g[x] = IF x \in T THEN f[x] ELSE 0
    PROVE  SumFunctionOnSet(g, S) = SumFunctionOnSet(f, T)
<1>1. IsFiniteSet(T) /\ IsFiniteSet(S \ T)
  BY FS_Subset
<1>2. \A x \in S : g[x] \in Int
  OBVIOUS
<1>3. SumFunctionOnSet(g, S) = SumFunctionOnSet(g, T) + SumFunctionOnSet(g, S \ T)
  BY <1>2, SumSplit
<1>4. SumFunctionOnSet(g, T) = SumFunctionOnSet(f, T)
  <2>1. \A x \in T : f[x] \in Int /\ g[x] = f[x]
    OBVIOUS
  <2> QED BY <1>1, <2>1, SumSame
<1>5. SumFunctionOnSet(g, S \ T) = 0
  <2>1. \A x \in S \ T : g[x] = 0
    OBVIOUS
  <2> QED BY <1>1, <2>1, SumZero
<1>6. SumFunctionOnSet(f, T) \in Int
  BY <1>1, SumInt
<1> QED BY <1>3, <1>4, <1>5, <1>6

(* What is larger account by account is larger in total. *)
LEMMA SumMonotone ==
    ASSUME NEW S, IsFiniteSet(S), NEW f, NEW g,
           \A x \in S : f[x] \in Int /\ g[x] \in Int /\ f[x] <= g[x]
    PROVE  SumFunctionOnSet(f, S) <= SumFunctionOnSet(g, S)
<1> DEFINE d == [x \in S |-> g[x] - f[x]]
<1>1. \A x \in S : d[x] \in Nat /\ g[x] = f[x] + d[x]
  OBVIOUS
<1> HIDE DEF d
<1>2. SumFunctionOnSet(d, S) \in Nat
  BY <1>1, SumNat
<1>3. SumFunctionOnSet(f, S) \in Int
  BY SumInt
<1>4. \A x \in S : f[x] \in Int /\ d[x] \in Int
  BY <1>1
<1>5. SumFunctionOnSet(g, S) = SumFunctionOnSet(f, S) + SumFunctionOnSet(d, S)
  BY <1>1, <1>4, SumPlus
<1> QED BY <1>2, <1>3, <1>5

(* A common factor comes out of a sum. *)
LEMMA SumScale ==
    ASSUME NEW S, IsFiniteSet(S), NEW f, NEW g, NEW c \in Int,
           \A x \in S : f[x] \in Int /\ g[x] = c * f[x]
    PROVE  SumFunctionOnSet(g, S) = c * SumFunctionOnSet(f, S)
<1> DEFINE Good(T) == SumFunctionOnSet(g, T) = c * SumFunctionOnSet(f, T)
           Bad == {T \in SUBSET S : ~ Good(T)}
<1>1. CASE Bad = {}
  BY <1>1
<1>2. CASE Bad # {}
  <2>1. PICK m \in Bad : \A k \in Bad : k \subseteq m => k = m
    <3>1. Bad \subseteq SUBSET S
      OBVIOUS
    <3> HIDE DEF Bad
    <3> QED BY <1>2, <3>1, MinimalSet
  <2>2. IsFiniteSet(m) /\ m \in SUBSET S
    BY FS_Subset
  <2>3. m # {}
    <3>1. Good({})
      <4>1. SumFunctionOnSet(f, {}) = 0 /\ SumFunctionOnSet(g, {}) = 0
        BY SumEmpty
      <4> QED BY <4>1
    <3> HIDE DEF Good
    <3> QED BY <2>1, <3>1
  <2>4. PICK p \in m : TRUE
    BY <2>3
  <2> DEFINE r == m \ {p}
  <2>5. Good(r)
    BY <2>1, <2>4
  <2>6. SumFunctionOnSet(f, m) = f[p] + SumFunctionOnSet(f, r)
    BY <2>2, <2>4, SumRemove
  <2>7. SumFunctionOnSet(g, m) = g[p] + SumFunctionOnSet(g, r)
    <3>1. \A x \in m : g[x] \in Int
      BY <2>2
    <3> QED BY <2>2, <2>4, <3>1, SumRemove
  <2>8. SumFunctionOnSet(f, r) \in Int /\ f[p] \in Int /\ g[p] = c * f[p]
    <3>1. IsFiniteSet(r) /\ \A x \in r : f[x] \in Int
      BY <2>2, FS_RemoveElement
    <3> HIDE DEF r
    <3>2. SumFunctionOnSet(f, r) \in Int
      BY <3>1, SumInt
    <3> QED BY <2>2, <2>4, <3>2
  <2>9. Good(m)
    <3> HIDE DEF r
    <3> QED BY <2>5, <2>6, <2>7, <2>8
  <2> QED BY <2>1, <2>9
<1> QED BY <1>1, <1>2

(* The parts of k proportional to f, rounded down, add up to k at most. *)
LEMMA SumOfParts ==
    ASSUME NEW S, IsFiniteSet(S), NEW f, NEW g, NEW k \in Nat, NEW d \in Nat \ {0},
           \A x \in S : f[x] \in Nat /\ g[x] = (f[x] * k) \div d,
           SumFunctionOnSet(f, S) <= d
    PROVE  SumFunctionOnSet(g, S) \in 0..k
<1> DEFINE dg == [x \in S |-> d * g[x]]  kf == [x \in S |-> k * f[x]]
           F == SumFunctionOnSet(f, S)   G == SumFunctionOnSet(g, S)
<1>1. ASSUME NEW x \in S PROVE g[x] \in Nat /\ d * g[x] <= k * f[x]
  <2> DEFINE n == f[x] * k  q == n \div d  m == n % d
  <2>1. n \in Nat /\ n = k * f[x]
    BY ProductNat
  <2>2. q \in Nat /\ m \in 0..(d - 1) /\ n = d * q + m
    <3> HIDE DEF n
    <3> QED BY <2>1, Division
  <2>3. g[x] = q
    OBVIOUS
  <2> HIDE DEF q, m, n
  <2>4. d * q \in Nat
    BY <2>2, ProductNat
  <2> QED BY <2>1, <2>2, <2>3, <2>4
<1>2. \A x \in S : dg[x] = d * g[x] /\ kf[x] = k * f[x]
  OBVIOUS
<1>3. \A x \in S : dg[x] \in Int /\ kf[x] \in Int /\ dg[x] <= kf[x]
  BY <1>1
<1> HIDE DEF dg, kf
<1>4. SumFunctionOnSet(dg, S) <= SumFunctionOnSet(kf, S)
  BY <1>3, SumMonotone
<1>5. SumFunctionOnSet(dg, S) = d * G
  <2>1. \A x \in S : g[x] \in Int /\ dg[x] = d * g[x]
    BY <1>1, <1>2
  <2> QED BY <2>1, SumScale
<1>6. SumFunctionOnSet(kf, S) = k * F
  <2>1. \A x \in S : f[x] \in Int /\ kf[x] = k * f[x]
    BY <1>2
  <2> QED BY <2>1, SumScale
<1>7. F \in Nat /\ G \in Nat
  BY <1>1, SumNat
<1>8. F <= d
  OBVIOUS
<1> HIDE DEF F, G
<1>9. k * F <= k * d
  BY <1>7, <1>8, ProductMonotone
<1>10. d * G <= k * d
  BY <1>4, <1>5, <1>6, <1>7, <1>9
<1>11. G <= k
  <2>1. CASE G >= k + 1
    <3>1. d * (k + 1) <= d * G
      BY <1>7, <2>1, ProductMonotone
    <3>2. d * (k + 1) = k * d + d /\ k * d \in Nat
      BY ProductNat
    <3>3. d * G \in Nat
      BY <1>7, ProductNat
    <3> QED BY <1>10, <3>1, <3>2, <3>3
  <2> QED BY <1>7, <2>1
<1> QED BY <1>7, <1>11 DEF G

-----------------------------------------------------------------------------
(* What rounded shares gain together. *)

(* What b gains when the reward per unit rises by d: its part, give or take
   less than one unit, and nothing for 0. *)
LEMMA ShareRise ==
    ASSUME NEW F \in Nat \ {0}, NEW b \in Nat, NEW acc \in Nat, NEW d \in Nat
    PROVE  LET g == ((b * (acc + d)) \div F) - ((b * acc) \div F)
               h == IF b > 0 THEN 1 ELSE 0
           IN /\ g \in Int
              /\ d * b - (F - 1) * h <= F * g
              /\ F * g <= d * b + (F - 1) * h
<1> DEFINE x == b * acc  y == d * b
           p == (x + y) \div F  q == x \div F  e == (x + y) % F  f == x % F
<1>1. F \in Nat \ {0}
  OBVIOUS
<1>2. x \in Nat /\ y \in Nat /\ b * (acc + d) = x + y
  BY ProductNat
<1>3. ((b * (acc + d)) \div F) = p /\ ((b * acc) \div F) = q
  BY <1>2
<1>4. /\ p \in Nat /\ e \in 0..(F - 1) /\ x + y = F * p + e
      /\ q \in Nat /\ f \in 0..(F - 1) /\ x = F * q + f
  <2>1. ASSUME NEW n \in Nat
        PROVE  n \div F \in Nat /\ n % F \in 0..(F - 1) /\ n = F * (n \div F) + (n % F)
    BY <1>1, Division
  <2>2. x + y \in Nat
    BY <1>2
  <2>3. p \in Nat /\ e \in 0..(F - 1) /\ x + y = F * p + e
    <3> HIDE DEF x, y
    <3> QED BY <2>1, <2>2
  <2>4. q \in Nat /\ f \in 0..(F - 1) /\ x = F * q + f
    <3> HIDE DEF x, y
    <3> QED BY <1>2, <2>1
  <2> QED BY <2>3, <2>4
<1>5. CASE b = 0
  <2>1. x = 0 /\ y = 0
    BY <1>5
  <2>2. p = q
    BY <2>1
  <2>3. ((b * (acc + d)) \div F) - ((b * acc) \div F) = 0
    <3> HIDE DEF p, q
    <3> QED BY <1>3, <1>4, <2>2
  <2>4. F * 0 = 0 /\ (F - 1) * 0 = 0
    BY <1>1
  <2> QED BY <1>5, <2>1, <2>3, <2>4
<1>6. CASE b > 0
  <2>1. F * (p - q) = F * p - F * q /\ F * p \in Nat /\ F * q \in Nat
    <3> HIDE DEF p, q
    <3> QED BY <1>1, <1>4, ProductNat
  <2>2. y - (F - 1) <= F * (p - q) /\ F * (p - q) <= y + (F - 1)
    <3> DEFINE u == F * p  v == F * q  w == F * (p - q)
    <3>1. w = u - v /\ u \in Nat /\ v \in Nat
      BY <2>1
    <3>2. x + y = u + e /\ x = v + f
      BY <1>4
    <3> HIDE DEF x, y, p, q, e, f, u, v, w
    <3>3. y - (F - 1) <= w /\ w <= y + (F - 1)
      BY <1>1, <1>2, <1>4, <3>1, <3>2
    <3> QED BY <3>3 DEF w
  <2> HIDE DEF p, q, x, y
  <2>3. (F - 1) * 1 = F - 1
    BY <1>1
  <2> QED BY <1>3, <1>4, <1>6, <2>2, <2>3 DEF y
<1> QED BY <1>5, <1>6

(* gain is what the amounts gain when the reward per unit rises by d. *)
IsRise(gain, amount, S, F, acc, d) ==
    \A a \in S : gain[a] = ((amount[a] * (acc + d)) \div F) - ((amount[a] * acc) \div F)

(* The gain is d for each of F units of the amount, give or take less than one unit
   for each of n roundings. *)
WithinRounding(gain, amount, n, F, d) ==
    /\ d * amount - (F - 1) * n <= F * gain
    /\ F * gain <= d * amount + (F - 1) * n

(* What all gain together: the rise for the total, give or take less than one unit
   for each that has some. *)
LEMMA SharesRise ==
    ASSUME NEW F \in Nat \ {0}, NEW S, IsFiniteSet(S), NEW amount, \A a \in S : amount[a] \in Nat,
           NEW T \in SUBSET S, \A a \in S : a \in T <=> amount[a] > 0,
           NEW acc \in Nat, NEW d \in Nat, NEW gain, IsRise(gain, amount, S, F, acc, d)
    PROVE  /\ SumFunctionOnSet(gain, S) \in Int /\ SumFunctionOnSet(amount, S) \in Nat
           /\ Cardinality(T) \in Nat
           /\ WithinRounding(SumFunctionOnSet(gain, S), SumFunctionOnSet(amount, S),
                             Cardinality(T), F, d)
<1> DEFINE G == SumFunctionOnSet(gain, S)  B == SumFunctionOnSet(amount, S)
           N == Cardinality(T)
           one  == [a \in S |-> 1]
           h    == [a \in S |-> IF amount[a] > 0 THEN 1 ELSE 0]
           db   == [a \in S |-> d * amount[a]]
           more == [a \in S |-> (F - 1) * h[a]]
           less == [a \in S |-> (0 - (F - 1)) * h[a]]
           low  == [a \in S |-> db[a] + less[a]]
           up   == [a \in S |-> db[a] + more[a]]
           fg   == [a \in S |-> F * gain[a]]
<1>1. F \in Nat \ {0} /\ IsFiniteSet(S) /\ T \in SUBSET S
  OBVIOUS
<1>2. ASSUME NEW a \in S
      PROVE  /\ gain[a] \in Int /\ h[a] \in Int /\ db[a] \in Int
             /\ more[a] \in Int /\ less[a] \in Int /\ fg[a] \in Int
             /\ low[a] <= fg[a] /\ fg[a] <= up[a]
  <2>1. /\ gain[a] \in Int
        /\ d * amount[a] - (F - 1) * h[a] <= F * gain[a]
        /\ F * gain[a] <= d * amount[a] + (F - 1) * h[a]
    BY ShareRise DEF IsRise
  <2>2. h[a] \in {0, 1} /\ db[a] = d * amount[a] /\ d * amount[a] \in Nat
    BY ProductNat
  <2>3. more[a] = (F - 1) * h[a] /\ less[a] = (0 - (F - 1)) * h[a] /\ fg[a] = F * gain[a]
    OBVIOUS
  <2>4. low[a] = db[a] + less[a] /\ up[a] = db[a] + more[a]
    OBVIOUS
  <2> HIDE DEF h, db, more, less, low, up, fg
  <2>5. /\ more[a] \in Int /\ less[a] = 0 - more[a] /\ fg[a] \in Int
    BY <1>1, <2>1, <2>2, <2>3
  <2> QED BY <2>1, <2>2, <2>3, <2>4, <2>5
<1>3. SumFunctionOnSet(h, S) = N /\ N \in Nat
  <2>1. IsFiniteSet(T)
    BY <1>1, FS_Subset
  <2>2. SumFunctionOnSet(h, S) = SumFunctionOnSet(one, T)
    <3>1. \A a \in T : one[a] \in Int
      OBVIOUS
    <3>2. \A a \in S : h[a] = IF a \in T THEN one[a] ELSE 0
      OBVIOUS
    <3> HIDE DEF h, one
    <3> QED BY <1>1, <3>1, <3>2, SumFilter
  <2>3. SumFunctionOnSet(one, T) = Cardinality(T)
    <3>1. \A a \in T : one[a] = 1
      OBVIOUS
    <3> HIDE DEF one
    <3> QED BY <2>1, <3>1, SumOnes
  <2> QED BY <2>1, <2>2, <2>3, FS_CardinalityType
<1>4. /\ \A a \in S : db[a] = d * amount[a] /\ amount[a] \in Int
      /\ \A a \in S : more[a] = (F - 1) * h[a] /\ less[a] = (0 - (F - 1)) * h[a]
      /\ \A a \in S : fg[a] = F * gain[a]
      /\ \A a \in S : low[a] = db[a] + less[a] /\ up[a] = db[a] + more[a]
  OBVIOUS
<1>5. G \in Int /\ B \in Nat
  BY <1>1, <1>2, SumInt, SumNat
<1> HIDE DEF h, db, more, less, low, up, fg, N
<1>6. F - 1 \in Int /\ 0 - (F - 1) \in Int /\ F \in Int
  BY <1>1
<1>7. SumFunctionOnSet(db, S) = d * B
  BY <1>1, <1>4, SumScale
<1>8. SumFunctionOnSet(more, S) = (F - 1) * N
  <2>1. \A a \in S : h[a] \in Int /\ more[a] = (F - 1) * h[a]
    BY <1>2, <1>4
  <2>2. SumFunctionOnSet(more, S) = (F - 1) * SumFunctionOnSet(h, S)
    BY <1>1, <1>6, <2>1, SumScale
  <2> QED BY <1>3, <2>2
<1>9. SumFunctionOnSet(less, S) = (0 - (F - 1)) * N
  <2>1. \A a \in S : h[a] \in Int /\ less[a] = (0 - (F - 1)) * h[a]
    BY <1>2, <1>4
  <2>2. PICK c \in Int : c = 0 - (F - 1)
    BY <1>6
  <2>3. \A a \in S : h[a] \in Int /\ less[a] = c * h[a]
    BY <2>1, <2>2
  <2>4. SumFunctionOnSet(less, S) = c * SumFunctionOnSet(h, S)
    BY <1>1, <2>3, SumScale
  <2> QED BY <1>3, <2>2, <2>4
<1>10. SumFunctionOnSet(fg, S) = F * G
  <2>1. \A a \in S : gain[a] \in Int /\ fg[a] = F * gain[a]
    BY <1>2, <1>4
  <2> QED BY <1>1, <1>6, <2>1, SumScale
<1>11. /\ SumFunctionOnSet(low, S) = d * B + (0 - (F - 1)) * N
       /\ SumFunctionOnSet(up, S) = d * B + (F - 1) * N
  <2>1. \A a \in S : db[a] \in Int /\ less[a] \in Int
    BY <1>2
  <2>2. \A a \in S : db[a] \in Int /\ more[a] \in Int
    BY <1>2
  <2>3. \A a \in S : low[a] = db[a] + less[a]
    BY <1>4
  <2>4. \A a \in S : up[a] = db[a] + more[a]
    BY <1>4
  <2>5. SumFunctionOnSet(low, S)
          = SumFunctionOnSet(db, S) + SumFunctionOnSet(less, S)
    BY <1>1, <2>1, <2>3, SumPlus
  <2>6. SumFunctionOnSet(up, S)
          = SumFunctionOnSet(db, S) + SumFunctionOnSet(more, S)
    BY <1>1, <2>2, <2>4, SumPlus
  <2> QED BY <1>7, <1>8, <1>9, <2>5, <2>6
<1>12. /\ SumFunctionOnSet(low, S) <= SumFunctionOnSet(fg, S)
       /\ SumFunctionOnSet(fg, S) <= SumFunctionOnSet(up, S)
  <2>1. \A a \in S : low[a] \in Int /\ fg[a] \in Int /\ low[a] <= fg[a]
    BY <1>2, <1>4
  <2>2. \A a \in S : fg[a] \in Int /\ up[a] \in Int /\ fg[a] <= up[a]
    BY <1>2, <1>4
  <2> QED BY <1>1, <2>1, <2>2, SumMonotone
<1>13. d * B \in Nat /\ (0 - (F - 1)) * N = 0 - (F - 1) * N /\ (F - 1) * N \in Int
  <2>1. d * B \in Nat
    BY <1>5, ProductNat
  <2>2. PICK k \in Nat : k = F - 1
    BY <1>1
  <2>3. (0 - k) * N = 0 - k * N
    BY <1>3, <2>2
  <2>4. k * N \in Nat
    BY <1>3, ProductNat
  <2> QED BY <2>1, <2>2, <2>3, <2>4
<1>14. d * B - (F - 1) * N <= F * G /\ F * G <= d * B + (F - 1) * N
  BY <1>10, <1>11, <1>12, <1>13
<1> QED BY <1>3, <1>5, <1>14 DEF N, WithinRounding

=============================================================================
