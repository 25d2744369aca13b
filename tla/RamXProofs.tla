------------------------------- MODULE RamXProofs -------------------------------
(***************************************************************************)
(* Proofs about the exchange composed with the lending contract: frozen    *)
(* bytes, escrowed EOS and the totals of pending orders match the order    *)
(* table, an order is closed once, makers are served in full, and a trade  *)
(* settles rewards as fairly as a transfer, for any accounts, any number   *)
(* of orders, any prices and any lists of ids.                             *)
(***************************************************************************)
EXTENDS RamX, RamBankProofs

(* What both contracts keep together.  The tables of rambank.eos stay well
   typed through a trade because the bytes of open sell orders are frozen and
   frozen bytes are held; the totals of the exchange stay natural because they
   are sums over open orders; a new order meets no old one because no id above
   the last one given out is in the table. *)
ExchangeInv ==
    /\ ExchangeTypeOK
    /\ FrozenMatchesOrders
    /\ EscrowMatchesOrders
    /\ BookMatchesOrders
    /\ NextIdFree

XInv == IndInv /\ ExchangeInv

-----------------------------------------------------------------------------
(* Sets of orders and their totals. *)

(* The table of orders is finite. *)
LEMMA IdsFacts == IsFiniteSet(Ids) /\ \A S \in SUBSET Ids : IsFiniteSet(S)
<1>1. IsFiniteSet(Ids)
  BY ExchangeAssumption, FS_Interval DEF Ids
<1> QED BY <1>1, FS_Subset

(* An id has an order of one of two types, with an owner, or no order. *)
LEMMA OrderFacts ==
    ASSUME ExchangeTypeOK, NEW i \in Ids
    PROVE  /\ orders[i].bytes \in Nat /\ orders[i].quantity \in Nat
           /\ orders[i].type \in {"buy", "sell", "none"}
           /\ orders[i] = NoOrder <=> orders[i].type = "none"
           /\ orders[i] # NoOrder => orders[i] \in OrderRow /\ orders[i].owner \in Accounts
<1>1. orders[i] \in OrderRow \cup {NoOrder}
  BY DEF ExchangeTypeOK
<1>2. CASE orders[i] = NoOrder
  BY <1>2 DEF NoOrder
<1>3. CASE orders[i] \in OrderRow
  <2>1. orders[i].type \in {"buy", "sell"} /\ orders[i].owner \in Accounts
        /\ orders[i].bytes \in Nat /\ orders[i].quantity \in Nat
    BY <1>3 DEF OrderRow
  <2>2. NoOrder.type = "none"
    BY DEF NoOrder
  <2> QED BY <1>3, <2>1, <2>2
<1> QED BY <1>1, <1>2, <1>3

(* Totals of orders are natural. *)
LEMMA TotalFacts ==
    ASSUME ExchangeTypeOK, NEW S \in SUBSET Ids
    PROVE  /\ Cardinality(S) \in Nat /\ BytesOf(S) \in Nat /\ QuantityOf(S) \in Nat
           /\ S = {} => BytesOf(S) = 0 /\ QuantityOf(S) = 0
<1> DEFINE b == [i \in Ids |-> orders[i].bytes]  q == [i \in Ids |-> orders[i].quantity]
<1>1. IsFiniteSet(S) /\ \A i \in S : b[i] \in Nat /\ q[i] \in Nat
  BY IdsFacts, OrderFacts
<1>2. Cardinality(S) \in Nat
  BY <1>1, FS_CardinalityType
<1>3. SumFunctionOnSet(b, S) \in Nat /\ SumFunctionOnSet(q, S) \in Nat
  <2> HIDE DEF b, q
  <2> QED BY <1>1, SumNat
<1>4. S = {} => SumFunctionOnSet(b, S) = 0 /\ SumFunctionOnSet(q, S) = 0
  BY SumEmpty
<1> QED BY <1>2, <1>3, <1>4 DEF BytesOf, QuantityOf

(* What is left of a set of orders totals the difference. *)
LEMMA TotalSplit ==
    ASSUME ExchangeTypeOK, NEW S \in SUBSET Ids, NEW T \in SUBSET S
    PROVE  /\ BytesOf(S \ T) = BytesOf(S) - BytesOf(T)
           /\ QuantityOf(S \ T) = QuantityOf(S) - QuantityOf(T)
           /\ Cardinality(S \ T) = Cardinality(S) - Cardinality(T)
<1> DEFINE b == [i \in Ids |-> orders[i].bytes]  q == [i \in Ids |-> orders[i].quantity]
<1>1. IsFiniteSet(S) /\ \A i \in S : b[i] \in Int /\ q[i] \in Int
  BY IdsFacts, OrderFacts
<1>2. SumFunctionOnSet(b, S) = SumFunctionOnSet(b, T) + SumFunctionOnSet(b, S \ T)
  <2> HIDE DEF b, q
  <2> QED BY <1>1, SumSplit
<1>3. SumFunctionOnSet(q, S) = SumFunctionOnSet(q, T) + SumFunctionOnSet(q, S \ T)
  <2> HIDE DEF b, q
  <2> QED BY <1>1, SumSplit
<1>4. /\ BytesOf(T) \in Nat /\ BytesOf(S \ T) \in Nat
      /\ QuantityOf(T) \in Nat /\ QuantityOf(S \ T) \in Nat
  BY TotalFacts
<1>5. Cardinality(S \ T) = Cardinality(S) - Cardinality(T)
  <2>1. S \cap T = T
    OBVIOUS
  <2> QED BY <1>1, <2>1, FS_Difference
<1>6. BytesOf(S) = BytesOf(T) + BytesOf(S \ T)
  BY <1>2 DEF BytesOf
<1>7. QuantityOf(S) = QuantityOf(T) + QuantityOf(S \ T)
  BY <1>3 DEF QuantityOf
<1> QED BY <1>4, <1>5, <1>6, <1>7

(* Orders that a step leaves alone total the same after it. *)
LEMMA TotalSame ==
    ASSUME ExchangeTypeOK, NEW S \in SUBSET Ids, \A i \in S : orders'[i] = orders[i]
    PROVE  BytesOf(S)' = BytesOf(S) /\ QuantityOf(S)' = QuantityOf(S)
<1> DEFINE b == [i \in Ids |-> orders[i].bytes]  q == [i \in Ids |-> orders[i].quantity]
           c == [i \in Ids |-> orders'[i].bytes] r == [i \in Ids |-> orders'[i].quantity]
<1>1. IsFiniteSet(S) /\ \A i \in S : /\ b[i] \in Int /\ c[i] = b[i]
                                     /\ q[i] \in Int /\ r[i] = q[i]
  BY IdsFacts, OrderFacts
<1>2. SumFunctionOnSet(c, S) = SumFunctionOnSet(b, S)
  <2> HIDE DEF b, c, q, r
  <2> QED BY <1>1, SumSame
<1>3. SumFunctionOnSet(r, S) = SumFunctionOnSet(q, S)
  <2> HIDE DEF b, c, q, r
  <2> QED BY <1>1, SumSame
<1> QED BY <1>2, <1>3 DEF BytesOf, QuantityOf

-----------------------------------------------------------------------------
(* Closing orders. *)

(* Closing the orders of S takes them out of the table and leaves the rest. *)
LEMMA ClosedRows ==
    ASSUME ExchangeTypeOK, NEW S \in SUBSET Ids, orders' = Closed(S)
    PROVE  /\ orders' \in [Ids -> OrderRow \cup {NoOrder}]
           /\ \A i \in Ids : orders'[i] = IF i \in S THEN NoOrder ELSE orders[i]
           /\ \A type \in {"buy", "sell"} : Open(type)' = Open(type) \ S
           /\ \A type \in {"buy", "sell"}, a \in Accounts :
                OpenBy(type, a)' = OpenBy(type, a) \ S
<1>1. \A i \in Ids : orders'[i] = IF i \in S THEN NoOrder ELSE orders[i]
  BY DEF Closed
<1>2. orders' \in [Ids -> OrderRow \cup {NoOrder}]
  BY DEF ExchangeTypeOK, Closed
<1>3. NoOrder.type = "none"
  BY DEF NoOrder
<1>4. \A type \in {"buy", "sell"} : Open(type)' = Open(type) \ S
  BY <1>1, <1>3 DEF Open
<1>5. ASSUME NEW type \in {"buy", "sell"}, NEW a \in Accounts
      PROVE  OpenBy(type, a)' = OpenBy(type, a) \ S
  <2>1. OpenBy(type, a)' = {i \in Open(type) \ S : orders'[i].owner = a}
    BY <1>4 DEF OpenBy
  <2>2. \A i \in Open(type) \ S : orders'[i] = orders[i]
    BY <1>1 DEF Open
  <2> QED BY <2>1, <2>2 DEF OpenBy
<1> QED BY <1>1, <1>2, <1>4, <1>5

(* The totals of any set of orders fall by those of its closed orders. *)
LEMMA ClosedTotals ==
    ASSUME ExchangeTypeOK, NEW S \in SUBSET Ids, orders' = Closed(S), NEW X \in SUBSET Ids
    PROVE  /\ BytesOf(X \ S)' = BytesOf(X) - BytesOf(S \cap X)
           /\ QuantityOf(X \ S)' = QuantityOf(X) - QuantityOf(S \cap X)
           /\ Cardinality(X \ S) = Cardinality(X) - Cardinality(S \cap X)
<1> DEFINE Y == S \cap X
<1>1. X \ S = X \ Y /\ Y \in SUBSET X /\ X \ Y \in SUBSET Ids
  OBVIOUS
<1>2. \A i \in X \ Y : orders'[i] = orders[i]
  BY ClosedRows
<1> HIDE DEF Y
<1>3. BytesOf(X \ Y)' = BytesOf(X \ Y) /\ QuantityOf(X \ Y)' = QuantityOf(X \ Y)
  BY <1>1, <1>2, TotalSame
<1>4. /\ BytesOf(X \ Y) = BytesOf(X) - BytesOf(Y)
      /\ QuantityOf(X \ Y) = QuantityOf(X) - QuantityOf(Y)
      /\ Cardinality(X \ Y) = Cardinality(X) - Cardinality(Y)
  BY <1>1, TotalSplit
<1>5. /\ BytesOf(X \ Y)' = BytesOf(X) - BytesOf(Y)
      /\ QuantityOf(X \ Y)' = QuantityOf(X) - QuantityOf(Y)
  BY <1>3, <1>4
<1>6. BytesOf(X \ S)' = BytesOf(X \ Y)' /\ QuantityOf(X \ S)' = QuantityOf(X \ Y)'
  BY <1>1
<1> QED BY <1>1, <1>4, <1>5, <1>6 DEF Y

(* now is the row of stat with other totals of pending orders, or of trades. *)
PendingWritten(now, row, nb, qb, bb, ns, qs, bs) ==
    /\ {nb, qb, bb, ns, qs, bs} \subseteq Nat
    /\ now = [row EXCEPT !.num_buy_orders = nb, !.buy_quantity = qb, !.buy_bytes = bb,
                         !.num_sell_orders = ns, !.sell_quantity = qs, !.sell_bytes = bs]

TradesWritten(now, row, nt, qt, bt) ==
    /\ {nt, qt, bt} \subseteq Nat
    /\ now = [row EXCEPT !.num_trade_orders = nt, !.trade_quantity = qt, !.trade_bytes = bt]

(* Writing the pending totals of a row of stat changes nothing else in it. *)
LEMMA PendingRowFields ==
    ASSUME NEW row \in BookRow, NEW nb, NEW qb, NEW bb, NEW ns, NEW qs, NEW bs,
           NEW now, PendingWritten(now, row, nb, qb, bb, ns, qs, bs)
    PROVE  /\ now \in BookRow
           /\ now.num_buy_orders = nb /\ now.buy_quantity = qb /\ now.buy_bytes = bb
           /\ now.num_sell_orders = ns /\ now.sell_quantity = qs /\ now.sell_bytes = bs
           /\ now.num_trade_orders = row.num_trade_orders
           /\ now.trade_quantity = row.trade_quantity
           /\ now.trade_bytes = row.trade_bytes
<1>1. /\ nb \in Nat /\ qb \in Nat /\ bb \in Nat /\ ns \in Nat /\ qs \in Nat /\ bs \in Nat
      /\ now = [row EXCEPT !.num_buy_orders = nb, !.buy_quantity = qb, !.buy_bytes = bb,
                           !.num_sell_orders = ns, !.sell_quantity = qs, !.sell_bytes = bs]
  BY DEF PendingWritten
<1> QED BY <1>1, Zenon DEF BookRow

(* Writing its totals of trades changes nothing else either. *)
LEMMA TradedRowFields ==
    ASSUME NEW row \in BookRow, NEW nt, NEW qt, NEW bt,
           NEW now, TradesWritten(now, row, nt, qt, bt)
    PROVE  /\ now \in BookRow
           /\ now.num_trade_orders = nt
           /\ now.num_buy_orders = row.num_buy_orders
           /\ now.buy_quantity = row.buy_quantity /\ now.buy_bytes = row.buy_bytes
           /\ now.num_sell_orders = row.num_sell_orders
           /\ now.sell_quantity = row.sell_quantity /\ now.sell_bytes = row.sell_bytes
<1>1. /\ nt \in Nat /\ qt \in Nat /\ bt \in Nat
      /\ now = [row EXCEPT !.num_trade_orders = nt, !.trade_quantity = qt,
                           !.trade_bytes = bt]
  BY DEF TradesWritten
<1> QED BY <1>1, Zenon DEF BookRow

(* The totals of stat after closing the orders of S are those of the orders left
   open, whether the orders were cancelled or traded. *)
LEMMA BookAfter ==
    ASSUME ExchangeTypeOK, BookMatchesOrders, NEW S \in SUBSET Ids,
           NEW after, after = Unlisted(S) \/ after = Traded(S)
    PROVE  /\ after \in BookRow
           /\ after.num_sell_orders = Cardinality(Open("sell")) - Cardinality(S \cap Open("sell"))
           /\ after.sell_bytes = BytesOf(Open("sell")) - BytesOf(S \cap Open("sell"))
           /\ after.sell_quantity = QuantityOf(Open("sell")) - QuantityOf(S \cap Open("sell"))
           /\ after.num_buy_orders = Cardinality(Open("buy")) - Cardinality(S \cap Open("buy"))
           /\ after.buy_bytes = BytesOf(Open("buy")) - BytesOf(S \cap Open("buy"))
           /\ after.buy_quantity = QuantityOf(Open("buy")) - QuantityOf(S \cap Open("buy"))
           /\ after.num_trade_orders = book.num_trade_orders
                + (IF after = Unlisted(S) THEN 0 ELSE Cardinality(S))
<1> DEFINE buys == S \cap Open("buy")  sells == S \cap Open("sell")
           nb == book.num_buy_orders - Cardinality(buys)
           qb == book.buy_quantity - QuantityOf(buys)
           bb == book.buy_bytes - BytesOf(buys)
           ns == book.num_sell_orders - Cardinality(sells)
           qs == book.sell_quantity - QuantityOf(sells)
           bs == book.sell_bytes - BytesOf(sells)
           u == Unlisted(S)
           nt == u.num_trade_orders + Cardinality(S)
           qt == u.trade_quantity + QuantityOf(S)
           bt == u.trade_bytes + BytesOf(S)
<1>1. /\ u = [book EXCEPT !.num_buy_orders = nb, !.buy_quantity = qb, !.buy_bytes = bb,
                          !.num_sell_orders = ns, !.sell_quantity = qs, !.sell_bytes = bs]
      /\ Traded(S) = [u EXCEPT !.num_trade_orders = nt, !.trade_quantity = qt,
                               !.trade_bytes = bt]
  BY DEF Unlisted, Traded
<1>2. book \in BookRow
  BY DEF ExchangeTypeOK
<1>3. {nb, qb, bb, ns, qs, bs} \subseteq Nat
  <2>1. ASSUME NEW type \in {"buy", "sell"}
        PROVE  /\ Cardinality(Open(type)) - Cardinality(S \cap Open(type)) \in Nat
               /\ BytesOf(Open(type)) - BytesOf(S \cap Open(type)) \in Nat
               /\ QuantityOf(Open(type)) - QuantityOf(S \cap Open(type)) \in Nat
    <3> DEFINE X == Open(type)  Y == S \cap Open(type)
    <3>1. X \in SUBSET Ids /\ Y \in SUBSET X /\ X \ Y \in SUBSET Ids
      BY DEF Open
    <3> HIDE DEF X, Y
    <3>2. /\ Cardinality(X \ Y) \in Nat /\ BytesOf(X \ Y) \in Nat /\ QuantityOf(X \ Y) \in Nat
      BY <3>1, TotalFacts
    <3>3. /\ BytesOf(X \ Y) = BytesOf(X) - BytesOf(Y)
          /\ QuantityOf(X \ Y) = QuantityOf(X) - QuantityOf(Y)
          /\ Cardinality(X \ Y) = Cardinality(X) - Cardinality(Y)
      BY <3>1, TotalSplit
    <3> QED BY <3>2, <3>3 DEF X, Y
  <2> QED BY <2>1 DEF BookMatchesOrders
<1> HIDE DEF nb, qb, bb, ns, qs, bs
<1>4. /\ u.num_buy_orders = nb /\ u.buy_quantity = qb /\ u.buy_bytes = bb
      /\ u.num_sell_orders = ns /\ u.sell_quantity = qs /\ u.sell_bytes = bs
      /\ u.num_trade_orders = book.num_trade_orders
      /\ u.trade_quantity = book.trade_quantity
      /\ u.trade_bytes = book.trade_bytes
      /\ u \in BookRow
  <2>1. u = [book EXCEPT !.num_buy_orders = nb, !.buy_quantity = qb, !.buy_bytes = bb,
                         !.num_sell_orders = ns, !.sell_quantity = qs, !.sell_bytes = bs]
    BY <1>1
  <2> HIDE DEF u
  <2>2. PendingWritten(u, book, nb, qb, bb, ns, qs, bs)
    BY <1>3, <2>1 DEF PendingWritten
  <2> QED BY <1>2, <2>2, PendingRowFields
<1>5. {nt, qt, bt} \subseteq Nat
  <2>1. u.num_trade_orders \in Nat /\ u.trade_quantity \in Nat /\ u.trade_bytes \in Nat
    BY <1>4 DEF BookRow
  <2>2. Cardinality(S) \in Nat /\ QuantityOf(S) \in Nat /\ BytesOf(S) \in Nat
    BY TotalFacts
  <2> HIDE DEF u
  <2> QED BY <2>1, <2>2
<1> HIDE DEF nt, qt, bt, u
<1> DEFINE v == Traded(S)
<1>6. /\ v.num_buy_orders = nb /\ v.buy_quantity = qb /\ v.buy_bytes = bb
      /\ v.num_sell_orders = ns /\ v.sell_quantity = qs /\ v.sell_bytes = bs
      /\ v.num_trade_orders = nt
      /\ v \in BookRow
  <2>1. v = [u EXCEPT !.num_trade_orders = nt, !.trade_quantity = qt, !.trade_bytes = bt]
    BY <1>1
  <2> HIDE DEF v
  <2>2. TradesWritten(v, u, nt, qt, bt)
    BY <1>5, <2>1 DEF TradesWritten
  <2> QED BY <1>4, <2>2, TradedRowFields
<1>7. /\ nb = Cardinality(Open("buy")) - Cardinality(buys)
      /\ qb = QuantityOf(Open("buy")) - QuantityOf(buys)
      /\ bb = BytesOf(Open("buy")) - BytesOf(buys)
      /\ ns = Cardinality(Open("sell")) - Cardinality(sells)
      /\ qs = QuantityOf(Open("sell")) - QuantityOf(sells)
      /\ bs = BytesOf(Open("sell")) - BytesOf(sells)
  BY DEF nb, qb, bb, ns, qs, bs, BookMatchesOrders
<1>8. book.num_trade_orders \in Nat
  BY <1>2 DEF BookRow
<1>9. CASE after = Unlisted(S)
  <2>1. after = u
    BY <1>9 DEF u
  <2> QED BY <1>4, <1>7, <1>8, <1>9, <2>1
<1>10. CASE after = Traded(S) /\ after # Unlisted(S)
  <2>1. after = v
    BY <1>10
  <2>2. nt = book.num_trade_orders + Cardinality(S)
    BY <1>4 DEF nt
  <2> HIDE DEF v
  <2> QED BY <1>6, <1>7, <1>10, <2>1, <2>2
<1> QED BY <1>9, <1>10

(* Closing the orders of S, whichever way, keeps the books of the exchange as
   long as the escrow of its buy orders leaves the balance and the bytes of its
   sell orders are unfrozen. *)
LEMMA ClosingKeepsBooks ==
    ASSUME ExchangeInv, NEW S \in SUBSET Ids, orders' = Closed(S),
           book' = Unlisted(S) \/ book' = Traded(S),
           eos' = eos - QuantityOf(S \cap Open("buy")),
           \A a \in Accounts : deposits'[a].frozen_bytes
             = deposits[a].frozen_bytes - BytesOf(S \cap OpenBy("sell", a)),
           UNCHANGED <<settings, orderId, ignored>>
    PROVE  ExchangeInv'
<1>1. /\ ExchangeTypeOK /\ FrozenMatchesOrders /\ EscrowMatchesOrders
      /\ BookMatchesOrders /\ NextIdFree
  BY DEF ExchangeInv
<1>2. /\ orders' \in [Ids -> OrderRow \cup {NoOrder}]
      /\ \A i \in Ids : orders'[i] = IF i \in S THEN NoOrder ELSE orders[i]
      /\ \A type \in {"buy", "sell"} : Open(type)' = Open(type) \ S
      /\ \A type \in {"buy", "sell"}, a \in Accounts :
           OpenBy(type, a)' = OpenBy(type, a) \ S
  BY <1>1, ClosedRows
<1>3. ASSUME NEW X \in SUBSET Ids
      PROVE  /\ BytesOf(X \ S)' = BytesOf(X) - BytesOf(S \cap X)
             /\ QuantityOf(X \ S)' = QuantityOf(X) - QuantityOf(S \cap X)
             /\ Cardinality(X \ S) = Cardinality(X) - Cardinality(S \cap X)
  BY <1>1, ClosedTotals
<1>4. FrozenMatchesOrders'
  <2>1. ASSUME NEW a \in Accounts
        PROVE  deposits'[a].frozen_bytes = BytesOf(OpenBy("sell", a))'
    <3> DEFINE X == OpenBy("sell", a)
    <3>1. X \in SUBSET Ids /\ X' = X \ S
      BY <1>2 DEF OpenBy, Open
    <3>2. BytesOf(X)' = BytesOf(X) - BytesOf(S \cap X)
      <4>1. BytesOf(X)' = BytesOf(X \ S)'
        BY <3>1 DEF BytesOf
      <4> QED BY <1>3, <3>1, <4>1
    <3> QED BY <1>1, <3>2 DEF FrozenMatchesOrders
  <2> QED BY <2>1 DEF FrozenMatchesOrders
<1>5. ASSUME NEW type \in {"buy", "sell"}
      PROVE  /\ BytesOf(Open(type))' = BytesOf(Open(type)) - BytesOf(S \cap Open(type))
             /\ QuantityOf(Open(type))'
                  = QuantityOf(Open(type)) - QuantityOf(S \cap Open(type))
             /\ Cardinality(Open(type))'
                  = Cardinality(Open(type)) - Cardinality(S \cap Open(type))
  <2> DEFINE X == Open(type)
  <2>1. X \in SUBSET Ids /\ X' = X \ S
    BY <1>2 DEF Open
  <2>2. /\ BytesOf(X)' = BytesOf(X \ S)' /\ QuantityOf(X)' = QuantityOf(X \ S)'
        /\ Cardinality(X)' = Cardinality(X \ S)
    BY <2>1 DEF BytesOf, QuantityOf
  <2> QED BY <1>3, <2>1, <2>2
<1>6. EscrowMatchesOrders'
  <2>1. QuantityOf(Open("buy"))' = QuantityOf(Open("buy")) - QuantityOf(S \cap Open("buy"))
    BY <1>5
  <2>2. Open("buy") \in SUBSET Ids /\ S \cap Open("buy") \in SUBSET Ids
    BY DEF Open
  <2>3. QuantityOf(Open("buy")) \in Nat /\ QuantityOf(S \cap Open("buy")) \in Nat
    BY <1>1, <2>2, TotalFacts
  <2>4. ignored \in Nat /\ eos = QuantityOf(Open("buy")) + ignored
    BY <1>1 DEF EscrowMatchesOrders, ExchangeTypeOK
  <2>5. eos' = QuantityOf(Open("buy"))' + ignored'
    BY <2>1, <2>3, <2>4
  <2> QED BY <2>5 DEF EscrowMatchesOrders
<1>7. book' \in BookRow /\ BookMatchesOrders'
  <2> DEFINE after == book'
  <2>1. after = Unlisted(S) \/ after = Traded(S)
    OBVIOUS
  <2>2. /\ after \in BookRow
        /\ after.num_sell_orders = Cardinality(Open("sell")) - Cardinality(S \cap Open("sell"))
        /\ after.sell_bytes = BytesOf(Open("sell")) - BytesOf(S \cap Open("sell"))
        /\ after.sell_quantity = QuantityOf(Open("sell")) - QuantityOf(S \cap Open("sell"))
        /\ after.num_buy_orders = Cardinality(Open("buy")) - Cardinality(S \cap Open("buy"))
        /\ after.buy_bytes = BytesOf(Open("buy")) - BytesOf(S \cap Open("buy"))
        /\ after.buy_quantity = QuantityOf(Open("buy")) - QuantityOf(S \cap Open("buy"))
    <3> HIDE DEF after
    <3> QED BY <1>1, <2>1, BookAfter
  <2> QED BY <1>5, <2>2 DEF BookMatchesOrders
<1>8. ExchangeTypeOK'
  <2>1. eos' \in Nat
    <3> DEFINE X == Open("buy")
    <3>1. X \in SUBSET Ids /\ S \cap X \in SUBSET X /\ X \ (S \cap X) \in SUBSET Ids
      BY DEF Open
    <3> HIDE DEF X
    <3>2. QuantityOf(X \ (S \cap X)) = QuantityOf(X) - QuantityOf(S \cap X)
      BY <1>1, <3>1, TotalSplit
    <3>3. QuantityOf(X \ (S \cap X)) \in Nat /\ QuantityOf(X) \in Nat
          /\ QuantityOf(S \cap X) \in Nat
      <4>1. S \cap X \in SUBSET Ids
        BY <3>1
      <4> QED BY <1>1, <3>1, <4>1, TotalFacts
    <3>4. ignored \in Nat /\ eos = QuantityOf(X) + ignored
      BY <1>1 DEF EscrowMatchesOrders, ExchangeTypeOK, X
    <3>5. eos' = eos - QuantityOf(S \cap X)
      BY DEF X
    <3> QED BY <3>2, <3>3, <3>4, <3>5
  <2> QED BY <1>1, <1>2, <1>7, <2>1 DEF ExchangeTypeOK
<1>9. NextIdFree'
  BY <1>1, <1>2 DEF NextIdFree
<1> QED BY <1>4, <1>6, <1>7, <1>8, <1>9 DEF ExchangeInv
-----------------------------------------------------------------------------
(* New orders. *)

(* The totals of the open orders are natural numbers. *)
LEMMA OpenTotals ==
    ASSUME ExchangeTypeOK
    PROVE  \A t \in {"buy", "sell"} :
             /\ BytesOf(Open(t)) \in Nat /\ QuantityOf(Open(t)) \in Nat
             /\ Cardinality(Open(t)) \in Nat
             /\ \A a \in Accounts : BytesOf(OpenBy(t, a)) \in Nat
<1>1. ASSUME NEW t \in {"buy", "sell"}
      PROVE  /\ Open(t) \in SUBSET Ids /\ IsFiniteSet(Open(t))
             /\ \A a \in Accounts : OpenBy(t, a) \in SUBSET Ids
  BY IdsFacts DEF Open, OpenBy
<1> QED BY <1>1, TotalFacts, FS_CardinalityType

(* A new order takes an id that is free, joins the orders of its type and owner,
   and adds to no other total. *)
LEMMA AddedRows ==
    ASSUME ExchangeTypeOK, NextIdFree, NEW row \in OrderRow, AddOrder(row)
    PROVE  LET n == orderId + 1 IN
           /\ n \in Ids /\ orderId' = n /\ NextIdFree'
           /\ orders[n] = NoOrder /\ orders'[n] = row
           /\ orders' \in [Ids -> OrderRow \cup {NoOrder}]
           /\ \A i \in Ids \ {n} : orders'[i] = orders[i]
           /\ n \notin Open(row.type) /\ Open(row.type)' = Open(row.type) \cup {n}
           /\ OpenBy(row.type, row.owner)' = OpenBy(row.type, row.owner) \cup {n}
           /\ \A type \in {"buy", "sell"} : type # row.type => Open(type)' = Open(type)
           /\ \A type \in {"buy", "sell"}, a \in Accounts :
                type # row.type \/ a # row.owner => OpenBy(type, a)' = OpenBy(type, a)
<1> DEFINE n == orderId + 1
<1>1. /\ orderId < MaxOrders /\ orderId' = n /\ orders' = [orders EXCEPT ![n] = row]
      /\ orderId \in 0..MaxOrders /\ MaxOrders \in Nat
      /\ orders \in [Ids -> OrderRow \cup {NoOrder}]
  BY ExchangeAssumption DEF AddOrder, ExchangeTypeOK
<1>2. n \in Ids /\ \A i \in Ids : i > n => i > orderId
  BY <1>1 DEF Ids
<1>3. orders[n] = NoOrder
  BY <1>1, <1>2 DEF NextIdFree
<1>4. /\ orders'[n] = row /\ \A i \in Ids \ {n} : orders'[i] = orders[i]
      /\ orders' \in [Ids -> OrderRow \cup {NoOrder}]
  BY <1>1, <1>2
<1>5. NextIdFree'
  <2>1. ASSUME NEW i \in Ids, i > orderId' PROVE orders'[i] = NoOrder
    <3>1. i > orderId /\ i # n
      BY <1>1, <1>2, <2>1 DEF Ids
    <3> QED BY <1>4, <3>1 DEF NextIdFree
  <2> QED BY <2>1 DEF NextIdFree
<1>6. row.type \in {"buy", "sell"} /\ NoOrder.type = "none"
  BY DEF OrderRow, NoOrder
<1> HIDE DEF n
<1>7. \A type \in {"buy", "sell"} : n \notin Open(type)
  BY <1>3, <1>6 DEF Open
<1>8. Open(row.type)' = Open(row.type) \cup {n}
  BY <1>2, <1>4 DEF Open
<1>9. \A type \in {"buy", "sell"} : type # row.type => Open(type)' = Open(type)
  BY <1>2, <1>4, <1>7 DEF Open
<1>10. \A type \in {"buy", "sell"} : \A i \in Open(type) : orders'[i] = orders[i]
  BY <1>4, <1>7 DEF Open
<1>11. OpenBy(row.type, row.owner)' = OpenBy(row.type, row.owner) \cup {n}
  BY <1>4, <1>6, <1>8, <1>10 DEF OpenBy
<1>12. ASSUME NEW type \in {"buy", "sell"}, NEW a \in Accounts,
              type # row.type \/ a # row.owner
       PROVE  OpenBy(type, a)' = OpenBy(type, a)
  <2>1. CASE type # row.type
    BY <1>9, <1>10, <2>1 DEF OpenBy
  <2>2. CASE type = row.type /\ a # row.owner
    <3>1. Open(type)' = Open(type) \cup {n} /\ orders'[n].owner # a
      BY <1>4, <1>8, <2>2
    <3> QED BY <1>10, <3>1 DEF OpenBy
  <2> QED BY <1>12, <2>1, <2>2
<1> QED BY <1>1, <1>2, <1>3, <1>4, <1>5, <1>6, <1>7, <1>8, <1>9, <1>11, <1>12 DEF n

(* A set of orders that a new one joins totals that much more; one that it does
   not join totals the same. *)
LEMMA AddedTotals ==
    ASSUME ExchangeTypeOK, NEW row \in OrderRow, NEW n \in Ids, orders'[n] = row,
           \A i \in Ids \ {n} : orders'[i] = orders[i],
           NEW X \in SUBSET Ids, n \notin X
    PROVE  /\ SumFunctionOnSet([i \in Ids |-> orders'[i].bytes], X) = BytesOf(X)
           /\ SumFunctionOnSet([i \in Ids |-> orders'[i].quantity], X) = QuantityOf(X)
           /\ SumFunctionOnSet([i \in Ids |-> orders'[i].bytes], X \cup {n})
                = BytesOf(X) + row.bytes
           /\ SumFunctionOnSet([i \in Ids |-> orders'[i].quantity], X \cup {n})
                = QuantityOf(X) + row.quantity
           /\ Cardinality(X \cup {n}) = Cardinality(X) + 1
<1> DEFINE Y == X \cup {n}
           b == [i \in Ids |-> orders'[i].bytes]  q == [i \in Ids |-> orders'[i].quantity]
<1>1. IsFiniteSet(X) /\ IsFiniteSet(Y) /\ Y \in SUBSET Ids /\ n \in Y /\ Y \ {n} = X
  BY IdsFacts
<1>2. \A i \in X : orders'[i] = orders[i]
  OBVIOUS
<1>3. b[n] = row.bytes /\ q[n] = row.quantity /\ row.bytes \in Nat /\ row.quantity \in Nat
  BY DEF OrderRow
<1>4. \A i \in Y : b[i] \in Int /\ q[i] \in Int
  BY <1>2, <1>3, OrderFacts
<1>5. /\ SumFunctionOnSet(b, Y) = b[n] + SumFunctionOnSet(b, X)
      /\ SumFunctionOnSet(q, Y) = q[n] + SumFunctionOnSet(q, X)
  <2> HIDE DEF b, q, Y
  <2>1. SumFunctionOnSet(b, Y) = b[n] + SumFunctionOnSet(b, Y \ {n})
    BY <1>1, <1>4, SumRemove
  <2>2. SumFunctionOnSet(q, Y) = q[n] + SumFunctionOnSet(q, Y \ {n})
    BY <1>1, <1>4, SumRemove
  <2> QED BY <1>1, <2>1, <2>2
<1>6. SumFunctionOnSet(b, X) = BytesOf(X) /\ SumFunctionOnSet(q, X) = QuantityOf(X)
  BY <1>2, TotalSame DEF BytesOf, QuantityOf
<1>7. BytesOf(X) \in Nat /\ QuantityOf(X) \in Nat
  BY TotalFacts
<1>8. Cardinality(Y) = Cardinality(X) + 1
  BY <1>1, FS_AddElement
<1>9. /\ SumFunctionOnSet(b, Y) = BytesOf(X) + row.bytes
      /\ SumFunctionOnSet(q, Y) = QuantityOf(X) + row.quantity
  <2> HIDE DEF b, q, Y
  <2> QED BY <1>3, <1>5, <1>6, <1>7
<1> QED BY <1>6, <1>8, <1>9

(* A new order adds itself to the totals of its type and of its owner, and to no
   other total. *)
LEMMA AddedBooks ==
    ASSUME ExchangeTypeOK, NextIdFree, NEW row \in OrderRow, AddOrder(row)
    PROVE  /\ \A t \in {"buy", "sell"} :
                /\ BytesOf(Open(t))' = BytesOf(Open(t)) + (IF t = row.type THEN row.bytes ELSE 0)
                /\ QuantityOf(Open(t))'
                     = QuantityOf(Open(t)) + (IF t = row.type THEN row.quantity ELSE 0)
                /\ Cardinality(Open(t))'
                     = Cardinality(Open(t)) + (IF t = row.type THEN 1 ELSE 0)
           /\ \A t \in {"buy", "sell"}, a \in Accounts :
                BytesOf(OpenBy(t, a))' = BytesOf(OpenBy(t, a))
                  + (IF t = row.type /\ a = row.owner THEN row.bytes ELSE 0)
<1>1. PICK n \in Ids :
        /\ orders'[n] = row /\ orders[n] = NoOrder
        /\ \A i \in Ids \ {n} : orders'[i] = orders[i]
        /\ n \notin Open(row.type) /\ Open(row.type)' = Open(row.type) \cup {n}
        /\ OpenBy(row.type, row.owner)' = OpenBy(row.type, row.owner) \cup {n}
        /\ \A t \in {"buy", "sell"} : t # row.type => Open(t)' = Open(t)
        /\ \A t \in {"buy", "sell"}, a \in Accounts :
             t # row.type \/ a # row.owner => OpenBy(t, a)' = OpenBy(t, a)
  BY AddedRows
<1> DEFINE b == [i \in Ids |-> orders'[i].bytes]  q == [i \in Ids |-> orders'[i].quantity]
<1>2. NoOrder.type = "none"
  BY DEF NoOrder
<1>3. ASSUME NEW X \in SUBSET Ids, n \notin X
      PROVE  /\ SumFunctionOnSet(b, X) = BytesOf(X) /\ SumFunctionOnSet(q, X) = QuantityOf(X)
             /\ SumFunctionOnSet(b, X \cup {n}) = BytesOf(X) + row.bytes
             /\ SumFunctionOnSet(q, X \cup {n}) = QuantityOf(X) + row.quantity
             /\ Cardinality(X \cup {n}) = Cardinality(X) + 1
             /\ BytesOf(X) \in Nat /\ QuantityOf(X) \in Nat /\ Cardinality(X) \in Nat
  <2>1. IsFiniteSet(X)
    BY IdsFacts
  <2>2. /\ BytesOf(X) \in Nat /\ QuantityOf(X) \in Nat /\ Cardinality(X) \in Nat
    BY <2>1, TotalFacts, FS_CardinalityType
  <2>3. orders'[n] = row /\ \A i \in Ids \ {n} : orders'[i] = orders[i]
    BY <1>1
  <2>4. /\ SumFunctionOnSet(b, X) = BytesOf(X) /\ SumFunctionOnSet(q, X) = QuantityOf(X)
        /\ SumFunctionOnSet(b, X \cup {n}) = BytesOf(X) + row.bytes
        /\ SumFunctionOnSet(q, X \cup {n}) = QuantityOf(X) + row.quantity
        /\ Cardinality(X \cup {n}) = Cardinality(X) + 1
    BY <1>3, <2>3, AddedTotals
  <2> QED BY <2>2, <2>4
<1>4. ASSUME NEW t \in {"buy", "sell"}
      PROVE  /\ Open(t) \in SUBSET Ids /\ n \notin Open(t)
             /\ \A a \in Accounts : OpenBy(t, a) \in SUBSET Ids /\ n \notin OpenBy(t, a)
  BY <1>1, <1>2 DEF Open, OpenBy
<1>5. ASSUME NEW t \in {"buy", "sell"}
      PROVE  /\ BytesOf(Open(t))' = BytesOf(Open(t)) + (IF t = row.type THEN row.bytes ELSE 0)
             /\ QuantityOf(Open(t))'
                  = QuantityOf(Open(t)) + (IF t = row.type THEN row.quantity ELSE 0)
             /\ Cardinality(Open(t))' = Cardinality(Open(t)) + (IF t = row.type THEN 1 ELSE 0)
  <2> DEFINE X == Open(t)  Z == Open(t)'
  <2>1. /\ BytesOf(Open(t))' = SumFunctionOnSet(b, Z)
        /\ QuantityOf(Open(t))' = SumFunctionOnSet(q, Z)
        /\ Cardinality(Open(t))' = Cardinality(Z)
    BY DEF BytesOf, QuantityOf
  <2>2. Z = IF t = row.type THEN X \cup {n} ELSE X
    BY <1>1
  <2>3. X \in SUBSET Ids /\ n \notin X
    BY <1>4
  <2> HIDE DEF b, q, X, Z
  <2>4. /\ SumFunctionOnSet(b, Z) = BytesOf(X) + (IF t = row.type THEN row.bytes ELSE 0)
        /\ SumFunctionOnSet(q, Z) = QuantityOf(X) + (IF t = row.type THEN row.quantity ELSE 0)
        /\ Cardinality(Z) = Cardinality(X) + (IF t = row.type THEN 1 ELSE 0)
    BY <1>3, <2>2, <2>3
  <2> QED BY <2>1, <2>4 DEF X
<1>6. ASSUME NEW t \in {"buy", "sell"}, NEW a \in Accounts
      PROVE  BytesOf(OpenBy(t, a))' = BytesOf(OpenBy(t, a))
               + (IF t = row.type /\ a = row.owner THEN row.bytes ELSE 0)
  <2> DEFINE X == OpenBy(t, a)  Z == OpenBy(t, a)'
  <2>1. BytesOf(OpenBy(t, a))' = SumFunctionOnSet(b, Z)
    BY DEF BytesOf
  <2>2. Z = IF t = row.type /\ a = row.owner THEN X \cup {n} ELSE X
    BY <1>1
  <2>3. X \in SUBSET Ids /\ n \notin X
    BY <1>4
  <2> HIDE DEF b, q, X, Z
  <2>4. SumFunctionOnSet(b, Z)
          = BytesOf(X) + (IF t = row.type /\ a = row.owner THEN row.bytes ELSE 0)
    BY <1>3, <2>2, <2>3
  <2> QED BY <2>1, <2>4 DEF X
<1> QED BY <1>5, <1>6

(* What a new sell order or a new buy order writes to stat. *)
SellListed(now, row, n, q, b) ==
    now = [row EXCEPT !.num_sell_orders = n, !.sell_quantity = q, !.sell_bytes = b]
BuyListed(now, row, n, q, b) ==
    now = [row EXCEPT !.num_buy_orders = n, !.buy_quantity = q, !.buy_bytes = b]

LEMMA SellListedFields ==
    ASSUME NEW row \in BookRow, NEW n \in Nat, NEW q \in Nat, NEW b \in Nat,
           NEW now, SellListed(now, row, n, q, b)
    PROVE  /\ now \in BookRow
           /\ now.num_sell_orders = n /\ now.sell_quantity = q /\ now.sell_bytes = b
           /\ now.num_buy_orders = row.num_buy_orders
           /\ now.buy_quantity = row.buy_quantity /\ now.buy_bytes = row.buy_bytes
           /\ now.num_trade_orders = row.num_trade_orders
  BY Zenon DEF BookRow, SellListed

LEMMA BuyListedFields ==
    ASSUME NEW row \in BookRow, NEW n \in Nat, NEW q \in Nat, NEW b \in Nat,
           NEW now, BuyListed(now, row, n, q, b)
    PROVE  /\ now \in BookRow
           /\ now.num_buy_orders = n /\ now.buy_quantity = q /\ now.buy_bytes = b
           /\ now.num_sell_orders = row.num_sell_orders
           /\ now.sell_quantity = row.sell_quantity /\ now.sell_bytes = row.sell_bytes
           /\ now.num_trade_orders = row.num_trade_orders
  BY Zenon DEF BookRow, BuyListed

(* A sell order freezes its bytes and enters the book; no bytes move. *)
LEMMA SellOrderSafe ==
    ASSUME XInv, NEW owner \in Accounts, NEW price \in Prices, NEW bytes \in Amounts,
           SellOrder(owner, price, bytes)
    PROVE  XInv' /\ Fair /\ book'.num_trade_orders = book.num_trade_orders
<1> DEFINE quantity == (price * bytes) \div PricePrecision
           row == [type |-> "sell", owner |-> owner, price |-> price,
                   bytes |-> bytes, quantity |-> quantity]
           frozen == deposits[owner].frozen_bytes + bytes
<1>1. /\ IndInv /\ ExchangeTypeOK /\ FrozenMatchesOrders /\ EscrowMatchesOrders
      /\ BookMatchesOrders /\ NextIdFree
  BY DEF XInv, ExchangeInv
<1>2. /\ CanFreeze(owner, bytes)
      /\ deposits' = [deposits EXCEPT ![owner].frozen_bytes = frozen]
      /\ AddOrder(row)
      /\ book' = [book EXCEPT !.num_sell_orders = book.num_sell_orders + 1,
                              !.sell_quantity = book.sell_quantity + quantity,
                              !.sell_bytes = book.sell_bytes + bytes]
      /\ UNCHANGED <<config, stat, borrows, container, rewardVars, settings, eos, ignored>>
  BY DEF SellOrder, Frozen
<1>3. bytes \in Nat /\ price \in Nat /\ quantity \in Nat
  <2>1. bytes \in Nat /\ price \in Nat /\ PricePrecision \in Nat \ {0}
    BY BoundsAssumption, ExchangeAssumption
  <2> QED BY <2>1, ProductNat, Division
<1> HIDE DEF quantity
<1>4. row \in OrderRow /\ row.type = "sell" /\ row.owner = owner
      /\ row.bytes = bytes /\ row.quantity = quantity
  BY <1>3 DEF OrderRow
<1> HIDE DEF row
<1>5. /\ orderId' \in 0..MaxOrders /\ NextIdFree'
      /\ orders' \in [Ids -> OrderRow \cup {NoOrder}]
  BY <1>1, <1>2, <1>4, AddedRows DEF Ids
<1>6. /\ deposits[owner].frozen_bytes \in Nat /\ frozen \in Nat
      /\ frozen <= deposits[owner].bytes
      /\ deposits \in [Accounts -> DepositRow]
      /\ \A a \in Accounts : deposits[a].frozen_bytes \in Nat
  BY <1>1, <1>2, <1>3, LedgerTotals DEF IndInv, LedgerInv, LedgerTypes, CanFreeze, Available
<1>7. IndInv' /\ Fair
  <2> HIDE DEF frozen
  <2> QED BY <1>1, <1>2, <1>6, FreezingSafe
<1>8. /\ deposits'[owner].frozen_bytes = deposits[owner].frozen_bytes + bytes
      /\ \A a \in Accounts \ {owner} : deposits'[a].frozen_bytes = deposits[a].frozen_bytes
  BY <1>2, <1>6 DEF DepositRow
<1>9. /\ BytesOf(Open("sell"))' = BytesOf(Open("sell")) + bytes
      /\ QuantityOf(Open("sell"))' = QuantityOf(Open("sell")) + quantity
      /\ Cardinality(Open("sell"))' = Cardinality(Open("sell")) + 1
      /\ BytesOf(OpenBy("sell", owner))' = BytesOf(OpenBy("sell", owner)) + bytes
  BY <1>1, <1>2, <1>4, AddedBooks
<1>10. /\ BytesOf(Open("buy"))' = BytesOf(Open("buy"))
       /\ QuantityOf(Open("buy"))' = QuantityOf(Open("buy"))
       /\ Cardinality(Open("buy"))' = Cardinality(Open("buy"))
  BY <1>1, <1>2, <1>4, AddedBooks, OpenTotals
<1>11. FrozenMatchesOrders'
  <2>1. ASSUME NEW a \in Accounts
        PROVE  deposits'[a].frozen_bytes = BytesOf(OpenBy("sell", a))'
    <3>1. CASE a = owner
      BY <1>1, <1>8, <1>9, <3>1 DEF FrozenMatchesOrders
    <3>2. CASE a # owner
      <4>1. BytesOf(OpenBy("sell", a))' = BytesOf(OpenBy("sell", a))
        BY <1>1, <1>2, <1>4, <3>2, AddedBooks, OpenTotals
      <4> QED BY <1>1, <1>8, <3>2, <4>1 DEF FrozenMatchesOrders
    <3> QED BY <3>1, <3>2
  <2> QED BY <2>1 DEF FrozenMatchesOrders
<1>12. EscrowMatchesOrders'
  BY <1>1, <1>2, <1>10 DEF EscrowMatchesOrders
<1>13. /\ book' \in BookRow /\ BookMatchesOrders'
       /\ book'.num_trade_orders = book.num_trade_orders
  <2>1. /\ book \in BookRow /\ book.num_sell_orders + 1 \in Nat
        /\ book.sell_quantity + quantity \in Nat /\ book.sell_bytes + bytes \in Nat
    BY <1>1, <1>3 DEF ExchangeTypeOK, BookRow
  <2>2. /\ book' \in BookRow
        /\ book'.num_sell_orders = book.num_sell_orders + 1
        /\ book'.sell_quantity = book.sell_quantity + quantity
        /\ book'.sell_bytes = book.sell_bytes + bytes
        /\ book'.num_buy_orders = book.num_buy_orders
        /\ book'.buy_quantity = book.buy_quantity /\ book'.buy_bytes = book.buy_bytes
        /\ book'.num_trade_orders = book.num_trade_orders
    <3>1. SellListed(book', book, book.num_sell_orders + 1, book.sell_quantity + quantity,
                     book.sell_bytes + bytes)
      BY <1>2 DEF SellListed
    <3> QED BY <2>1, <3>1, SellListedFields
  <2> QED BY <1>1, <1>9, <1>10, <2>2 DEF BookMatchesOrders
<1>14. ExchangeTypeOK'
  BY <1>1, <1>2, <1>5, <1>13 DEF ExchangeTypeOK, Ids
<1> QED BY <1>5, <1>7, <1>11, <1>12, <1>13, <1>14 DEF XInv, ExchangeInv

(* A buy order leaves its EOS in escrow; the lending contract is not involved. *)
LEMMA BuyOrderSafe ==
    ASSUME XInv, NEW owner \in Accounts, NEW price \in Prices, NEW paid \in Quantities,
           BuyOrder(owner, price, paid)
    PROVE  XInv' /\ Fair /\ book'.num_trade_orders = book.num_trade_orders
<1> DEFINE bytes == (paid * PricePrecision) \div price
           row == [type |-> "buy", owner |-> owner, price |-> price,
                   bytes |-> bytes, quantity |-> paid]
<1>1. /\ IndInv /\ ExchangeTypeOK /\ FrozenMatchesOrders /\ EscrowMatchesOrders
      /\ BookMatchesOrders /\ NextIdFree
  BY DEF XInv, ExchangeInv
<1>2. /\ price > 0
      /\ AddOrder(row)
      /\ book' = [book EXCEPT !.num_buy_orders = book.num_buy_orders + 1,
                              !.buy_quantity = book.buy_quantity + paid,
                              !.buy_bytes = book.buy_bytes + bytes]
      /\ eos' = eos + paid
      /\ UNCHANGED <<bankVars, settings, ignored>>
  BY DEF BuyOrder
<1>3. paid \in Nat /\ price \in Nat /\ bytes \in Nat
  <2>1. paid \in Nat /\ price \in Nat \ {0} /\ PricePrecision \in Nat
    BY <1>2, ExchangeAssumption
  <2> QED BY <2>1, ProductNat, Division
<1> HIDE DEF bytes
<1>4. row \in OrderRow /\ row.type = "buy" /\ row.owner = owner
      /\ row.bytes = bytes /\ row.quantity = paid
  BY <1>3 DEF OrderRow
<1> HIDE DEF row
<1>5. /\ orderId' \in 0..MaxOrders /\ NextIdFree'
      /\ orders' \in [Ids -> OrderRow \cup {NoOrder}]
  BY <1>1, <1>2, <1>4, AddedRows DEF Ids
<1>6. IndInv' /\ Fair /\ deposits' = deposits
  BY <1>1, <1>2, StutterSafe DEF bankVars, ledgerVars
<1>7. /\ BytesOf(Open("sell"))' = BytesOf(Open("sell"))
      /\ QuantityOf(Open("sell"))' = QuantityOf(Open("sell"))
      /\ Cardinality(Open("sell"))' = Cardinality(Open("sell"))
  BY <1>1, <1>2, <1>4, AddedBooks, OpenTotals
<1>8. /\ BytesOf(Open("buy"))' = BytesOf(Open("buy")) + bytes
      /\ QuantityOf(Open("buy"))' = QuantityOf(Open("buy")) + paid
      /\ Cardinality(Open("buy"))' = Cardinality(Open("buy")) + 1
  BY <1>1, <1>2, <1>4, AddedBooks
<1>9. FrozenMatchesOrders'
  <2>1. ASSUME NEW a \in Accounts
        PROVE  deposits'[a].frozen_bytes = BytesOf(OpenBy("sell", a))'
    <3>1. BytesOf(OpenBy("sell", a))' = BytesOf(OpenBy("sell", a))
      BY <1>1, <1>2, <1>4, AddedBooks, OpenTotals
    <3> QED BY <1>1, <1>6, <3>1 DEF FrozenMatchesOrders
  <2> QED BY <2>1 DEF FrozenMatchesOrders
<1>11. EscrowMatchesOrders' /\ eos' \in Nat
  <2>1. /\ eos = QuantityOf(Open("buy")) + ignored /\ eos \in Nat /\ ignored \in Nat
        /\ QuantityOf(Open("buy")) \in Nat
    BY <1>1, OpenTotals DEF EscrowMatchesOrders, ExchangeTypeOK
  <2>2. eos' = QuantityOf(Open("buy"))' + ignored' /\ eos' \in Nat
    BY <1>2, <1>3, <1>8, <2>1
  <2> QED BY <2>2 DEF EscrowMatchesOrders
<1>12. /\ book' \in BookRow /\ BookMatchesOrders'
       /\ book'.num_trade_orders = book.num_trade_orders
  <2>1. /\ book \in BookRow /\ book.num_buy_orders + 1 \in Nat
        /\ book.buy_quantity + paid \in Nat /\ book.buy_bytes + bytes \in Nat
    BY <1>1, <1>3 DEF ExchangeTypeOK, BookRow
  <2>2. /\ book' \in BookRow
        /\ book'.num_buy_orders = book.num_buy_orders + 1
        /\ book'.buy_quantity = book.buy_quantity + paid
        /\ book'.buy_bytes = book.buy_bytes + bytes
        /\ book'.num_sell_orders = book.num_sell_orders
        /\ book'.sell_quantity = book.sell_quantity /\ book'.sell_bytes = book.sell_bytes
        /\ book'.num_trade_orders = book.num_trade_orders
    <3>1. BuyListed(book', book, book.num_buy_orders + 1, book.buy_quantity + paid,
                     book.buy_bytes + bytes)
      BY <1>2 DEF BuyListed
    <3> QED BY <2>1, <3>1, BuyListedFields
  <2> QED BY <1>1, <1>7, <1>8, <2>2 DEF BookMatchesOrders
<1>13. ExchangeTypeOK'
  BY <1>1, <1>2, <1>5, <1>11, <1>12 DEF ExchangeTypeOK, Ids
<1> QED BY <1>5, <1>6, <1>9, <1>11, <1>12, <1>13 DEF XInv, ExchangeInv

-----------------------------------------------------------------------------
(* Steps that open and close no order. *)

(* While the orders and the frozen bytes stay, so do the books; EOS to be ignored
   is added to both sides. *)
LEMMA BooksUntouched ==
    ASSUME ExchangeInv, settings' \in SettingsRow, NEW paid \in Nat,
           eos' = eos + paid, ignored' = ignored + paid,
           UNCHANGED <<orders, orderId, book>>,
           \A a \in Accounts : deposits'[a].frozen_bytes = deposits[a].frozen_bytes
    PROVE  ExchangeInv'
<1>1. /\ ExchangeTypeOK /\ FrozenMatchesOrders /\ EscrowMatchesOrders
      /\ BookMatchesOrders /\ NextIdFree
  BY DEF ExchangeInv
<1>2. ExchangeTypeOK'
  BY <1>1 DEF ExchangeTypeOK
<1>3. FrozenMatchesOrders'
  <2>1. ASSUME NEW a \in Accounts
        PROVE  deposits'[a].frozen_bytes = BytesOf(OpenBy("sell", a))'
    <3>1. BytesOf(OpenBy("sell", a))' = BytesOf(OpenBy("sell", a))
      BY DEF BytesOf, OpenBy, Open
    <3> QED BY <1>1, <3>1 DEF FrozenMatchesOrders
  <2> QED BY <2>1 DEF FrozenMatchesOrders
<1>4. EscrowMatchesOrders'
  <2>1. QuantityOf(Open("buy"))' = QuantityOf(Open("buy"))
    BY DEF QuantityOf, Open
  <2>2. Open("buy") \in SUBSET Ids
    BY DEF Open
  <2>3. QuantityOf(Open("buy")) \in Nat
    BY <1>1, <2>2, TotalFacts
  <2>4. eos = QuantityOf(Open("buy")) + ignored /\ ignored \in Nat
    BY <1>1 DEF EscrowMatchesOrders, ExchangeTypeOK
  <2>5. eos' = QuantityOf(Open("buy"))' + ignored'
    BY <2>1, <2>3, <2>4
  <2> QED BY <2>5 DEF EscrowMatchesOrders
<1>5. BookMatchesOrders' /\ NextIdFree'
  BY <1>1 DEF BookMatchesOrders, NextIdFree, BytesOf, QuantityOf, Open
<1> QED BY <1>2, <1>3, <1>4, <1>5 DEF ExchangeInv

(* Only the exchange freezes and unfreezes. *)
LEMMA FrozenUntouched ==
    ASSUME LedgerTypes, AdminNext \/ LedgerNext, NEW b \in Accounts
    PROVE  deposits'[b].frozen_bytes = deposits[b].frozen_bytes
<1> DEFINE Same == deposits'[b].frozen_bytes = deposits[b].frozen_bytes
<1>1. deposits \in [Accounts -> DepositRow]
  BY DEF LedgerTypes
<1>2. ASSUME UNCHANGED deposits PROVE Same
  BY <1>2
<1>3. CASE AdminNext
  <2>1. ASSUME NEW t \in Tokens, AddRentToken(t) PROVE UNCHANGED deposits
    BY <2>1 DEF AddRentToken, ledgerVars
  <2>2. ASSUME NEW t \in Tokens, NEW enabled \in BOOLEAN, TokenStatus(t, enabled)
        PROVE  UNCHANGED deposits
    BY <2>2 DEF TokenStatus, ledgerVars
  <2>3. ASSUME NEW limit \in DepositLimits, MaxDeposit(limit) PROVE UNCHANGED deposits
    BY <2>3 DEF MaxDeposit, SetConfig, ledgerVars
  <2>4. ASSUME NEW d \in BOOLEAN, NEW w \in BOOLEAN, UpdateStatus(d, w) PROVE UNCHANGED deposits
    BY <2>4 DEF UpdateStatus, SetConfig, ledgerVars
  <2>5. ASSUME NEW d \in FeeRatios, NEW w \in FeeRatios, NEW o \in DaoRatios,
               NEW u \in UsageLimits, UpdateRatio(d, w, o, u)
        PROVE  UNCHANGED deposits
    BY <2>5 DEF UpdateRatio, SetConfig, ledgerVars
  <2>6. ASSUME NEW d \in BOOLEAN, TransStatus(d) PROVE UNCHANGED deposits
    BY <2>6 DEF TransStatus, SetConfig, ledgerVars
  <2> QED BY <1>2, <1>3, <2>1, <2>2, <2>3, <2>4, <2>5, <2>6 DEF AdminNext
<1>4. ASSUME NEW a \in Accounts, NEW n \in Amounts, DepositRam(a, n) PROVE Same
  BY <1>1, <1>4 DEF DepositRam, DepositRow
<1>5. ASSUME NEW a \in Accounts, NEW n \in Amounts, Withdraw(a, n) PROVE Same
  BY <1>1, <1>5 DEF Withdraw, DepositRow
<1>6. ASSUME NEW a \in Accounts, NEW c \in Accounts, NEW n \in Amounts, Transfer(a, c, n)
      PROVE  Same
  BY <1>1, <1>6 DEF Transfer, MoveBytes, Moved, DepositRow
<1>7. CASE LedgerNext
  BY <1>2, <1>4, <1>5, <1>6, <1>7 DEF LedgerNext, Borrow, RepayRam, DepositRent, ledgerVars
<1> QED BY <1>3, <1>7

(* The lending contract on its own does not touch the books of the exchange. *)
LEMMA BankStepSafe ==
    ASSUME XInv, BankStep
    PROVE  XInv' /\ Fair /\ UNCHANGED <<orders, book>>
<1>1. (AdminNext \/ LedgerNext) /\ UNCHANGED <<settings, orders, orderId, book, eos, ignored>>
  BY DEF BankStep, exchangeVars
<1>2. IndInv' /\ Fair
  BY <1>1, NextSafe DEF XInv, Next
<1>3. \A a \in Accounts : deposits'[a].frozen_bytes = deposits[a].frozen_bytes
  BY <1>1, FrozenUntouched DEF XInv, IndInv, LedgerInv
<1>4. settings' \in SettingsRow /\ eos' = eos + 0 /\ ignored' = ignored + 0
  BY <1>1 DEF XInv, ExchangeInv, ExchangeTypeOK
<1>5. ExchangeInv'
  BY <1>1, <1>3, <1>4, BooksUntouched DEF XInv
<1> QED BY <1>1, <1>2, <1>5 DEF XInv

(* Settings of the exchange are written as a whole. *)
LEMMA SettingsFields ==
    ASSUME NEW row \in SettingsRow
    PROVE  /\ \A n \in Nat : [[row EXCEPT !.has_fee_account = TRUE, !.fee_ratio = n]
                                EXCEPT !.exists = TRUE] \in SettingsRow
           /\ \A i \in Int, n \in Nat :
                [[row EXCEPT !.min_trade_amount = i, !.min_trade_bytes = n]
                   EXCEPT !.exists = TRUE] \in SettingsRow
           /\ \A p, q, r \in BOOLEAN :
                [[row EXCEPT !.disabled_trade = p, !.disabled_pending_order = q,
                             !.disabled_cancel_order = r]
                   EXCEPT !.exists = TRUE] \in SettingsRow
  BY Zenon DEF SettingsRow

(* EOS sent to be ignored, and settings, leave the books as they are. *)
LEMMA SettingSafe ==
    ASSUME XInv, ExchangeAdmin \/ \E paid \in Quantities : IgnoredTransfer(paid)
    PROVE  XInv' /\ Fair /\ UNCHANGED <<orders, book>>
<1>1. ExchangeInv /\ IndInv /\ settings \in SettingsRow /\ eos \in Nat /\ ignored \in Nat
  BY DEF XInv, ExchangeInv, ExchangeTypeOK
<1>2. ASSUME settings' \in SettingsRow, NEW paid \in Nat,
             eos' = eos + paid, ignored' = ignored + paid,
             UNCHANGED <<bankVars, orders, orderId, book>>
      PROVE  XInv' /\ Fair
  <2>1. IndInv' /\ Fair
    BY <1>1, <1>2, StutterSafe
  <2>2. \A a \in Accounts : deposits'[a].frozen_bytes = deposits[a].frozen_bytes
    BY <1>2 DEF bankVars, ledgerVars
  <2>3. ExchangeInv'
    BY <1>1, <1>2, <2>2, BooksUntouched
  <2> QED BY <2>1, <2>3 DEF XInv
<1>3. ASSUME NEW row, SetSettings(row), [row EXCEPT !.exists = TRUE] \in SettingsRow
      PROVE  XInv' /\ Fair /\ UNCHANGED <<orders, book>>
  <2>1. /\ settings' \in SettingsRow
        /\ UNCHANGED <<bankVars, orders, orderId, book, eos, ignored>>
    BY <1>3 DEF SetSettings
  <2>2. eos' = eos + 0 /\ ignored' = ignored + 0
    BY <1>1, <2>1
  <2> QED BY <1>2, <2>1, <2>2
<1>4. ASSUME NEW ratio \in TradeFeeRatios, FeeConfig(ratio)
      PROVE  XInv' /\ Fair /\ UNCHANGED <<orders, book>>
  <2>1. ratio \in Nat
    BY ExchangeAssumption
  <2> DEFINE row == [settings EXCEPT !.has_fee_account = TRUE, !.fee_ratio = ratio]
  <2>2. SetSettings(row) /\ [row EXCEPT !.exists = TRUE] \in SettingsRow
    BY <1>1, <1>4, <2>1, SettingsFields, Zenon DEF FeeConfig
  <2> HIDE DEF row
  <2> QED BY <1>3, <2>2
<1>5. ASSUME NEW amount \in MinAmounts, NEW bytes \in MinBytes, TradeConfig(amount, bytes)
      PROVE  XInv' /\ Fair /\ UNCHANGED <<orders, book>>
  <2>1. amount \in Int /\ bytes \in Nat
    BY ExchangeAssumption
  <2> DEFINE row == [settings EXCEPT !.min_trade_amount = amount, !.min_trade_bytes = bytes]
  <2>2. SetSettings(row) /\ [row EXCEPT !.exists = TRUE] \in SettingsRow
    BY <1>1, <1>5, <2>1, SettingsFields, Zenon DEF TradeConfig
  <2> HIDE DEF row
  <2> QED BY <1>3, <2>2
<1>6. ASSUME NEW p \in BOOLEAN, NEW q \in BOOLEAN, NEW r \in BOOLEAN, StatusConfig(p, q, r)
      PROVE  XInv' /\ Fair /\ UNCHANGED <<orders, book>>
  <2> DEFINE row == [settings EXCEPT !.disabled_trade = p, !.disabled_pending_order = q,
                                     !.disabled_cancel_order = r]
  <2>1. SetSettings(row) /\ [row EXCEPT !.exists = TRUE] \in SettingsRow
    BY <1>1, <1>6, SettingsFields, Zenon DEF StatusConfig
  <2> HIDE DEF row
  <2> QED BY <1>3, <2>1
<1>7. ASSUME NEW paid \in Quantities, IgnoredTransfer(paid)
      PROVE  XInv' /\ Fair /\ UNCHANGED <<orders, book>>
  <2>1. paid \in Nat
    BY ExchangeAssumption
  <2>2. /\ settings' \in SettingsRow /\ eos' = eos + paid /\ ignored' = ignored + paid
        /\ UNCHANGED <<bankVars, orders, orderId, book>>
    BY <1>1, <1>7 DEF IgnoredTransfer
  <2> QED BY <1>2, <2>1, <2>2
<1> QED BY <1>4, <1>5, <1>6, <1>7 DEF ExchangeAdmin

-----------------------------------------------------------------------------
(* Cancelling. *)

(* cancelorder gives every owner the frozen bytes and the escrow of exactly the
   orders it erases. *)
LEMMA CancelSafe ==
    ASSUME XInv, NEW S \in SUBSET Ids, Cancel(S)
    PROVE  XInv' /\ Fair /\ book'.num_trade_orders = book.num_trade_orders
<1> DEFINE sold(a) == BytesOf({i \in S \cap Open("sell") : orders[i].owner = a})
<1>1. /\ IndInv /\ ExchangeInv /\ ExchangeTypeOK /\ FrozenMatchesOrders
      /\ BookMatchesOrders
  BY DEF XInv, ExchangeInv
<1>2. /\ \A a \in Accounts : sold(a) <= deposits[a].frozen_bytes
      /\ deposits' = [a \in Accounts |-> [deposits[a] EXCEPT !.frozen_bytes = @ - sold(a)]]
      /\ orders' = Closed(S) /\ book' = Unlisted(S)
      /\ eos' = eos - QuantityOf(S \cap Open("buy"))
      /\ UNCHANGED <<config, stat, borrows, container, rewardVars, settings, orderId, ignored>>
  BY DEF Cancel, RefundOf
<1>3. ASSUME NEW a \in Accounts
      PROVE  sold(a) = BytesOf(S \cap OpenBy("sell", a)) /\ sold(a) \in Nat
  <2>1. {i \in S \cap Open("sell") : orders[i].owner = a} = S \cap OpenBy("sell", a)
    BY DEF OpenBy
  <2>2. S \cap OpenBy("sell", a) \in SUBSET Ids
    OBVIOUS
  <2>3. BytesOf(S \cap OpenBy("sell", a)) \in Nat
    BY <1>1, <2>2, TotalFacts
  <2> QED BY <2>1, <2>3
<1> HIDE DEF sold
<1>4. ASSUME NEW a \in Accounts
      PROVE  /\ deposits'[a] \in DepositRow
             /\ deposits'[a].bytes = deposits[a].bytes
             /\ deposits'[a].frozen_bytes = deposits[a].frozen_bytes - sold(a)
             /\ deposits'[a].frozen_bytes <= deposits'[a].bytes
  <2>1. /\ deposits[a] \in DepositRow /\ deposits[a].frozen_bytes \in Nat
        /\ deposits[a].bytes \in Nat /\ deposits[a].frozen_bytes <= deposits[a].bytes
    BY <1>1, LedgerTotals DEF IndInv
  <2>2. deposits'[a] = [deposits[a] EXCEPT !.frozen_bytes
                          = deposits[a].frozen_bytes - sold(a)]
    BY <1>2
  <2> DEFINE s == sold(a)  f == deposits[a].frozen_bytes  b == deposits[a].bytes
  <2>3. f - s \in Nat /\ f - s <= b
    <3>1. s \in Nat /\ s <= f /\ f \in Nat /\ b \in Nat /\ f <= b
      BY <1>2, <1>3, <2>1
    <3> HIDE DEF s, f, b
    <3> QED BY <3>1
  <2>4. /\ deposits'[a] \in DepositRow
        /\ deposits'[a].bytes = deposits[a].bytes
        /\ deposits'[a].frozen_bytes = deposits[a].frozen_bytes - sold(a)
    BY <2>1, <2>2, <2>3 DEF DepositRow
  <2> QED BY <2>3, <2>4
<1>5. IndInv' /\ Fair
  <2>1. deposits' \in [Accounts -> DepositRow]
    BY <1>2, <1>4
  <2> QED BY <1>1, <1>2, <1>4, <2>1, FrozenOnlySafe
<1>6. ExchangeInv'
  BY <1>1, <1>2, <1>3, <1>4, ClosingKeepsBooks
<1>7. book'.num_trade_orders = book.num_trade_orders
  <2>1. book.num_trade_orders \in Nat
    BY <1>1 DEF ExchangeTypeOK, BookRow
  <2>2. book'.num_trade_orders
          = book.num_trade_orders + (IF book' = Unlisted(S) THEN 0 ELSE Cardinality(S))
    <3>1. book' = Unlisted(S) \/ book' = Traded(S)
      BY <1>2
    <3> QED BY <1>1, <3>1, BookAfter
  <2>3. book'.num_trade_orders = book.num_trade_orders + 0
    BY <1>2, <2>2
  <2> QED BY <2>1, <2>3
<1> QED BY <1>5, <1>6, <1>7 DEF XInv

-----------------------------------------------------------------------------
(* Walking a list of ids. *)

(* A list names ids that exist, without repetition. *)
LEMMA ListFacts ==
    ASSUME NEW ids \in IdLists
    PROVE  /\ \E n \in 1..MaxOrders :
                /\ ids \in [1..n -> Ids]
                /\ \A j, k \in 1..n : ids[j] = ids[k] => j = k
           /\ Range(ids) \subseteq Ids
<1>1. PICK n \in 1..MaxOrders : /\ ids \in [1..n -> Ids]
                                /\ \A j, k \in 1..n : ids[j] = ids[k] => j = k
  BY DEF IdLists
<1>2. Range(ids) \subseteq Ids
  BY <1>1 DEF Range
<1> QED BY <1>1, <1>2

(* The orders a walk executes are open, of the type asked for, and together fit
   into the budget: the last one executed was checked against what all the
   others had left. *)
LEMMA WalkWithin ==
    ASSUME NEW ids \in IdLists, NEW type, NEW cost, \A i \in Ids : cost[i] \in Nat,
           NEW budget \in Int, NEW S \in SUBSET Range(ids), S # {},
           Walk(ids, type, cost, budget, S)
    PROVE  S \in SUBSET Open(type) /\ S \in SUBSET Ids /\ SumFunctionOnSet(cost, S) <= budget
<1>1. PICK n \in 1..MaxOrders : /\ ids \in [1..n -> Ids]
                                /\ \A j, k \in 1..n : ids[j] = ids[k] => j = k
  BY ListFacts
<1>2. n \in Nat /\ DOMAIN ids = 1..n
  BY <1>1, ExchangeAssumption
<1>3. S \in SUBSET Ids /\ \A i \in S : \E k \in 1..n : ids[k] = i
  BY <1>1, ListFacts DEF Range
<1>4. ASSUME NEW k \in 1..n, ids[k] \in S
      PROVE  /\ ids[k] \in Open(type)
             /\ cost[ids[k]] <=
                  budget - SumFunctionOnSet(cost, {ids[j] : j \in 1..(k - 1)} \cap S)
  BY <1>2, <1>4 DEF Walk
<1>5. S \in SUBSET Open(type)
  BY <1>3, <1>4
<1> DEFINE K == {k \in 1..n : ids[k] \in S}
           D == {n - k : k \in K}
<1>6. PICK last \in K : \A k \in K : k <= last
  <2>1. D \in SUBSET Nat /\ D # {}
    BY <1>2, <1>3
  <2>2. PICK d \in D : \A e \in D : d <= e
    <3> HIDE DEF D
    <3> QED BY <2>1, LeastNatural
  <2>3. PICK k \in K : d = n - k
    BY <2>2
  <2>4. \A j \in K : n - k <= n - j
    BY <2>2, <2>3
  <2>5. \A j \in K : j <= k
    BY <1>2, <2>3, <2>4
  <2> QED BY <2>3, <2>5
<1> DEFINE x == ids[last]  prefix == {ids[j] : j \in 1..(last - 1)} \cap S
<1>7. last \in 1..n /\ x \in S
  BY <1>6
<1>8. S \ {x} = prefix
  <2>1. ASSUME NEW i \in S, i # x PROVE i \in prefix
    <3>1. PICK k \in 1..n : ids[k] = i
      BY <1>3
    <3>2. k \in K /\ k # last
      BY <2>1, <3>1
    <3>3. k \in 1..(last - 1)
      BY <1>2, <1>6, <1>7, <3>2
    <3> QED BY <3>1, <3>3
  <2>2. ASSUME NEW j \in 1..(last - 1) PROVE ids[j] # x
    <3>1. j \in 1..n /\ j # last
      BY <1>2, <1>7, <2>2
    <3> QED BY <1>1, <1>7, <3>1
  <2> QED BY <2>1, <2>2
<1>9. IsFiniteSet(S) /\ \A i \in S : cost[i] \in Int
  BY <1>3, IdsFacts
<1>10. SumFunctionOnSet(cost, S) = cost[x] + SumFunctionOnSet(cost, S \ {x})
  <2> HIDE DEF x
  <2> QED BY <1>7, <1>9, SumRemove
<1>11. SumFunctionOnSet(cost, S \ {x}) \in Int
  <2> HIDE DEF x
  <2>1. IsFiniteSet(S \ {x}) /\ \A i \in S \ {x} : cost[i] \in Int
    BY <1>9, FS_Subset
  <2> QED BY <2>1, SumInt
<1>12. cost[x] <= budget - SumFunctionOnSet(cost, S \ {x}) /\ cost[x] \in Int
  BY <1>4, <1>7, <1>8, <1>9
<1> HIDE DEF x
<1>13. SumFunctionOnSet(cost, S) <= budget
  BY <1>10, <1>11, <1>12
<1> QED BY <1>3, <1>5, <1>13

-----------------------------------------------------------------------------
(* Trades. *)

(* The bytes of the orders of S that belong to a, for each a. *)
OwnedIn(S, a) == BytesOf({i \in S : orders[i].owner = a})

(* The bytes of the orders of S are those of their owners taken together. *)
LEMMA OwnersTotal ==
    ASSUME ExchangeTypeOK, NEW S \in SUBSET Ids, \A i \in S : orders[i] # NoOrder
    PROVE  /\ \A a \in Accounts : OwnedIn(S, a) \in Nat
           /\ \A a \in Accounts : a \notin Owners(S) => OwnedIn(S, a) = 0
           /\ SumFunctionOnSet([a \in Accounts |-> OwnedIn(S, a)], Accounts) = BytesOf(S)
<1> DEFINE b == [i \in Ids |-> orders[i].bytes]  own == [i \in Ids |-> orders[i].owner]
           g == [a \in Accounts |-> OwnedIn(S, a)]
<1>1. ASSUME NEW a \in Accounts
      PROVE  /\ OwnedIn(S, a) \in Nat
             /\ a \notin Owners(S) => OwnedIn(S, a) = 0
  <2> DEFINE part == {i \in S : orders[i].owner = a}
  <2>1. part \in SUBSET Ids
    OBVIOUS
  <2>2. BytesOf(part) \in Nat /\ (part = {} => BytesOf(part) = 0)
    <3> HIDE DEF part
    <3> QED BY <2>1, TotalFacts
  <2>3. a \notin Owners(S) => part = {}
    BY DEF Owners
  <2> QED BY <2>2, <2>3 DEF OwnedIn
<1>2. IsFiniteSet(S) /\ \A i \in S : b[i] \in Int /\ own[i] \in Accounts
  BY IdsFacts, OrderFacts
<1>3. \A a \in Accounts : g[a] = SumFunctionOnSet(b, {i \in S : own[i] = a})
  <2>1. ASSUME NEW a \in Accounts
        PROVE  {i \in S : orders[i].owner = a} = {i \in S : own[i] = a}
    OBVIOUS
  <2> QED BY <2>1 DEF OwnedIn, BytesOf
<1>4. SumFunctionOnSet(g, Accounts) = SumFunctionOnSet(b, S)
  <2> HIDE DEF b, own, g
  <2> QED BY <1>2, <1>3, AccountsAssumption, SumGroups, SMTT(60)
<1> QED BY <1>1, <1>4 DEF BytesOf

(* Bytes that one account gives to, or takes from, the owners of the orders of
   others leave the total of the deposits as it was. *)
LEMMA TradeKeepsTotal ==
    ASSUME LedgerTypes, ExchangeTypeOK, deposits' \in [Accounts -> DepositRow],
           NEW owner \in Accounts, NEW c \in {1, -1},
           NEW T \in SUBSET Ids, \A i \in T : orders[i] # NoOrder /\ orders[i].owner # owner,
           deposits'[owner].bytes = deposits[owner].bytes - c * BytesOf(T),
           \A a \in Accounts \ {owner} :
             deposits'[a].bytes = deposits[a].bytes + c * OwnedIn(T, a)
    PROVE  DepositsTotal' = DepositsTotal
<1> DEFINE B == BytesOf(T)
           g == [a \in Accounts |-> OwnedIn(T, a)]
           h == [a \in Accounts |-> c * OwnedIn(T, a)]
           d == [a \in Accounts |-> deposits'[a].bytes - deposits[a].bytes]
           f == [a \in Accounts |-> deposits[a].bytes]
           e == [a \in Accounts |-> deposits'[a].bytes]
<1>1. B \in Nat /\ c \in Int
  BY TotalFacts
<1>2. /\ \A a \in Accounts : OwnedIn(T, a) \in Nat
      /\ owner \notin Owners(T) /\ OwnedIn(T, owner) = 0
      /\ SumFunctionOnSet(g, Accounts) = B
  BY OwnersTotal DEF Owners
<1>3. \A a \in Accounts : deposits[a].bytes \in Nat /\ deposits'[a].bytes \in Nat
  BY DEF LedgerTypes, DepositRow
<1>4. \A a \in Accounts : g[a] \in Int /\ h[a] = c * g[a]
  BY <1>2
<1>5. SumFunctionOnSet(h, Accounts) = c * B
  <2> HIDE DEF B, g, h
  <2> QED BY <1>1, <1>2, <1>4, AccountsAssumption, SumScale
<1>6. \A a \in Accounts : h[a] \in Int /\ d[a] \in Int
  BY <1>2, <1>3
<1>7. h[owner] = 0 /\ d[owner] = 0 - c * B
  <2>1. h[owner] = 0
    BY <1>2
  <2>2. d[owner] = 0 - c * B
    <3>1. c * B \in Int /\ deposits'[owner].bytes = deposits[owner].bytes - c * B
      BY <1>1
    <3> HIDE DEF B
    <3> QED BY <1>3, <3>1
  <2> QED BY <2>1, <2>2
<1>8. \A a \in Accounts : a # owner => d[a] = h[a]
  <2>1. ASSUME NEW a \in Accounts, a # owner PROVE d[a] = h[a]
    <3>1. deposits'[a].bytes = deposits[a].bytes + h[a] /\ h[a] \in Int
      BY <1>6, <2>1
    <3> HIDE DEF h
    <3> QED BY <1>3, <3>1
  <2> QED BY <2>1
<1>9. SumFunctionOnSet(d, Accounts) = SumFunctionOnSet(h, Accounts) + d[owner] - h[owner]
  <2> HIDE DEF B, g, h, d
  <2> QED BY <1>6, <1>8, AccountsAssumption, SumUpdate
<1>10. SumFunctionOnSet(d, Accounts) = 0
  <2>1. c * B \in Int
    BY <1>1
  <2> HIDE DEF B, g, h, d
  <2> QED BY <1>5, <1>7, <1>9, <2>1
<1>11. \A a \in Accounts : f[a] \in Int /\ d[a] \in Int /\ e[a] = f[a] + d[a]
  BY <1>3
<1>12. SumFunctionOnSet(e, Accounts)
         = SumFunctionOnSet(f, Accounts) + SumFunctionOnSet(d, Accounts)
  <2>1. \A a \in Accounts : f[a] \in Int /\ d[a] \in Int
    BY <1>11
  <2>2. \A a \in Accounts : e[a] = f[a] + d[a]
    BY <1>11
  <2> HIDE DEF d, e, f
  <2> QED BY <2>1, <2>2, AccountsAssumption, SumPlus
<1>13. SumFunctionOnSet(f, Accounts) \in Int
  <2> HIDE DEF d, e, f
  <2> QED BY <1>11, AccountsAssumption, SumInt
<1>14. SumFunctionOnSet(e, Accounts) = SumFunctionOnSet(f, Accounts)
  <2> HIDE DEF d, e, f
  <2> QED BY <1>10, <1>12, <1>13
<1> QED BY <1>14 DEF DepositsTotal, DepositBytes

(* What both kinds of trade do to the deposits: the trader gives (c = 1) or gets
   (c = -1) the bytes of the orders T of the others, and all of them are settled. *)
BytesTraded(owner, c, T) ==
    /\ deposits' \in [Accounts -> DepositRow] /\ FrozenCovered'
    /\ \A i \in T : orders[i] # NoOrder /\ orders[i].owner # owner
    /\ deposits'[owner].bytes = deposits[owner].bytes - c * BytesOf(T)
    /\ \A a \in Accounts \ {owner} :
         deposits'[a].bytes = deposits[a].bytes + c * OwnedIn(T, a)
    /\ TradeTransfers(IF T = {} THEN {} ELSE {owner} \cup Owners(T), deposits')
    /\ UNCHANGED <<config, stat, borrows, container>>

(* A trade moves bytes between depositors, settles all of them on what they held,
   and leaves every total of rambank.eos as it was. *)
LEMMA TradeSafe ==
    ASSUME XInv, NEW owner \in Accounts, NEW c \in {1, -1}, NEW T \in SUBSET Ids,
           BytesTraded(owner, c, T)
    PROVE  IndInv' /\ Fair
<1>0. /\ deposits' \in [Accounts -> DepositRow] /\ FrozenCovered'
      /\ \A i \in T : orders[i] # NoOrder /\ orders[i].owner # owner
      /\ deposits'[owner].bytes = deposits[owner].bytes - c * BytesOf(T)
      /\ \A a \in Accounts \ {owner} :
           deposits'[a].bytes = deposits[a].bytes + c * OwnedIn(T, a)
      /\ TradeTransfers(IF T = {} THEN {} ELSE {owner} \cup Owners(T), deposits')
      /\ UNCHANGED <<config, stat, borrows, container>>
  BY DEF BytesTraded
<1> USE <1>0
<1>1. /\ IndInv /\ LedgerInv /\ LedgerTypes /\ RewardInv /\ ExchangeTypeOK
  BY DEF XInv, IndInv, LedgerInv, ExchangeInv
<1>2. DepositsTotal' = DepositsTotal /\ BorrowsTotal' = BorrowsTotal
  <2>1. DepositsTotal' = DepositsTotal
    BY <1>1, TradeKeepsTotal
  <2> QED BY <2>1 DEF BorrowsTotal
<1>3. LedgerTypes' /\ LedgerBalanced' /\ LoansCovered'
  BY <1>1, <1>2, LedgerTotals
     DEF LedgerTypes, LedgerBalanced, LoansCovered, DepositsTotal, BorrowsTotal
<1>4. /\ \A a \in Accounts : a \notin Owners(T) => OwnedIn(T, a) = 0
      /\ \A a \in Accounts : deposits[a].bytes \in Nat
  BY <1>1, OwnersTotal DEF LedgerTypes, DepositRow
<1>5. ASSUME NEW a \in Accounts \ {owner}, a \notin Owners(T)
      PROVE  deposits'[a].bytes = deposits[a].bytes
  BY <1>4, <1>5
<1>6. RewardInv' /\ Fair
  <2>1. CASE T = {}
    <3>1. UNCHANGED rewardVars
      BY <2>1 DEF TradeTransfers
    <3>2. BytesOf(T) = 0 /\ Owners(T) = {}
      BY <1>1, <2>1, TotalFacts DEF Owners
    <3>3. deposits'[owner].bytes = deposits[owner].bytes
      BY <1>4, <3>2
    <3>4. \A a \in Accounts : deposits'[a].bytes = deposits[a].bytes
      BY <1>5, <3>2, <3>3
    <3> QED BY <1>1, <3>1, <3>4, RewardsUnchanged
  <2>2. CASE T # {}
    <3> DEFINE S == {owner} \cup Owners(T)  after == deposits'
    <3>1. TokenChange(S, after) /\ after = deposits'
      BY <2>2 DEF TradeTransfers
    <3>2. Owners(T) \subseteq Accounts
      BY <1>1, OrderFacts DEF Owners
    <3>3. Changes(S, after)
      BY <1>5, <3>2 DEF Changes
    <3> HIDE DEF S, after
    <3> QED BY <1>1, <3>1, <3>3, TokenChangeSafe DEF Fair
  <2> QED BY <2>1, <2>2
<1> QED BY <1>3, <1>6 DEF IndInv, LedgerInv

(* The orders of a that a step closes. *)
Gone(type, a) == {i \in OpenBy(type, a) : orders'[i] = NoOrder}

(* In a trade of taker everyone else gets and gives the bytes of the closed orders. *)
Served(taker) ==
    \A a \in Accounts \ {taker} :
       /\ deposits'[a].bytes = deposits[a].bytes
            + BytesOf(Gone("buy", a)) - BytesOf(Gone("sell", a))
       /\ deposits'[a].frozen_bytes =
            deposits[a].frozen_bytes - BytesOf(Gone("sell", a))

(* What a trade of the orders of S closes. *)
LEMMA GoneFacts ==
    ASSUME ExchangeTypeOK, NEW type \in {"buy", "sell"}, NEW S \in SUBSET Open(type),
           orders' = Closed(S), NEW a \in Accounts
    PROVE  /\ Gone(type, a) = {i \in S : orders[i].owner = a}
           /\ \A other \in {"buy", "sell"} : other # type => Gone(other, a) = {}
<1>1. S \in SUBSET Ids /\ NoOrder.type = "none"
  BY DEF Open, NoOrder
<1>2. \A i \in Ids : orders'[i] = IF i \in S THEN NoOrder ELSE orders[i]
  BY <1>1, ClosedRows
<1>3. \A other \in {"buy", "sell"} : \A i \in Open(other) :
        i \in Ids /\ orders[i].type = other /\ orders[i] # NoOrder
  BY <1>1 DEF Open
<1>4. Gone(type, a) = {i \in S : orders[i].owner = a}
  BY <1>2, <1>3 DEF Gone, OpenBy
<1>5. ASSUME NEW other \in {"buy", "sell"}, other # type PROVE Gone(other, a) = {}
  <2>1. \A i \in OpenBy(other, a) : i \notin S /\ i \in Open(other)
    BY <1>3, <1>5 DEF OpenBy
  <2> QED BY <1>2, <1>3, <2>1 DEF Gone
<1> QED BY <1>4, <1>5

(* The fees of a set of orders are natural. *)
LEMMA FeesNat ==
    ASSUME ExchangeTypeOK, NEW S \in SUBSET Ids PROVE FeesOf(S) \in Nat
<1> DEFINE f == [i \in Ids |-> OrderFee(i)]
<1>1. ASSUME NEW i \in Ids PROVE f[i] \in Nat
  <2>1. orders[i].quantity \in Nat /\ settings.fee_ratio \in Nat
    BY OrderFacts DEF ExchangeTypeOK, SettingsRow
  <2>2. orders[i].quantity * settings.fee_ratio \in Nat
    BY <2>1, ProductNat
  <2> QED BY <2>2, Division, PrecisionAssumption DEF OrderFee
<1>2. IsFiniteSet(S)
  BY IdsFacts
<1>3. SumFunctionOnSet(f, S) \in Nat
  <2> HIDE DEF f
  <2> QED BY <1>1, <1>2, SumNat
<1> QED BY <1>3 DEF FeesOf

(* sell: the seller gives no more than is available, every buyer gets the bytes
   it ordered, and the escrow of the executed orders leaves the contract. *)
LEMMA SellSafe ==
    ASSUME XInv, NEW owner \in Accounts, NEW ids \in IdLists, Sell(owner, ids)
    PROVE  XInv' /\ Fair /\ Served(owner) /\ \E S \in SUBSET Ids : orders' = Closed(S)
<1>1. /\ IndInv /\ LedgerInv /\ ExchangeInv /\ ExchangeTypeOK
  BY DEF XInv, IndInv, ExchangeInv
<1> DEFINE Others(S) == ByOthers(S, owner)
           After(S) == [a \in Accounts |->
                          [deposits[a] EXCEPT !.bytes =
                             IF a = owner THEN @ - BytesOf(Others(S))
                             ELSE @ + BytesOf({i \in Others(S) : orders[i].owner = a})]]
<1>2. PICK S \in SUBSET Range(ids) :
        /\ Walk(ids, "buy", Volumes, Available(owner), S)
        /\ S # {}
        /\ deposits' = After(S)
        /\ TradeTransfers(IF Others(S) = {} THEN {} ELSE {owner} \cup Owners(Others(S)),
                          After(S))
        /\ orders' = Closed(S)
        /\ book' = Traded(S)
        /\ eos' = eos - (QuantityOf(S) - FeesOf(S)) - FeesOf(S)
        /\ UNCHANGED <<config, stat, borrows, container, settings, orderId, ignored>>
  BY Zenon DEF Sell
<1> DEFINE T == Others(S)  B == BytesOf(T)
<1>3. \A a \in Accounts : /\ deposits[a] \in DepositRow
                          /\ deposits[a].bytes \in Nat /\ deposits[a].frozen_bytes \in Nat
                          /\ deposits[a].frozen_bytes <= deposits[a].bytes
  BY <1>1, LedgerTotals
<1>4. S \in SUBSET Open("buy") /\ S \in SUBSET Ids /\ BytesOf(S) <= Available(owner)
  <2>1. \A i \in Ids : Volumes[i] \in Nat
    BY <1>1, OrderFacts DEF Volumes
  <2>2. Available(owner) \in Int
    BY <1>3 DEF Available
  <2>3. /\ S \in SUBSET Open("buy") /\ S \in SUBSET Ids
        /\ SumFunctionOnSet(Volumes, S) <= Available(owner)
    BY <1>2, <2>1, <2>2, WalkWithin
  <2> QED BY <2>3 DEF BytesOf, Volumes
<1>5. /\ T \in SUBSET S /\ T \in SUBSET Ids
      /\ \A i \in T : orders[i] # NoOrder /\ orders[i].owner # owner
  <2>1. NoOrder.type = "none"
    BY DEF NoOrder
  <2> QED BY <1>4, <2>1 DEF ByOthers, Open
<1>6. B \in Nat /\ B <= deposits[owner].bytes - deposits[owner].frozen_bytes
  <2>1. BytesOf(S \ T) = BytesOf(S) - BytesOf(T)
    BY <1>1, <1>4, <1>5, TotalSplit
  <2>2. S \ T \in SUBSET Ids
    BY <1>4
  <2>3. BytesOf(S \ T) \in Nat /\ BytesOf(S) \in Nat /\ BytesOf(T) \in Nat
    BY <1>1, <1>4, <1>5, <2>2, TotalFacts
  <2>4. BytesOf(T) <= BytesOf(S)
    <3> HIDE DEF T
    <3> QED BY <2>1, <2>3
  <2>5. BytesOf(S) <= deposits[owner].bytes - deposits[owner].frozen_bytes
    BY <1>4 DEF Available
  <2>6. deposits[owner].bytes - deposits[owner].frozen_bytes \in Int
    BY <1>3
  <2> HIDE DEF T
  <2> QED BY <2>3, <2>4, <2>5, <2>6
<1>7. \A a \in Accounts : OwnedIn(T, a) \in Nat
  <2> HIDE DEF T
  <2> QED BY <1>1, <1>5, OwnersTotal
<1>8. \A a \in Accounts : deposits'[a] =
        [deposits[a] EXCEPT !.bytes = IF a = owner THEN deposits[a].bytes - B
                                      ELSE deposits[a].bytes + OwnedIn(T, a)]
  BY <1>2 DEF OwnedIn
<1>9. /\ TradeTransfers(IF T = {} THEN {} ELSE {owner} \cup Owners(T), deposits')
      /\ \A a \in Accounts : OwnedIn(T, a) = BytesOf({i \in T : orders[i].owner = a})
      /\ \A a \in Accounts \ {owner} :
           {i \in T : orders[i].owner = a} = {i \in S : orders[i].owner = a}
      /\ DOMAIN deposits' = Accounts /\ deposits' = [a \in Accounts |-> deposits'[a]]
  BY <1>2 DEF OwnedIn, ByOthers
<1> HIDE DEF T, B, After, Others
<1>10. ASSUME NEW a \in Accounts
       PROVE  /\ deposits'[a] \in DepositRow
              /\ deposits'[a].frozen_bytes = deposits[a].frozen_bytes
              /\ a = owner => deposits'[a].bytes = deposits[a].bytes - B
              /\ a # owner => deposits'[a].bytes = deposits[a].bytes + OwnedIn(T, a)
              /\ deposits'[a].frozen_bytes <= deposits'[a].bytes
  <2> DEFINE n == IF a = owner THEN deposits[a].bytes - B
                  ELSE deposits[a].bytes + OwnedIn(T, a)
  <2>1. n \in Nat /\ deposits[a].frozen_bytes <= n
    BY <1>3, <1>6, <1>7
  <2>2. deposits'[a] = [deposits[a] EXCEPT !.bytes = n]
    BY <1>8
  <2>3. /\ a = owner => n = deposits[a].bytes - B
        /\ a # owner => n = deposits[a].bytes + OwnedIn(T, a)
    OBVIOUS
  <2> HIDE DEF n
  <2>4. /\ deposits'[a] \in DepositRow
        /\ deposits'[a].frozen_bytes = deposits[a].frozen_bytes
        /\ deposits'[a].bytes = n
    BY <1>3, <2>1, <2>2 DEF DepositRow
  <2> QED BY <2>1, <2>3, <2>4
<1>11. IndInv' /\ Fair
  <2>1. deposits' \in [Accounts -> DepositRow] /\ FrozenCovered'
    BY <1>9, <1>10 DEF FrozenCovered
  <2> DEFINE c == 1
  <2>2. deposits'[owner].bytes = deposits[owner].bytes - c * BytesOf(T)
    BY <1>3, <1>6, <1>10 DEF B
  <2>3. \A a \in Accounts \ {owner} :
          deposits'[a].bytes = deposits[a].bytes + c * OwnedIn(T, a)
    BY <1>7, <1>10
  <2>4. c \in {1, -1}
    OBVIOUS
  <2> HIDE DEF c
  <2>5. BytesTraded(owner, c, T)
    <3>1. UNCHANGED <<config, stat, borrows, container>>
      BY <1>2
    <3> QED BY <1>5, <1>9, <2>1, <2>2, <2>3, <3>1 DEF BytesTraded
  <2> QED BY <1>5, <2>4, <2>5, TradeSafe
<1>12. \A a \in Accounts : S \cap OpenBy("sell", a) = {}
  BY <1>4 DEF Open, OpenBy
<1>13. ExchangeInv'
  <2>1. \A a \in Accounts : deposits'[a].frozen_bytes
          = deposits[a].frozen_bytes - BytesOf(S \cap OpenBy("sell", a))
    <3>1. ASSUME NEW a \in Accounts
          PROVE  BytesOf(S \cap OpenBy("sell", a)) = 0
      <4>1. {} \in SUBSET Ids
        OBVIOUS
      <4> QED BY <1>1, <1>12, <4>1, TotalFacts
    <3> QED BY <1>3, <1>10, <3>1
  <2>2. eos' = eos - QuantityOf(S \cap Open("buy"))
    <3>1. S \cap Open("buy") = S
      BY <1>4
    <3>2. QuantityOf(S) \in Nat /\ FeesOf(S) \in Nat /\ eos \in Nat
      BY <1>1, <1>4, TotalFacts, FeesNat DEF ExchangeTypeOK
    <3>3. eos' = eos - (QuantityOf(S) - FeesOf(S)) - FeesOf(S)
      BY <1>2
    <3>4. eos' = eos - QuantityOf(S)
      BY <3>2, <3>3
    <3> QED BY <3>1, <3>4
  <2> QED BY <1>1, <1>2, <1>4, <2>1, <2>2, ClosingKeepsBooks
<1>14. Served(owner)
  <2>1. ASSUME NEW a \in Accounts \ {owner}
        PROVE  /\ deposits'[a].bytes = deposits[a].bytes
                    + BytesOf(Gone("buy", a)) - BytesOf(Gone("sell", a))
               /\ deposits'[a].frozen_bytes =
                    deposits[a].frozen_bytes - BytesOf(Gone("sell", a))
    <3>1. Gone("buy", a) = {i \in S : orders[i].owner = a} /\ Gone("sell", a) = {}
      BY <1>1, <1>2, <1>4, GoneFacts
    <3>2. BytesOf(Gone("buy", a)) = OwnedIn(T, a)
      BY <1>9, <3>1
    <3>3. BytesOf(Gone("sell", a)) = 0
      <4>1. {} \in SUBSET Ids
        OBVIOUS
      <4> QED BY <1>1, <3>1, <4>1, TotalFacts
    <3> QED BY <1>3, <1>7, <1>10, <3>2, <3>3
  <2> QED BY <2>1 DEF Served
<1> QED BY <1>2, <1>4, <1>11, <1>13, <1>14 DEF XInv

(* buy: every seller's bytes are unfrozen and given to the buyer, who pays for
   them with the EOS that arrives; the escrow of the buy orders is untouched. *)
LEMMA BuySafe ==
    ASSUME XInv, NEW owner \in Accounts, NEW ids \in IdLists, NEW paid \in Quantities,
           Buy(owner, ids, paid)
    PROVE  XInv' /\ Fair /\ Served(owner) /\ \E S \in SUBSET Ids : orders' = Closed(S)
<1>1. /\ IndInv /\ LedgerInv /\ ExchangeInv /\ ExchangeTypeOK /\ paid \in Nat
  BY ExchangeAssumption DEF XInv, IndInv, ExchangeInv
<1> DEFINE Others(S) == ByOthers(S, owner)
           sold(S, a) == BytesOf({i \in S : orders[i].owner = a})
           After(S) == [a \in Accounts |->
                          [bytes |-> IF a = owner THEN deposits[a].bytes + BytesOf(Others(S))
                                     ELSE deposits[a].bytes - sold(S, a),
                           frozen_bytes |-> deposits[a].frozen_bytes - sold(S, a)]]
<1>2. PICK S \in SUBSET Range(ids) :
        /\ Walk(ids, "sell", Costs, paid, S)
        /\ S # {}
        /\ \A a \in Accounts : sold(S, a) <= deposits[a].frozen_bytes
        /\ deposits' = After(S)
        /\ TradeTransfers(IF Others(S) = {} THEN {} ELSE {owner} \cup Owners(Others(S)),
                          After(S))
        /\ orders' = Closed(S)
        /\ book' = Traded(S)
        /\ eos' = eos + paid - (QuantityOf(S) - FeesOf(S)) - FeesOf(S)
                    - (paid - QuantityOf(S))
        /\ UNCHANGED <<config, stat, borrows, container, settings, orderId, ignored>>
  BY Zenon DEF Buy
<1> DEFINE T == Others(S)  B == BytesOf(T)
<1>3. \A a \in Accounts : /\ deposits[a] \in DepositRow
                          /\ deposits[a].bytes \in Nat /\ deposits[a].frozen_bytes \in Nat
                          /\ deposits[a].frozen_bytes <= deposits[a].bytes
  BY <1>1, LedgerTotals
<1>4. S \in SUBSET Open("sell") /\ S \in SUBSET Ids
  <2>1. \A i \in Ids : Costs[i] \in Nat
    BY <1>1, OrderFacts DEF Costs
  <2>2. paid \in Int
    BY <1>1
  <2> QED BY <1>2, <2>1, <2>2, WalkWithin
<1>5. /\ T \in SUBSET S /\ T \in SUBSET Ids
      /\ \A i \in T : orders[i] # NoOrder /\ orders[i].owner # owner
      /\ \A i \in S : orders[i] # NoOrder
  <2>1. NoOrder.type = "none"
    BY DEF NoOrder
  <2> QED BY <1>4, <2>1 DEF ByOthers, Open
<1>6. B \in Nat
  BY <1>1, <1>5, TotalFacts
<1>7. \A a \in Accounts : OwnedIn(S, a) \in Nat
  BY <1>1, <1>4, <1>5, OwnersTotal
<1>8. /\ \A a \in Accounts : deposits'[a] =
           [bytes |-> IF a = owner THEN deposits[a].bytes + B
                      ELSE deposits[a].bytes - OwnedIn(S, a),
            frozen_bytes |-> deposits[a].frozen_bytes - OwnedIn(S, a)]
      /\ \A a \in Accounts : OwnedIn(S, a) <= deposits[a].frozen_bytes
  BY <1>2 DEF OwnedIn
<1>9. /\ TradeTransfers(IF T = {} THEN {} ELSE {owner} \cup Owners(T), deposits')
      /\ \A a \in Accounts \ {owner} : OwnedIn(T, a) = OwnedIn(S, a)
      /\ DOMAIN deposits' = Accounts /\ deposits' = [a \in Accounts |-> deposits'[a]]
  <2>1. \A a \in Accounts \ {owner} :
           {i \in T : orders[i].owner = a} = {i \in S : orders[i].owner = a}
    BY DEF ByOthers
  <2> QED BY <1>2, <2>1 DEF OwnedIn
<1> HIDE DEF T, B, After, Others, sold
<1>10. ASSUME NEW a \in Accounts
       PROVE  /\ deposits'[a] \in DepositRow
              /\ deposits'[a].frozen_bytes = deposits[a].frozen_bytes - OwnedIn(S, a)
              /\ a = owner => deposits'[a].bytes = deposits[a].bytes + B
              /\ a # owner => deposits'[a].bytes = deposits[a].bytes - OwnedIn(S, a)
              /\ deposits'[a].frozen_bytes <= deposits'[a].bytes
  <2> DEFINE n == IF a = owner THEN deposits[a].bytes + B
                  ELSE deposits[a].bytes - OwnedIn(S, a)
             f == deposits[a].frozen_bytes - OwnedIn(S, a)
  <2>1. n \in Nat /\ f \in Nat /\ f <= n
    <3>1. /\ deposits[a].bytes \in Nat /\ deposits[a].frozen_bytes \in Nat
          /\ deposits[a].frozen_bytes <= deposits[a].bytes
          /\ OwnedIn(S, a) \in Nat /\ OwnedIn(S, a) <= deposits[a].frozen_bytes
      BY <1>3, <1>7, <1>8
    <3> QED BY <1>6, <3>1
  <2>2. deposits'[a] = [bytes |-> n, frozen_bytes |-> f]
    BY <1>8
  <2>3. /\ a = owner => n = deposits[a].bytes + B
        /\ a # owner => n = deposits[a].bytes - OwnedIn(S, a)
        /\ f = deposits[a].frozen_bytes - OwnedIn(S, a)
    OBVIOUS
  <2> HIDE DEF n, f
  <2>4. deposits'[a] \in DepositRow /\ deposits'[a].frozen_bytes = f /\ deposits'[a].bytes = n
    BY <2>1, <2>2 DEF DepositRow
  <2> QED BY <2>1, <2>3, <2>4
<1>11. IndInv' /\ Fair
  <2>1. deposits' \in [Accounts -> DepositRow] /\ FrozenCovered'
    BY <1>9, <1>10 DEF FrozenCovered
  <2> DEFINE c == -1
  <2>2. deposits'[owner].bytes = deposits[owner].bytes - c * BytesOf(T)
    BY <1>3, <1>6, <1>10 DEF B
  <2>3. \A a \in Accounts \ {owner} :
          deposits'[a].bytes = deposits[a].bytes + c * OwnedIn(T, a)
    BY <1>3, <1>7, <1>9, <1>10
  <2>4. c \in {1, -1}
    OBVIOUS
  <2> HIDE DEF c
  <2>5. BytesTraded(owner, c, T)
    <3>1. UNCHANGED <<config, stat, borrows, container>>
      BY <1>2
    <3> QED BY <1>5, <1>9, <2>1, <2>2, <2>3, <3>1 DEF BytesTraded
  <2> QED BY <1>5, <2>4, <2>5, TradeSafe
<1>12. ExchangeInv'
  <2>1. \A a \in Accounts : deposits'[a].frozen_bytes
          = deposits[a].frozen_bytes - BytesOf(S \cap OpenBy("sell", a))
    <3>1. ASSUME NEW a \in Accounts
          PROVE  {i \in S : orders[i].owner = a} = S \cap OpenBy("sell", a)
      BY <1>4 DEF OpenBy
    <3> QED BY <1>10, <3>1 DEF OwnedIn
  <2>2. eos' = eos - QuantityOf(S \cap Open("buy"))
    <3>1. S \cap Open("buy") = {} /\ {} \in SUBSET Ids
      BY <1>4 DEF Open
    <3>2. /\ QuantityOf(S) \in Nat /\ FeesOf(S) \in Nat /\ eos \in Nat
          /\ QuantityOf(S \cap Open("buy")) = 0
      BY <1>1, <1>4, <3>1, TotalFacts, FeesNat DEF ExchangeTypeOK
    <3> QED BY <1>1, <1>2, <3>2
  <2> QED BY <1>1, <1>2, <1>4, <2>1, <2>2, ClosingKeepsBooks
<1>13. Served(owner)
  <2>1. ASSUME NEW a \in Accounts \ {owner}
        PROVE  /\ deposits'[a].bytes = deposits[a].bytes
                    + BytesOf(Gone("buy", a)) - BytesOf(Gone("sell", a))
               /\ deposits'[a].frozen_bytes =
                    deposits[a].frozen_bytes - BytesOf(Gone("sell", a))
    <3>1. Gone("sell", a) = {i \in S : orders[i].owner = a} /\ Gone("buy", a) = {}
      BY <1>1, <1>2, <1>4, GoneFacts
    <3>2. BytesOf(Gone("sell", a)) = OwnedIn(S, a)
      BY <3>1 DEF OwnedIn
    <3>3. BytesOf(Gone("buy", a)) = 0
      <4>1. {} \in SUBSET Ids
        OBVIOUS
      <4> QED BY <1>1, <3>1, <4>1, TotalFacts
    <3> QED BY <1>3, <1>7, <1>10, <3>2, <3>3
  <2> QED BY <2>1 DEF Served
<1> QED BY <1>2, <1>4, <1>11, <1>12, <1>13 DEF XInv

-----------------------------------------------------------------------------
(* Every step, and the theorems. *)

(* An order table in which orders are only closed, or one is added whose id was
   never given out. *)
OrderSteps ==
    \A i \in Ids :
       /\ orders[i] # NoOrder => orders'[i] \in {orders[i], NoOrder}
       /\ i <= orderId /\ orders[i] = NoOrder => orders'[i] = NoOrder

(* The equation of MakersServedInFull. *)
MakersServed ==
    book'.num_trade_orders # book.num_trade_orders => \E taker \in Accounts : Served(taker)

(* Closing orders, or leaving them alone, is a step of their life. *)
LEMMA OrdersClosed ==
    ASSUME ExchangeTypeOK, UNCHANGED orders \/ \E S \in SUBSET Ids : orders' = Closed(S)
    PROVE  OrderSteps
<1>1. CASE UNCHANGED orders
  BY <1>1 DEF OrderSteps
<1>2. CASE \E S \in SUBSET Ids : orders' = Closed(S)
  <2>1. PICK S \in SUBSET Ids : orders' = Closed(S)
    BY <1>2
  <2>2. \A i \in Ids : orders'[i] = IF i \in S THEN NoOrder ELSE orders[i]
    BY <2>1, ClosedRows
  <2> QED BY <2>2 DEF OrderSteps
<1> QED BY <1>1, <1>2

(* Adding an order, too: its id is above every id given out. *)
LEMMA OrderAdded ==
    ASSUME ExchangeTypeOK, NextIdFree, NEW row \in OrderRow, AddOrder(row)
    PROVE  OrderSteps
<1> DEFINE n == orderId + 1
<1>1. /\ n \in Ids /\ orders[n] = NoOrder
      /\ \A i \in Ids \ {n} : orders'[i] = orders[i]
  BY AddedRows
<1>2. ~ (n <= orderId)
  BY DEF ExchangeTypeOK
<1> HIDE DEF n
<1> QED BY <1>1, <1>2 DEF OrderSteps

(* A list of the own orders of an account names orders of the table. *)
LEMMA CancelOrderSafe ==
    ASSUME XInv, NEW owner \in Accounts, NEW ids \in IdLists, CancelOrder(owner, ids)
    PROVE  XInv' /\ Fair /\ OrderSteps /\ MakersServed
<1>1. PICK S : /\ S = {i \in Range(ids) : i \in OpenBy("buy", owner) \cup OpenBy("sell", owner)}
               /\ Cancel(S)
  BY DEF CancelOrder
<1>2. S \in SUBSET Ids
  BY <1>1, ListFacts
<1>3. XInv' /\ Fair /\ MakersServed
  BY <1>1, <1>2, CancelSafe DEF MakersServed
<1>4. ExchangeTypeOK /\ orders' = Closed(S)
  BY <1>1 DEF XInv, ExchangeInv, Cancel
<1> QED BY <1>2, <1>3, <1>4, OrdersClosed

(* Every step of the two contracts preserves the invariant, settles fairly,
   closes an order at most once and serves the makers of a trade in full. *)
LEMMA XNextSafe ==
    ASSUME XInv, XNext PROVE XInv' /\ Fair /\ OrderSteps /\ MakersServed
<1>1. ExchangeTypeOK /\ NextIdFree
  BY DEF XInv, ExchangeInv
<1>2. ASSUME UNCHANGED <<orders, book>> PROVE OrderSteps /\ MakersServed
  BY <1>1, <1>2, OrdersClosed DEF MakersServed
<1>3. CASE ExchangeAdmin
  BY <1>2, <1>3, SettingSafe
<1>4. CASE BankStep
  BY <1>2, <1>4, BankStepSafe
<1>5. ASSUME NEW a \in Accounts, NEW p \in Prices, NEW n \in Amounts, SellOrder(a, p, n)
      PROVE  XInv' /\ Fair /\ OrderSteps /\ MakersServed
  <2>1. XInv' /\ Fair /\ MakersServed
    BY <1>5, SellOrderSafe DEF MakersServed
  <2> DEFINE quantity == (p * n) \div PricePrecision
             row == [type |-> "sell", owner |-> a, price |-> p,
                     bytes |-> n, quantity |-> quantity]
  <2>2. row \in OrderRow
    <3>1. n \in Nat /\ p \in Nat /\ PricePrecision \in Nat \ {0}
      BY BoundsAssumption, ExchangeAssumption
    <3>2. quantity \in Nat
      BY <3>1, ProductNat, Division
    <3> HIDE DEF quantity
    <3> QED BY <3>1, <3>2 DEF OrderRow
  <2>3. AddOrder(row)
    BY <1>5 DEF SellOrder
  <2> HIDE DEF row
  <2> QED BY <1>1, <2>1, <2>2, <2>3, OrderAdded
<1>6. ASSUME NEW a \in Accounts, NEW p \in Prices, NEW q \in Quantities, BuyOrder(a, p, q)
      PROVE  XInv' /\ Fair /\ OrderSteps /\ MakersServed
  <2>1. XInv' /\ Fair /\ MakersServed
    BY <1>6, BuyOrderSafe DEF MakersServed
  <2> DEFINE bytes == (q * PricePrecision) \div p
             row == [type |-> "buy", owner |-> a, price |-> p,
                     bytes |-> bytes, quantity |-> q]
  <2>2. row \in OrderRow
    <3>1. q \in Nat /\ p \in Nat \ {0} /\ PricePrecision \in Nat
      BY <1>6, ExchangeAssumption DEF BuyOrder
    <3>2. bytes \in Nat
      BY <3>1, ProductNat, Division
    <3> HIDE DEF bytes
    <3> QED BY <3>1, <3>2 DEF OrderRow
  <2>3. AddOrder(row)
    BY <1>6 DEF BuyOrder
  <2> HIDE DEF row
  <2> QED BY <1>1, <2>1, <2>2, <2>3, OrderAdded
<1>7. ASSUME NEW maxRows \in 0..MaxOrders, CancelAllOrd(maxRows)
      PROVE  XInv' /\ Fair /\ OrderSteps /\ MakersServed
  <2>1. PICK S \in SUBSET (Open("buy") \cup Open("sell")) : Cancel(S)
    BY <1>7 DEF CancelAllOrd
  <2>2. S \in SUBSET Ids /\ orders' = Closed(S)
    BY <2>1 DEF Open, Cancel
  <2>3. XInv' /\ Fair /\ MakersServed
    BY <2>1, <2>2, CancelSafe DEF MakersServed
  <2> QED BY <1>1, <2>2, <2>3, OrdersClosed
<1>8. ASSUME NEW a \in Accounts, NEW ids \in IdLists,
             Sell(a, ids) \/ \E q \in Quantities : Buy(a, ids, q)
      PROVE  XInv' /\ Fair /\ OrderSteps /\ MakersServed
  <2>1. XInv' /\ Fair /\ Served(a) /\ \E S \in SUBSET Ids : orders' = Closed(S)
    BY <1>8, SellSafe, BuySafe
  <2>2. OrderSteps
    BY <1>1, <2>1, OrdersClosed
  <2> QED BY <2>1, <2>2 DEF MakersServed
<1>9. CASE ExchangeNext
  <2>1. ASSUME \E q \in Quantities : IgnoredTransfer(q)
        PROVE  XInv' /\ Fair /\ OrderSteps /\ MakersServed
    BY <1>2, <2>1, SettingSafe
  <2> QED BY <1>5, <1>6, <1>7, <1>8, <1>9, <2>1, CancelOrderSafe DEF ExchangeNext
<1> QED BY <1>3, <1>4, <1>9 DEF XNext

(* A step that changes nothing does so too. *)
LEMMA XStutterSafe ==
    ASSUME XInv, UNCHANGED vars PROVE XInv' /\ Fair
<1>1. UNCHANGED bankVars /\ UNCHANGED <<settings, orders, orderId, book, eos, ignored>>
  BY DEF vars, exchangeVars
<1>2. IndInv' /\ Fair
  BY <1>1, StutterSafe DEF XInv
<1>3. \A a \in Accounts : deposits'[a].frozen_bytes = deposits[a].frozen_bytes
  BY <1>1 DEF bankVars, ledgerVars
<1>4. settings' \in SettingsRow /\ eos' = eos + 0 /\ ignored' = ignored + 0
  BY <1>1 DEF XInv, ExchangeInv, ExchangeTypeOK
<1>5. ExchangeInv'
  BY <1>1, <1>3, <1>4, BooksUntouched DEF XInv
<1> QED BY <1>2, <1>5 DEF XInv

(* Both contracts start with empty books. *)
LEMMA XInitSafe == XInit => XInv
<1> SUFFICES ASSUME XInit PROVE XInv
  OBVIOUS
<1>1. IndInv
  BY InitSafe DEF XInit
<1>2. /\ settings = [exists |-> FALSE, disabled_pending_order |-> FALSE,
                     disabled_cancel_order |-> FALSE, disabled_trade |-> FALSE,
                     min_trade_amount |-> 0, min_trade_bytes |-> DefaultMinBytes,
                     has_fee_account |-> FALSE, fee_ratio |-> DefaultFeeRatio]
      /\ orders = [i \in Ids |-> NoOrder]
      /\ orderId = 0 /\ eos = 0 /\ ignored = 0
      /\ book = [num_sell_orders |-> 0, sell_quantity |-> 0, sell_bytes |-> 0,
                 num_buy_orders |-> 0, buy_quantity |-> 0, buy_bytes |-> 0,
                 num_trade_orders |-> 0, trade_quantity |-> 0, trade_bytes |-> 0]
      /\ \A a \in Accounts : deposits[a].frozen_bytes = 0
  BY DEF XInit, ExchangeInit, Init
<1>3. ExchangeTypeOK
  <2>1. settings \in SettingsRow /\ book \in BookRow
    BY <1>2, ExchangeAssumption, PrecisionAssumption DEF SettingsRow, BookRow
  <2>2. orders \in [Ids -> OrderRow \cup {NoOrder}] /\ orderId \in 0..MaxOrders
    BY <1>2, ExchangeAssumption
  <2> QED BY <1>2, <2>1, <2>2 DEF ExchangeTypeOK
<1>4. \A type \in {"buy", "sell"} : Open(type) = {} /\ \A a \in Accounts : OpenBy(type, a) = {}
  BY <1>2 DEF Open, OpenBy, NoOrder
<1>5. BytesOf({}) = 0 /\ QuantityOf({}) = 0 /\ Cardinality({}) = 0
  BY <1>3, TotalFacts, FS_EmptySet
<1>6. FrozenMatchesOrders /\ EscrowMatchesOrders
  <2>1. /\ Open("buy") = {} /\ \A a \in Accounts : OpenBy("sell", a) = {}
    BY <1>4
  <2>2. QuantityOf(Open("buy")) = 0
    BY <1>5, <2>1
  <2>3. ASSUME NEW a \in Accounts PROVE BytesOf(OpenBy("sell", a)) = 0
    BY <1>5, <2>1
  <2>4. eos = 0 /\ ignored = 0
    BY <1>2
  <2> QED BY <1>2, <2>2, <2>3, <2>4 DEF FrozenMatchesOrders, EscrowMatchesOrders
<1>7. BookMatchesOrders /\ NextIdFree
  BY <1>2, <1>4, <1>5 DEF BookMatchesOrders, NextIdFree
<1> QED BY <1>1, <1>3, <1>6, <1>7 DEF XInv, ExchangeInv

(* The inductive invariant of the two contracts holds in every state. *)
THEOREM ExchangeInvariance == XSpec => []XInv
<1>1. XInv /\ [XNext]_vars => XInv'
  BY XNextSafe, XStutterSafe
<1> QED BY XInitSafe, <1>1, PTL DEF XSpec

(* No row of the exchange leaves its type: no unsigned total wraps below zero,
   and the contract can pay what it sends. *)
THEOREM ExchangeTypesHold == XSpec => []ExchangeTypeOK
<1>1. XInv => ExchangeTypeOK
  BY DEF XInv, ExchangeInv
<1> QED BY <1>1, ExchangeInvariance, PTL

(* The bytes rambank.eos keeps frozen are those of the open sell orders. *)
THEOREM FrozenStaysMatched == XSpec => []FrozenMatchesOrders
<1>1. XInv => FrozenMatchesOrders
  BY DEF XInv, ExchangeInv
<1> QED BY <1>1, ExchangeInvariance, PTL

(* ramx.eos holds exactly the EOS of its open buy orders. *)
THEOREM EscrowStaysMatched == XSpec => []EscrowMatchesOrders
<1>1. XInv => EscrowMatchesOrders
  BY DEF XInv, ExchangeInv
<1> QED BY <1>1, ExchangeInvariance, PTL

(* The totals of pending orders are those of the order table. *)
THEOREM BookStaysMatched == XSpec => []BookMatchesOrders
<1>1. XInv => BookMatchesOrders
  BY DEF XInv, ExchangeInv
<1> QED BY <1>1, ExchangeInvariance, PTL

(* The ledger of rambank.eos stays in step, and frozen bytes covered, under the
   real exchange as under the arbitrary one of RamBank. *)
THEOREM LedgerKeptByExchange ==
    XSpec => [](TypeOK /\ LedgerBalanced /\ LoansCovered /\ FrozenCovered /\ DebtCovered)
<1>1. XInv => TypeOK /\ LedgerBalanced /\ LoansCovered /\ FrozenCovered /\ DebtCovered
  BY DEF XInv, IndInv, LedgerInv, LedgerTypes, RewardInv, RewardTypes, TypeOK
<1> QED BY <1>1, ExchangeInvariance, PTL

(* No order is filled or refunded twice, and no id comes back. *)
THEOREM OrdersLiveOnce == XSpec => OrderLifecycle
<1>1. XInv /\ [XNext]_vars => [OrderSteps]_vars
  BY XNextSafe
<1> QED BY <1>1, ExchangeInvariance, PTL DEF XSpec, OrderLifecycle, OrderSteps

(* Makers get and give exactly the bytes of their closed orders. *)
THEOREM MakersStayServed == XSpec => MakersServedInFull
<1>1. XInv /\ [XNext]_vars => [MakersServed]_vars
  BY XNextSafe
<1> QED BY <1>1, ExchangeInvariance, PTL
        DEF XSpec, MakersServedInFull, MakersServed, Served, Gone

(* A trade settles rewards as fairly as a deposit or a transfer. *)
THEOREM TradesSettleFairly == XSpec => PaidOnBytesHeld
<1>1. XInv /\ [XNext]_vars =>
        [\A t \in Tokens, a \in Accounts : PaidFairly(t, a)]_bankVars
  BY XNextSafe, XStutterSafe DEF Fair
<1> QED BY <1>1, ExchangeInvariance, PTL DEF XSpec, PaidOnBytesHeld, PaidFairly

=============================================================================
