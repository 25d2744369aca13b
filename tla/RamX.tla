--------------------------------- MODULE RamX ----------------------------------
(***************************************************************************)
(* The exchange ramx.eos composed with the lending contract rambank.eos    *)
(* whose bytes it trades.  A sell order freezes bytes in rambank.eos, a    *)
(* buy order leaves EOS with ramx.eos; the inline actions freeze, unfreeze *)
(* and transfer run inside the transaction of the exchange, so each action *)
(* here changes the tables of both contracts in one step.                  *)
(*                                                                         *)
(* do_buy, sell and cancelorder walk a list of order ids.  The set of      *)
(* orders such a walk executes is described by what the loop lets through; *)
(* the inline actions of one walk commute, and their sum is the effect.    *)
(***************************************************************************)
EXTENDS RamBank, Sequences

CONSTANTS
    PricePrecision,  \* PRICE_PRECISION, the scale of a price per byte
    MaxPrice,        \* MAX_PRICE
    MaxTradeVolume,  \* MAX_TRADE_VOLUME
    DefaultMinBytes, \* min_trade_bytes of a new config
    DefaultFeeRatio, \* fee_ratio of a new config
    \* Bounds of the instance: inputs enumerated, orders ever created, and EOS
    \* ever sent with memo "ignore".
    Prices, Quantities, TradeFeeRatios, MinAmounts, MinBytes, MaxOrders, MaxIgnored

ASSUME ExchangeAssumption ==
    /\ PricePrecision \in Nat \ {0} /\ MaxPrice \in Nat /\ MaxTradeVolume \in Nat
    /\ DefaultMinBytes \in Nat /\ DefaultFeeRatio \in 0..(RatioPrecision - 1)
    /\ Prices \subseteq Nat /\ Quantities \subseteq Nat \ {0}
    /\ TradeFeeRatios \subseteq Nat /\ MinAmounts \subseteq Int /\ MinBytes \subseteq Nat
    /\ MaxOrders \in Nat /\ MaxIgnored \in Nat

VARIABLES
    settings,   \* the config singleton of ramx.eos
    orders,     \* the orders table, by id
    orderId,    \* the globalid singleton: the id given out last
    book,       \* the stat singleton of ramx.eos
    eos,        \* balance of ramx.eos at eosio.token
    ignored     \* EOS received with memo "ignore"

exchangeVars == <<settings, orders, orderId, book, eos, ignored>>
vars == <<bankVars, exchangeVars>>

Ids == 1..MaxOrders

SettingsRow ==
    [exists : BOOLEAN, disabled_pending_order : BOOLEAN, disabled_cancel_order : BOOLEAN,
     disabled_trade : BOOLEAN, min_trade_amount : Int, min_trade_bytes : Nat,
     has_fee_account : BOOLEAN, fee_ratio : Nat]

(* A row of the table, or the absence of one. *)
NoOrder == [type |-> "none", owner |-> "nobody", price |-> 0, bytes |-> 0, quantity |-> 0]

OrderRow ==
    [type : {"buy", "sell"}, owner : Accounts, price : Nat, bytes : Nat, quantity : Nat]

BookRow ==
    [num_sell_orders : Nat, sell_quantity : Nat, sell_bytes : Nat,
     num_buy_orders : Nat, buy_quantity : Nat, buy_bytes : Nat,
     num_trade_orders : Nat, trade_quantity : Nat, trade_bytes : Nat]

(* The tables of the exchange hold rows of their types, none of its unsigned
   totals wraps below zero and its EOS balance pays everything it sends. *)
ExchangeTypeOK ==
    /\ settings \in SettingsRow
    /\ orders \in [Ids -> OrderRow \cup {NoOrder}]
    /\ orderId \in 0..MaxOrders
    /\ book \in BookRow
    /\ eos \in Nat
    /\ ignored \in Nat

ExchangeInit ==
    /\ settings = [exists |-> FALSE, disabled_pending_order |-> FALSE,
                   disabled_cancel_order |-> FALSE, disabled_trade |-> FALSE,
                   min_trade_amount |-> 0, min_trade_bytes |-> DefaultMinBytes,
                   has_fee_account |-> FALSE, fee_ratio |-> DefaultFeeRatio]
    /\ orders = [i \in Ids |-> NoOrder]
    /\ orderId = 0
    /\ book = [num_sell_orders |-> 0, sell_quantity |-> 0, sell_bytes |-> 0,
               num_buy_orders |-> 0, buy_quantity |-> 0, buy_bytes |-> 0,
               num_trade_orders |-> 0, trade_quantity |-> 0, trade_bytes |-> 0]
    /\ eos = 0
    /\ ignored = 0

-----------------------------------------------------------------------------
(* Administration. *)

SetSettings(row) ==
    /\ settings' = [row EXCEPT !.exists = TRUE]
    /\ UNCHANGED <<bankVars, orders, orderId, book, eos, ignored>>

FeeConfig(ratio) ==
    /\ ratio < RatioPrecision
    /\ SetSettings([settings EXCEPT !.has_fee_account = TRUE, !.fee_ratio = ratio])

TradeConfig(minAmount, minBytes) ==
    SetSettings([settings EXCEPT !.min_trade_amount = minAmount,
                                 !.min_trade_bytes = minBytes])

StatusConfig(noTrade, noPending, noCancel) ==
    SetSettings([settings EXCEPT !.disabled_trade = noTrade,
                                 !.disabled_pending_order = noPending,
                                 !.disabled_cancel_order = noCancel])

-----------------------------------------------------------------------------
(* Sets of orders and their totals. *)

Open(type) == {i \in Ids : orders[i].type = type}
OpenBy(type, a) == {i \in Open(type) : orders[i].owner = a}
ByOthers(S, a) == {i \in S : orders[i].owner # a}
Owners(S) == {orders[i].owner : i \in S}

BytesOf(S)    == SumFunctionOnSet([i \in Ids |-> orders[i].bytes], S)
QuantityOf(S) == SumFunctionOnSet([i \in Ids |-> orders[i].quantity], S)
OrderFee(i)   == (orders[i].quantity * settings.fee_ratio) \div RatioPrecision
FeesOf(S)     == SumFunctionOnSet([i \in Ids |-> OrderFee(i)], S)

Closed(S) == [i \in Ids |-> IF i \in S THEN NoOrder ELSE orders[i]]

(* has_duplicate and the emptiness check leave the nonempty lists of distinct ids. *)
IdLists == UNION {{ids \in [1..n -> Ids] : \A j, k \in 1..n : ids[j] = ids[k] => j = k}
                    : n \in 1..MaxOrders}

(* Mutants: any type of order is executed; the budget is not looked at. *)
WalkAnyType(ids, type, cost, budget, S) ==
    \A k \in DOMAIN ids :
        ids[k] \in S <=>
          /\ orders[ids[k]] # NoOrder
          /\ cost[ids[k]] <=
               budget - SumFunctionOnSet(cost, {ids[j] : j \in 1..(k - 1)} \cap S)

WalkUnbudgeted(ids, type, cost, budget, S) ==
    \A k \in DOMAIN ids : ids[k] \in S <=> ids[k] \in Open(type)

(* The walk over ids executes the open orders of the given type that fit into
   what the executed orders before them leave of the budget, and skips the rest. *)
Walk(ids, type, cost, budget, S) ==
    \A k \in DOMAIN ids :
        ids[k] \in S <=>
          /\ ids[k] \in Open(type)
          /\ cost[ids[k]] <=
               budget - SumFunctionOnSet(cost, {ids[j] : j \in 1..(k - 1)} \cap S)

Costs   == [i \in Ids |-> orders[i].quantity]
Volumes == [i \in Ids |-> orders[i].bytes]

(* Mutant: a trade leaves the settlement to the next transaction. *)
TradeTransfersUnsettled(accounts, after) == UNCHANGED rewardVars

(* The inline transfers of a trade settle the rewards of everyone they touch;
   a trade of one's own orders sends none. *)
TradeTransfers(accounts, after) ==
    IF accounts = {} THEN UNCHANGED rewardVars ELSE TokenChange(accounts, after)

FeesPayable(S) == FeesOf(S) > 0 => settings.has_fee_account

-----------------------------------------------------------------------------
(* Pending orders. *)

(* Mutant: an id that left the table is given out again. *)
AddOrderAtFirstFree(row) ==
    /\ orderId < MaxOrders
    /\ orderId' = orderId + 1
    /\ \E i \in Ids :
         /\ orders[i] = NoOrder /\ \A j \in Ids : j < i => orders[j] # NoOrder
         /\ orders' = [orders EXCEPT ![i] = row]

AddOrder(row) ==
    /\ orderId < MaxOrders
    /\ orderId' = orderId + 1
    /\ orders' = [orders EXCEPT ![orderId + 1] = row]

Acceptable(quantity, bytes) ==
    /\ settings.exists
    /\ ~ settings.disabled_pending_order
    /\ quantity <= MaxTradeVolume
    /\ bytes > 0
    /\ bytes >= settings.min_trade_bytes
    /\ quantity >= settings.min_trade_amount

SellOrder(owner, price, bytes) ==
    LET quantity == (price * bytes) \div PricePrecision IN
    /\ price > 0 /\ price <= MaxPrice
    /\ Acceptable(quantity, bytes)
    /\ CanFreeze(owner, bytes)
    /\ deposits' = Frozen(owner, bytes)
    /\ AddOrder([type |-> "sell", owner |-> owner, price |-> price,
                bytes |-> bytes, quantity |-> quantity])
    /\ book' = [book EXCEPT !.num_sell_orders = @ + 1,
                            !.sell_quantity = @ + quantity,
                            !.sell_bytes = @ + bytes]
    /\ UNCHANGED <<config, stat, borrows, container, rewardVars, settings, eos, ignored>>

(* EOS arrives with memo "buyorder,<price>". *)
BuyOrder(owner, price, paid) ==
    LET bytes == (paid * PricePrecision) \div price IN
    /\ price > 0 /\ price <= MaxPrice
    /\ Acceptable(paid, bytes)
    /\ AddOrder([type |-> "buy", owner |-> owner, price |-> price,
                bytes |-> bytes, quantity |-> paid])
    /\ book' = [book EXCEPT !.num_buy_orders = @ + 1,
                            !.buy_quantity = @ + paid,
                            !.buy_bytes = @ + bytes]
    /\ eos' = eos + paid
    /\ UNCHANGED <<bankVars, settings, ignored>>

(* Mutant: every closed order counts as a buy order. *)
UnlistedAsBuys(S) ==
    [book EXCEPT !.num_buy_orders = @ - Cardinality(S),
                 !.buy_quantity   = @ - QuantityOf(S),
                 !.buy_bytes      = @ - BytesOf(S)]

(* What closing the orders of S does to the totals of pending orders. *)
Unlisted(S) ==
    LET buys == S \cap Open("buy")  sells == S \cap Open("sell") IN
    [book EXCEPT !.num_buy_orders  = @ - Cardinality(buys),
                 !.buy_quantity    = @ - QuantityOf(buys),
                 !.buy_bytes       = @ - BytesOf(buys),
                 !.num_sell_orders = @ - Cardinality(sells),
                 !.sell_quantity   = @ - QuantityOf(sells),
                 !.sell_bytes      = @ - BytesOf(sells)]

(* Mutant: traded orders stay among the pending ones. *)
TradedOnly(S) ==
    [book EXCEPT !.num_trade_orders = @ + Cardinality(S),
                 !.trade_quantity   = @ + QuantityOf(S),
                 !.trade_bytes      = @ + BytesOf(S)]

Traded(S) ==
    [Unlisted(S) EXCEPT !.num_trade_orders = @ + Cardinality(S),
                        !.trade_quantity   = @ + QuantityOf(S),
                        !.trade_bytes      = @ + BytesOf(S)]

(* Mutant: sell orders are refunded as well. *)
RefundOfAll(S) == QuantityOf(S)

RefundOf(S) == QuantityOf(S \cap Open("buy"))

(* Erase the orders of S, unfreeze the bytes of the sell orders among them and
   refund the EOS of the buy orders. *)
Cancel(S) ==
    LET sold(a) == BytesOf({i \in S \cap Open("sell") : orders[i].owner = a}) IN
    /\ settings.exists
    /\ ~ settings.disabled_cancel_order
    /\ S # {}
    /\ \A a \in Accounts : sold(a) <= deposits[a].frozen_bytes
    /\ deposits' = [a \in Accounts |-> [deposits[a] EXCEPT !.frozen_bytes = @ - sold(a)]]
    /\ orders' = Closed(S)
    /\ book' = Unlisted(S)
    /\ eos' = eos - RefundOf(S)
    /\ UNCHANGED <<config, stat, borrows, container, rewardVars, settings, orderId, ignored>>

CancelOrder(owner, ids) ==
    Cancel({i \in Range(ids) : i \in OpenBy("buy", owner) \cup OpenBy("sell", owner)})

(* One inline cancelorder for each of the first maxRows orders; 0 is no limit. *)
CancelAllOrd(maxRows) ==
    LET all == Open("buy") \cup Open("sell") IN
    \E S \in SUBSET all :
        /\ maxRows > 0 => Cardinality(S) <= maxRows
        /\ maxRows = 0 \/ Cardinality(S) < maxRows => S = all
        /\ \A i \in S, j \in all \ S : i < j
        /\ Cancel(S)

-----------------------------------------------------------------------------
(* Trades. *)

(* owner sells to the pending buy orders of the list. *)
Sell(owner, ids) ==
    \E S \in SUBSET Range(ids) :
        LET others == ByOthers(S, owner)
            bought(a) == BytesOf({i \in others : orders[i].owner = a})
            after == [a \in Accounts |->
                        [deposits[a] EXCEPT !.bytes = IF a = owner THEN @ - BytesOf(others)
                                                      ELSE @ + bought(a)]]
            toSeller == QuantityOf(S) - FeesOf(S)
        IN /\ settings.exists
           /\ ~ settings.disabled_trade
           /\ Walk(ids, "buy", Volumes, Available(owner), S)
           /\ S # {}
           /\ toSeller > 0
           /\ FeesPayable(S)
           /\ deposits' = after
           /\ TradeTransfers(IF others = {} THEN {} ELSE {owner} \cup Owners(others), after)
           /\ orders' = Closed(S)
           /\ book' = Traded(S)
           /\ eos' = eos - toSeller - FeesOf(S)
           /\ UNCHANGED <<config, stat, borrows, container, settings, orderId, ignored>>

(* EOS arrives with memo "buy,<ids>": the sellers of the executed orders are
   paid, their bytes unfrozen and transferred, the rest of the EOS refunded.
   eosio.token refuses to transfer nothing. *)
Buy(owner, ids, paid) ==
    \E S \in SUBSET Range(ids) :
        LET others == ByOthers(S, owner)
            sold(a) == BytesOf({i \in S : orders[i].owner = a})
            after == [a \in Accounts |->
                        [bytes |-> IF a = owner THEN deposits[a].bytes + BytesOf(others)
                                   ELSE deposits[a].bytes - sold(a),
                         frozen_bytes |-> deposits[a].frozen_bytes - sold(a)]]
            toSellers == QuantityOf(S) - FeesOf(S)
            refund == paid - QuantityOf(S)
        IN /\ settings.exists
           /\ ~ settings.disabled_trade
           /\ Walk(ids, "sell", Costs, paid, S)
           /\ S # {}
           /\ \A i \in S : orders[i].quantity - OrderFee(i) > 0
           /\ FeesPayable(S)
           /\ \A a \in Accounts : sold(a) <= deposits[a].frozen_bytes
           /\ deposits' = after
           /\ TradeTransfers(IF others = {} THEN {} ELSE {owner} \cup Owners(others), after)
           /\ orders' = Closed(S)
           /\ book' = Traded(S)
           /\ eos' = eos + paid - toSellers - FeesOf(S) - refund
           /\ UNCHANGED <<config, stat, borrows, container, settings, orderId, ignored>>

(* EOS sent with memo "ignore" stays with the contract. *)
IgnoredTransfer(paid) ==
    /\ ignored + paid <= MaxIgnored
    /\ eos' = eos + paid
    /\ ignored' = ignored + paid
    /\ UNCHANGED <<bankVars, settings, orders, orderId, book>>

-----------------------------------------------------------------------------

ExchangeAdmin ==
    \/ \E ratio \in TradeFeeRatios : FeeConfig(ratio)
    \/ \E amount \in MinAmounts, bytes \in MinBytes : TradeConfig(amount, bytes)
    \/ \E noTrade, noPending, noCancel \in BOOLEAN : StatusConfig(noTrade, noPending, noCancel)

ExchangeNext ==
    \/ \E a \in Accounts, p \in Prices, n \in Amounts : SellOrder(a, p, n)
    \/ \E a \in Accounts, p \in Prices, q \in Quantities : BuyOrder(a, p, q)
    \/ \E a \in Accounts, ids \in IdLists : CancelOrder(a, ids)
    \/ \E maxRows \in 0..MaxOrders : CancelAllOrd(maxRows)
    \/ \E a \in Accounts, ids \in IdLists : Sell(a, ids)
    \/ \E a \in Accounts, ids \in IdLists, q \in Quantities : Buy(a, ids, q)
    \/ \E q \in Quantities : IgnoredTransfer(q)

BankStep == (AdminNext \/ LedgerNext) /\ UNCHANGED exchangeVars

XInit == Init /\ ExchangeInit
XNext == ExchangeAdmin \/ ExchangeNext \/ BankStep
XSpec == XInit /\ [][XNext]_vars

-----------------------------------------------------------------------------
(* Properties. *)

(* The bytes rambank.eos keeps frozen for an account are exactly the bytes of
   its open sell orders: freeze, unfreeze and the order table of another
   contract stay in step over any order of listing, cancelling and trading. *)
FrozenMatchesOrders ==
    \A a \in Accounts : deposits[a].frozen_bytes = BytesOf(OpenBy("sell", a))

(* ramx.eos holds exactly the EOS of the open buy orders and what was sent with
   memo "ignore": every order can be refunded or paid out, and nothing of a
   trade is left behind. *)
EscrowMatchesOrders == eos = QuantityOf(Open("buy")) + ignored

(* The totals of pending orders in stat are the totals of the open orders. *)
BookMatchesOrders ==
    /\ book.num_sell_orders = Cardinality(Open("sell"))
    /\ book.sell_bytes = BytesOf(Open("sell"))
    /\ book.sell_quantity = QuantityOf(Open("sell"))
    /\ book.num_buy_orders = Cardinality(Open("buy"))
    /\ book.buy_bytes = BytesOf(Open("buy"))
    /\ book.buy_quantity = QuantityOf(Open("buy"))

(* No order is ever in the table above the last id given out, so the next
   emplace never meets an existing id. *)
NextIdFree == \A i \in Ids : i > orderId => orders[i] = NoOrder

(* An order never changes while it is open, and an id that left the table does
   not come back: no order is filled or refunded twice. *)
OrderLifecycle ==
    [][\A i \in Ids :
          /\ orders[i] # NoOrder => orders'[i] \in {orders[i], NoOrder}
          /\ i <= orderId /\ orders[i] = NoOrder => orders'[i] = NoOrder]_vars

(* In a trade everyone but the taker gets and gives exactly the bytes of the
   closed orders, whichever of them the walk skipped. *)
MakersServedInFull ==
    [][book'.num_trade_orders # book.num_trade_orders =>
         LET gone(type, a) == {i \in OpenBy(type, a) : orders'[i] = NoOrder} IN
         \E taker \in Accounts : \A a \in Accounts \ {taker} :
            /\ deposits'[a].bytes = deposits[a].bytes
                 + BytesOf(gone("buy", a)) - BytesOf(gone("sell", a))
            /\ deposits'[a].frozen_bytes =
                 deposits[a].frozen_bytes - BytesOf(gone("sell", a))]_vars

=============================================================================
