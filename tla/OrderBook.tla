----------------------------- MODULE OrderBook ------------------------------
(***************************************************************************)
(* class orderbook (src/src/orderbook.cpp, src/includes/orderbook.h): two  *)
(* maps of price levels, each level a hive of orders with a running total, *)
(* and a hash table from order ids to places in the hives.                 *)
(*                                                                         *)
(* A book belongs to one thread, so a call is one step, except execute():  *)
(* each iteration of its matching loop is a step of its own.               *)
(*                                                                         *)
(* modify(id, new_order) is called with id = new_order.order_id throughout *)
(* the repository, and Modify takes one order.                             *)
(***************************************************************************)
EXTENDS OrderTypes, Hive

CONSTANTS
    Garbled,        \* an order id whose first bytes were overwritten
    BlockCapacity   \* slots of a hive's first block: bound on Add and Modify

ASSUME OrderBookAssumption ==
    /\ Garbled \notin OrderIds
    /\ BlockCapacity \in Nat

VARIABLES
    levels,     \* bids_ and asks_: for each side, a map from price to level
    lookup,     \* order_id_lookup_
    executing,  \* inside execute()
    ret,        \* result of the last call
    logged      \* the event handed to the logger by the last step

vars == <<levels, lookup, executing, ret, logged>>

-----------------------------------------------------------------------------
(* The events of the logger's log_... functions *)

NoEvent == [kind |-> "none"]

PriceLevelUpdate(o) == [kind |-> "price_level_update", order |-> o]

ModifyEvent(old, new) == [kind |-> "modify", order |-> new, old |-> old]

CancelEvent(o) == [kind |-> "cancel", order |-> o]

\* Mutant: both ids are copied from the buy order.
TradeReport_BuyIdTwice(buy, bidPrice, m, sell, askPrice) ==
    [kind |-> "trade_report", qty |-> m, buy |-> buy.order_id,
     buy_price |-> bidPrice, sell |-> buy.order_id, sell_price |-> askPrice]

TradeReport(buy, bidPrice, m, sell, askPrice) ==
    [kind |-> "trade_report", qty |-> m, buy |-> buy.order_id,
     buy_price |-> bidPrice, sell |-> sell.order_id, sell_price |-> askPrice]

-----------------------------------------------------------------------------

Init ==
    /\ levels = [s \in Sides |-> <<>>]
    /\ lookup = <<>>
    /\ executing = FALSE
    /\ ret = "VOID"
    /\ logged = NoEvent

-----------------------------------------------------------------------------
(* Price levels *)

NewLevel == [orders |-> EmptyHive, total_qty |-> 0]

\* container[price], which constructs the level on demand.
LevelAt(ls, s, p) == IF p \in DOMAIN ls[s] THEN ls[s][p] ELSE NewLevel

PutLevel(ls, s, p, l) ==
    [ls EXCEPT ![s] =
        [q \in DOMAIN @ \cup {p} |-> IF q = p THEN l ELSE @[q]]]

DropLevel(ls, s, p) == [ls EXCEPT ![s] = [q \in DOMAIN @ \ {p} |-> @[q]]]

\* Mutant: an emptied level stays in its map.
KeepLevel_EvenEmpty(ls, s, p, l) == PutLevel(ls, s, p, l)

\* A level is erased from its map when its last order has gone.
KeepLevel(ls, s, p, l) ==
    IF DOMAIN l.orders.at = {} THEN DropLevel(ls, s, p)
                               ELSE PutLevel(ls, s, p, l)

InsertOrder(ls, o) ==
    LET l == LevelAt(ls, o.side, o.price)
    IN  PutLevel(ls, o.side, o.price,
                 [orders    |-> HiveInsert(l.orders, o),
                  total_qty |-> l.total_qty + o.qty])

\* Mutant: the level's total still counts the erased order.
EraseOrder_KeepsTotal(ls, s, p, i) ==
    KeepLevel(ls, s, p, [ls[s][p] EXCEPT !.orders = HiveErase(@, i)])

EraseOrder(ls, s, p, i) ==
    LET l == ls[s][p]
    IN  KeepLevel(ls, s, p,
                  [orders    |-> HiveErase(l.orders, i),
                   total_qty |-> l.total_qty - l.orders.at[i].qty])

\* Slot i of the level of side s and price p holds an order; that order.
Holds(ls, s, p, i) == p \in DOMAIN ls[s] /\ i \in DOMAIN ls[s][p].orders.at
OrderAt(ls, s, p, i) == ls[s][p].orders.at[i]

\* A hive iterator, and the order it refers to.
Iter(s, p, i) == [side |-> s, price |-> p, slot |-> i]
Deref(it) == OrderAt(levels, it.side, it.price, it.slot)

\* struct order_location for an order inserted into levels ls.
LocationOf(ls, o) ==
    [price |-> o.price,
     it    |-> Iter(o.side, o.price,
                    InsertSlot(LevelAt(ls, o.side, o.price).orders))]

Fits(loc) == loc.it.slot <= BlockCapacity

-----------------------------------------------------------------------------
(* References read after the erase *)

Garble(o) == [o EXCEPT !.order_id = Garbled]

(***************************************************************************)
(* cancel() and modify() log the old order through a reference into its    *)
(* hive slot, after the slot was erased.  If the level lives on, the slot  *)
(* holds the order inserted into it since, or a free-list node written     *)
(* over the first bytes of the order, or the order as it was.  If the      *)
(* level died with its last order, the memory is the allocator's: its      *)
(* bookkeeping may have overwritten the id, and a block allocated since    *)
(* may have been placed there.                                             *)
(***************************************************************************)
StaleReads(ls, it, o, since) ==
    IF DOMAIN levels[it.side][it.price].orders.at = {it.slot}
      THEN {o, Garble(o)} \cup since
      ELSE LET h == ls[it.side][it.price].orders
           IN  {IF it.slot \in DOMAIN h.at THEN h.at[it.slot]
                ELSE IF it.slot \in Range(h.free) THEN Garble(o) ELSE o}

-----------------------------------------------------------------------------
(* The calls *)

Unchanged == UNCHANGED <<levels, lookup, executing>> /\ logged' = NoEvent

\* Mutant: the price is not checked.
AddVerdict_AnyPrice(o) ==
    IF o.order_id \in DOMAIN lookup THEN "DUPLICATE_ID"
    ELSE IF o.side \notin Sides THEN "INVALID_SIDE"
    ELSE "SUCCESS"

AddVerdict(o) ==
    IF o.order_id \in DOMAIN lookup THEN "DUPLICATE_ID"
    ELSE IF o.side \notin Sides THEN "INVALID_SIDE"
    ELSE IF o.price > MaxPrice THEN "INVALID_PRICE"
    ELSE "SUCCESS"

AddRejected(o) ==
    /\ ~executing
    /\ AddVerdict(o) # "SUCCESS"
    /\ ret' = AddVerdict(o)
    /\ Unchanged

AddAccepted(o) ==
    /\ ~executing
    /\ AddVerdict(o) = "SUCCESS"
    /\ Fits(LocationOf(levels, o))
    /\ levels' = InsertOrder(levels, o)
    /\ lookup' = [id \in DOMAIN lookup \cup {o.order_id} |->
                     IF id = o.order_id THEN LocationOf(levels, o)
                                        ELSE lookup[id]]
    /\ ret' = "SUCCESS"
    /\ logged' = PriceLevelUpdate(o)
    /\ UNCHANGED executing

ModifyVerdict(o) ==
    IF o.order_id \notin DOMAIN lookup THEN "ORDER_NOT_FOUND"
    ELSE IF o.side \notin Sides THEN "INVALID_SIDE"
    ELSE IF o.price > MaxPrice THEN "INVALID_PRICE"
    ELSE "SUCCESS"

ModifyRejected(o) ==
    /\ ~executing
    /\ ModifyVerdict(o) # "SUCCESS"
    /\ ret' = ModifyVerdict(o)
    /\ Unchanged

\* Mutant: the lookup entry keeps the iterator of the erased slot.
ModifyAccepted_KeepsLocation(o) ==
    LET it     == lookup[o.order_id].it
        erased == EraseOrder(levels, it.side, it.price, it.slot)
    IN  /\ ~executing
        /\ ModifyVerdict(o) = "SUCCESS"
        /\ levels' = InsertOrder(erased, o)
        /\ ret' = "SUCCESS"
        /\ logged' = NoEvent
        /\ UNCHANGED <<lookup, executing>>

(***************************************************************************)
(* The order is erased from the level its own side and price name, and the *)
(* new one inserted wherever its side and price say, even into the slot    *)
(* just freed.                                                             *)
(***************************************************************************)
ModifyAccepted(o) ==
    LET it     == lookup[o.order_id].it
        old    == Deref(it)
        erased == EraseOrder(levels, old.side, old.price, it.slot)
    IN  /\ ~executing
        /\ ModifyVerdict(o) = "SUCCESS"
        /\ Fits(LocationOf(erased, o))
        /\ levels' = InsertOrder(erased, o)
        /\ lookup' = [lookup EXCEPT ![o.order_id] = LocationOf(erased, o)]
        /\ ret' = "SUCCESS"
        /\ \E r \in StaleReads(levels', it, old, {o}) :
              logged' = ModifyEvent(r, o)
        /\ UNCHANGED executing

CancelRejected(id) ==
    /\ ~executing
    /\ id \notin DOMAIN lookup
    /\ ret' = "ORDER_NOT_FOUND"
    /\ Unchanged

\* The level is found by the side of the stored order and the price kept in
\* the lookup entry.
CancelAccepted(id) ==
    LET loc    == lookup[id]
        stored == Deref(loc.it)
    IN  /\ ~executing
        /\ id \in DOMAIN lookup
        /\ levels' = EraseOrder(levels, stored.side, loc.price, loc.it.slot)
        /\ lookup' = [i \in DOMAIN lookup \ {id} |-> lookup[i]]
        /\ ret' = "SUCCESS"
        /\ \E r \in StaleReads(levels', loc.it, stored, {}) :
              logged' = CancelEvent(r)
        /\ UNCHANGED executing

-----------------------------------------------------------------------------
(* execute() *)

\* best_bid() and best_ask(): the last key of bids_, the first of asks_.
BestBid == Max(DOMAIN levels["BUY"])
\* Mutant: the ask side is read from the wrong end of its map.
BestAsk_Highest == Max(DOMAIN levels["SELL"])

BestAsk == Min(DOMAIN levels["SELL"])

\* Neither exit condition of the loop holds: the book is crossed, and both of
\* the best levels have an order.
CanMatch ==
    /\ DOMAIN levels["BUY"] # {}
    /\ DOMAIN levels["SELL"] # {}
    /\ BestBid >= BestAsk
    /\ DOMAIN levels["BUY"][BestBid].orders.at # {}
    /\ DOMAIN levels["SELL"][BestAsk].orders.at # {}

StartExecute ==
    /\ ~executing
    /\ executing' = TRUE
    /\ ret' = "VOID"
    /\ logged' = NoEvent
    /\ UNCHANGED <<levels, lookup>>

SetQty(h, i, q) ==
    [at |-> [h.at EXCEPT ![i] = [@ EXCEPT !.qty = q]], end |-> h.end, free |-> h.free]

\* Mutant: an order is only erased when the trade took something from it.
Fill_SkipsEmptyTrade(l, i, m) ==
    LET left == l.orders.at[i].qty - m IN
    [orders    |-> IF left = 0 /\ m # 0 THEN HiveErase(l.orders, i)
                   ELSE SetQty(l.orders, i, left),
     total_qty |-> l.total_qty - m]

\* Level l after quantity m left the order in slot i.
Fill(l, i, m) ==
    LET left == l.orders.at[i].qty - m IN
    [orders    |-> IF left = 0 THEN HiveErase(l.orders, i)
                   ELSE SetQty(l.orders, i, left),
     total_qty |-> l.total_qty - m]

(***************************************************************************)
(* One iteration: the first order of the best bid level trades with the    *)
(* first order of the best ask level.                                      *)
(***************************************************************************)
Match ==
    /\ executing
    /\ CanMatch
    /\ LET bid  == levels["BUY"][BestBid]
           ask  == levels["SELL"][BestAsk]
           b    == Begin(bid.orders)
           a    == Begin(ask.orders)
           buy  == bid.orders.at[b]
           sell == ask.orders.at[a]
           m    == IF buy.qty <= sell.qty THEN buy.qty ELSE sell.qty
           gone == {o.order_id : o \in {x \in {buy, sell} : x.qty = m}}
       IN  /\ levels' = KeepLevel(KeepLevel(levels, "BUY", BestBid, Fill(bid, b, m)),
                                  "SELL", BestAsk, Fill(ask, a, m))
           /\ lookup' = [id \in DOMAIN lookup \ gone |-> lookup[id]]
           /\ logged' = TradeReport(buy, BestBid, m, sell, BestAsk)
    /\ UNCHANGED <<executing, ret>>

EndExecute ==
    /\ executing
    /\ ~CanMatch
    /\ executing' = FALSE
    /\ logged' = NoEvent
    /\ UNCHANGED <<levels, lookup, ret>>

-----------------------------------------------------------------------------
Next ==
    \/ \E o \in InputOrders : AddRejected(o) \/ AddAccepted(o)
    \/ \E o \in InputOrders : ModifyRejected(o) \/ ModifyAccepted(o)
    \/ \E id \in OrderIds : CancelRejected(id) \/ CancelAccepted(id)
    \/ StartExecute
    \/ Match
    \/ EndExecute

Spec == Init /\ [][Next]_vars

\* A thread inside execute() keeps running its loop.
FairSpec == Spec /\ WF_vars(Match \/ EndExecute)

-----------------------------------------------------------------------------
(* Properties *)

\* An order as it may be read from an erased slot.
StaleOrders == [order_id : OrderIds \cup {Garbled}, side : Sides,
                price : Prices, qty : Nat]

Events ==
    {NoEvent}
    \cup [kind : {"price_level_update"}, order : Orders]
    \cup [kind : {"modify"}, order : Orders, old : StaleOrders]
    \cup [kind : {"cancel"}, order : StaleOrders]
    \cup [kind : {"trade_report"}, qty : Nat, buy : OrderIds, buy_price : Prices,
          sell : OrderIds, sell_price : Prices]

IsLevel(l) ==
    /\ l = [orders |-> l.orders, total_qty |-> l.total_qty]
    /\ IsHive(l.orders, Orders)
    /\ l.total_qty \in Int

IsLevels(ls) ==
    /\ ls = [s \in Sides |-> ls[s]]
    /\ \A s \in Sides :
         /\ ls[s] = [p \in DOMAIN ls[s] |-> ls[s][p]]
         /\ DOMAIN ls[s] \subseteq {p \in Prices : p <= MaxPrice}
         /\ \A p \in DOMAIN ls[s] : IsLevel(ls[s][p])

Locations == [price : Prices,
              it    : [side : Sides, price : Prices, slot : Nat \ {0}]]

\* Type invariant.  Prices in the book have passed the MAX_PRICE check of
\* add() and modify().
TypeOK ==
    /\ IsLevels(levels)
    /\ DOMAIN lookup \subseteq OrderIds
    /\ lookup \in [DOMAIN lookup -> Locations]
    /\ executing \in BOOLEAN
    /\ ret \in Results
    /\ logged \in Events

(***************************************************************************)
(* order_id_lookup_ and the hives name each other: every entry's iterator  *)
(* refers to a live order with that id, the price kept beside it is that   *)
(* order's price, and every live order is the one its id's entry refers    *)
(* to.  cancel() and modify() dereference the iterator unchecked.          *)
(***************************************************************************)
LookupConsistent ==
    /\ \A id \in DOMAIN lookup :
         LET it == lookup[id].it IN
         /\ Holds(levels, it.side, it.price, it.slot)
         /\ Deref(it).order_id = id
         /\ lookup[id].price = it.price
    /\ \A s \in Sides : \A p \in DOMAIN levels[s] :
         \A i \in DOMAIN levels[s][p].orders.at :
           LET id == OrderAt(levels, s, p, i).order_id IN
           id \in DOMAIN lookup /\ lookup[id].it = Iter(s, p, i)

(***************************************************************************)
(* A level holds only orders of its side and price and at least one of     *)
(* them: best_bid() and best_ask() never name a level without orders, and  *)
(* the loop of execute() never stops at one on a crossed book.             *)
(***************************************************************************)
LevelsConsistent ==
    \A s \in Sides : \A p \in DOMAIN levels[s] :
        LET h == levels[s][p].orders IN
        /\ DOMAIN h.at # {}
        /\ \A i \in DOMAIN h.at : h.at[i].side = s /\ h.at[i].price = p

\* The units that the orders of a hive still want, each a pair of the order's
\* slot and a count.
Units(h) == UNION {{i} \X (1..h.at[i].qty) : i \in DOMAIN h.at}

(***************************************************************************)
(* total_qty is what the level's orders still want, whatever mix of adds,  *)
(* modifies, cancels and partial fills led here; it never wraps below 0.   *)
(***************************************************************************)
TotalsExact ==
    \A s \in Sides : \A p \in DOMAIN levels[s] :
        levels[s][p].total_qty = Cardinality(Units(levels[s][p].orders))

\* The hives' free lists stay exact through every order of erasures and
\* reinsertions, so that insert() never constructs over a live order.
FreeListsExact ==
    \A s \in Sides : \A p \in DOMAIN levels[s] : HiveOK(levels[s][p].orders)

\* Where the orders of the book are stored.
Stored ==
    UNION {UNION {{Iter(s, p, i) : i \in DOMAIN levels[s][p].orders.at}
                    : p \in DOMAIN levels[s]} : s \in Sides}

\* Every iteration of execute() erases an order and inserts none, whatever the
\* quantities: the loop runs at most once for each order of the book.
MatchErases ==
    [][executing /\ executing' => Stored' \subseteq Stored /\ Stored' # Stored]_vars

\* execute() returns: every iteration of its loop erases an order, also when
\* an order of quantity zero trades nothing.
ExecuteReturns == executing ~> ~executing

-----------------------------------------------------------------------------
\* The orders resting in the levels, by id.
BookOf == [id \in DOMAIN lookup |-> Deref(lookup[id].it)]

Abstract == INSTANCE MatchingBook WITH book <- BookOf

\* The book implements MatchingBook: result codes, resting orders and trades
\* are the ones a caller can expect of a book that is a plain map.
ImplementsMatchingBook == Abstract!Spec
=============================================================================
