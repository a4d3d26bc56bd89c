------------------------ MODULE OrderBookRefinement -------------------------
(***************************************************************************)
(* The order book implements MatchingBook, for any set of ids, prices and  *)
(* quantities and any block capacity: price levels, hives and the lookup   *)
(* table together behave as a plain map from ids to orders.  And the       *)
(* reader of BookReplay, who sees the log alone, knows its resting orders. *)
(***************************************************************************)
EXTENDS OrderBookProofs, BookReplay

-----------------------------------------------------------------------------
(* The refinement mapping *)

\* The mapped book, one order per entry of the lookup table.
LEMMA BookOfEntries ==
    ASSUME BookInv
    PROVE  /\ DOMAIN BookOf = DOMAIN lookup
           /\ BookOf = [id \in DOMAIN lookup |-> OrderOf(levels, lookup[id].it)]
           /\ \A id \in DOMAIN lookup :
                 /\ BookOf[id] = OrderOf(levels, lookup[id].it)
                 /\ BookOf[id] \in Orders
                 /\ BookOf[id].side \in Sides
                 /\ BookOf[id].price \in DOMAIN levels[BookOf[id].side]
<1>1. /\ DOMAIN BookOf = DOMAIN lookup
      /\ BookOf = [id \in DOMAIN lookup |-> OrderOf(levels, lookup[id].it)]
      /\ \A id \in DOMAIN lookup : /\ BookOf[id] = Deref(lookup[id].it)
                                   /\ BookOf[id] = OrderOf(levels, lookup[id].it)
    BY DEF BookOf, Deref, OrderOf
<1>2. ASSUME NEW id \in DOMAIN lookup
      PROVE  /\ BookOf[id] \in Orders
             /\ BookOf[id].side \in Sides
             /\ BookOf[id].price \in DOMAIN levels[BookOf[id].side]
  <2> DEFINE it == lookup[id].it
             o  == Deref(it)
  <2>1. /\ it.side \in Sides
        /\ Holds(levels, it.side, it.price, it.slot)
        /\ o \in Orders
        /\ o.side = it.side
        /\ o.price = it.price
    BY EntryOf DEF BookInv
  <2>2. QED
    BY <2>1, <1>1 DEF Holds
<1>3. QED
    BY <1>1, <1>2

\* The prices of the mapped book are the keys of bids_ and asks_.
LEMMA PricesAreLevels ==
    ASSUME BookInv, NEW s \in Sides
    PROVE  Abstract!PricesOf(s) = DOMAIN levels[s]
<1>1. ASSUME NEW p \in Abstract!PricesOf(s)
      PROVE  p \in DOMAIN levels[s]
  <2>1. PICK id \in DOMAIN BookOf : BookOf[id].side = s /\ p = BookOf[id].price
    BY DEF Abstract!PricesOf
  <2>2. QED
    BY <2>1, BookOfEntries
<1>2. ASSUME NEW p \in DOMAIN levels[s]
      PROVE  p \in Abstract!PricesOf(s)
  <2>1. PICK i : Holds(levels, s, p, i)
    BY DEF BookInv, LevelsOK, Holds
  <2> DEFINE o == OrderAt(levels, s, p, i)
  <2>2. o.side = s /\ o.price = p /\ Resting(o)
    BY <2>1, RestingOrder DEF BookInv
  <2> HIDE DEF o
  <2>3. o.order_id \in DOMAIN BookOf /\ BookOf[o.order_id] = o
    BY <2>2, BookOfEntries DEF Resting
  <2>4. QED
    BY <2>2, <2>3 DEF Abstract!PricesOf
<1>3. QED
    BY <1>1, <1>2

\* execute() goes on matching exactly while the mapped book is crossed.
LEMMA CrossedIsCanMatch ==
    ASSUME BookInv
    PROVE  CanMatch <=> Abstract!Crossed
<1>1. /\ Abstract!PricesOf("BUY") = DOMAIN levels["BUY"]
      /\ Abstract!PricesOf("SELL") = DOMAIN levels["SELL"]
    BY PricesAreLevels DEF Sides
<1>2. /\ DOMAIN levels["BUY"] # {} =>
            /\ BestBid \in DOMAIN levels["BUY"]
            /\ \A p \in DOMAIN levels["BUY"] : p <= BestBid
      /\ DOMAIN levels["SELL"] # {} =>
            /\ BestAsk \in DOMAIN levels["SELL"]
            /\ \A p \in DOMAIN levels["SELL"] : BestAsk <= p
    BY BestLevels DEF BookInv
<1>3. /\ DOMAIN levels["BUY"] \subseteq Nat
      /\ DOMAIN levels["SELL"] \subseteq Nat
      /\ \A p \in DOMAIN levels["BUY"] : DOMAIN levels["BUY"][p].orders.at # {}
      /\ \A p \in DOMAIN levels["SELL"] : DOMAIN levels["SELL"][p].orders.at # {}
    BY OrderTypesAssumption DEF BookInv, LevelsOK, IsLevels, Sides
<1> DEFINE B == DOMAIN levels["BUY"]
           S == DOMAIN levels["SELL"]
           P == BestBid
           Q == BestAsk
<1> HIDE DEF P, Q
<1>4. ASSUME CanMatch PROVE Abstract!Crossed
    BY <1>1, <1>2, <1>4 DEF CanMatch, Abstract!Crossed
<1>5. ASSUME Abstract!Crossed PROVE CanMatch
  <2>1. PICK b \in B, a \in S : b >= a
    BY <1>1, <1>5 DEF Abstract!Crossed
  <2>2. P \in B /\ b <= P /\ Q \in S /\ Q <= a
    BY <2>1, <1>2 DEF P, Q
  <2>3. P >= Q
    BY <2>1, <2>2, <1>3
  <2>4. QED
    BY <2>2, <2>3, <1>3 DEF CanMatch, P, Q
<1>6. QED
    BY <1>4, <1>5

-----------------------------------------------------------------------------
(* Initial states and steps *)

\* An empty book maps to the empty map.
LEMMA InitRefines == Init => Abstract!Init
<1> SUFFICES ASSUME Init PROVE Abstract!Init
    OBVIOUS
<1>1. BookOf = <<>>
    BY DEF Init, BookOf
<1>2. QED
    BY <1>1 DEF Init, Abstract!Init

\* A step that leaves levels and lookup table alone leaves the mapped book alone.
LEMMA BookOfUnchanged ==
    ASSUME levels' = levels, lookup' = lookup
    PROVE  BookOf' = BookOf
    BY DEF BookOf, Deref, OrderAt

\* A step that stores o maps to the map with o put in.
LEMMA StoresIsPut ==
    ASSUME BookInv, BookInv', NEW o, Stores(o)
    PROVE  BookOf' = Abstract!Put(o)
<1>1. /\ DOMAIN BookOf = DOMAIN lookup
      /\ \A id \in DOMAIN lookup : BookOf[id] = OrderOf(levels, lookup[id].it)
    BY BookOfEntries
<1>2. BookOf' = [id \in DOMAIN lookup' |-> OrderOf(levels', lookup'[id].it)]
    BY DEF BookOf, Deref, OrderOf
<1>3. QED
    BY <1>1, <1>2 DEF Stores, Abstract!Put

\* add()
LEMMA AddRefines ==
    ASSUME BookInv, NEW o \in InputOrders, AddRejected(o) \/ AddAccepted(o)
    PROVE  Abstract!Add(o)
<1>1. DOMAIN BookOf = DOMAIN lookup
    BY BookOfEntries
<1>2. o.price \in Nat /\ MaxPrice \in Nat
    BY OrderTypesAssumption DEF InputOrders
<1>3. CASE AddRejected(o)
  <2>1. /\ ~executing
        /\ AddVerdict(o) # "SUCCESS"
        /\ ret' = AddVerdict(o)
        /\ executing' = executing
        /\ BookOf' = BookOf
    BY <1>3, BookOfUnchanged DEF AddRejected, Unchanged
  <2>2. QED
    BY <2>1, <1>1, <1>2 DEF AddVerdict, Abstract!Add, Abstract!Valid, Abstract!Rejection,
          Sides, Abstract!Sides
<1>4. CASE AddAccepted(o)
  <2>1. BookOf' = Abstract!Put(o)
    BY <1>4, AddStep, StoresIsPut
  <2>2. /\ ~executing
        /\ AddVerdict(o) = "SUCCESS"
        /\ ret' = "SUCCESS"
        /\ executing' = executing
    BY <1>4 DEF AddAccepted
  <2>3. QED
    BY <2>1, <2>2, <1>1, <1>2 DEF AddVerdict, Abstract!Add, Abstract!Valid,
          Sides, Abstract!Sides
<1>5. QED
    BY <1>3, <1>4

\* modify()
LEMMA ModifyRefines ==
    ASSUME BookInv, NEW o \in InputOrders, ModifyRejected(o) \/ ModifyAccepted(o)
    PROVE  Abstract!Modify(o)
<1>1. DOMAIN BookOf = DOMAIN lookup
    BY BookOfEntries
<1>2. o.price \in Nat /\ MaxPrice \in Nat
    BY OrderTypesAssumption DEF InputOrders
<1>3. CASE ModifyRejected(o)
  <2>1. /\ ~executing
        /\ ModifyVerdict(o) # "SUCCESS"
        /\ ret' = ModifyVerdict(o)
        /\ executing' = executing
        /\ BookOf' = BookOf
    BY <1>3, BookOfUnchanged DEF ModifyRejected, Unchanged
  <2>2. QED
    BY <2>1, <1>1, <1>2 DEF ModifyVerdict, Abstract!Modify, Abstract!Valid, Abstract!Rejection,
          Sides, Abstract!Sides
<1>4. CASE ModifyAccepted(o)
  <2>1. BookOf' = Abstract!Put(o)
    BY <1>4, ModifyStep, StoresIsPut
  <2>2. /\ ~executing
        /\ ModifyVerdict(o) = "SUCCESS"
        /\ ret' = "SUCCESS"
        /\ executing' = executing
    BY <1>4 DEF ModifyAccepted
  <2>3. QED
    BY <2>1, <2>2, <1>1, <1>2 DEF ModifyVerdict, Abstract!Modify, Abstract!Valid,
          Sides, Abstract!Sides
<1>5. QED
    BY <1>3, <1>4

\* cancel()
LEMMA CancelRefines ==
    ASSUME BookInv, NEW id \in OrderIds, CancelRejected(id) \/ CancelAccepted(id)
    PROVE  Abstract!Cancel(id)
<1>1. /\ DOMAIN BookOf = DOMAIN lookup
      /\ BookOf = [k \in DOMAIN lookup |-> OrderOf(levels, lookup[k].it)]
      /\ \A k \in DOMAIN lookup : BookOf[k] = OrderOf(levels, lookup[k].it)
    BY BookOfEntries
<1>2. CASE CancelRejected(id)
  <2>1. /\ ~executing
        /\ id \notin DOMAIN lookup
        /\ ret' = "ORDER_NOT_FOUND"
        /\ executing' = executing
        /\ BookOf' = BookOf
    BY <1>2, BookOfUnchanged DEF CancelRejected, Unchanged
  <2>2. Abstract!Without({id}) = BookOf
    BY <2>1, <1>1 DEF Abstract!Without
  <2>3. QED
    BY <2>1, <2>2, <1>1 DEF Abstract!Cancel
<1>3. CASE CancelAccepted(id)
  <2>1. /\ DOMAIN lookup' = DOMAIN lookup \ {id}
        /\ \A k \in DOMAIN lookup' :
              OrderOf(levels', lookup'[k].it) = OrderOf(levels, lookup[k].it)
    BY <1>3, CancelStep
  <2>2. BookOf' = [k \in DOMAIN lookup' |-> OrderOf(levels', lookup'[k].it)]
    BY DEF BookOf, Deref, OrderOf
  <2>3. BookOf' = Abstract!Without({id})
    BY <2>1, <2>2, <1>1 DEF Abstract!Without
  <2>4. ~executing /\ id \in DOMAIN lookup /\ ret' = "SUCCESS" /\ executing' = executing
    BY <1>3 DEF CancelAccepted
  <2>5. QED
    BY <2>3, <2>4, <1>1 DEF Abstract!Cancel
<1>4. QED
    BY <1>2, <1>3

\* One iteration of execute() is one trade between an order at the best bid and
\* an order at the best ask.
LEMMA MatchRefines ==
    ASSUME BookInv, Match
    PROVE  \E b \in Abstract!BestIds("BUY"), s \in Abstract!BestIds("SELL") :
              Abstract!Trade(b, s)
<1>1. PICK buy \in Orders, sell \in Orders :
        LET m  == IF buy.qty <= sell.qty THEN buy.qty ELSE sell.qty
            gb == IF buy.qty = m THEN {buy.order_id} ELSE {}
            gs == IF sell.qty = m THEN {sell.order_id} ELSE {}
        IN  /\ buy.side = "BUY" /\ buy.price = BestBid
            /\ sell.side = "SELL" /\ sell.price = BestAsk
            /\ Resting(buy) /\ Resting(sell)
            /\ DOMAIN lookup' = (DOMAIN lookup \ gb) \ gs
            /\ \A id \in DOMAIN lookup' :
                  OrderOf(levels', lookup'[id].it) =
                    IF id = sell.order_id THEN [sell EXCEPT !.qty = sell.qty - m]
                    ELSE IF id = buy.order_id THEN [buy EXCEPT !.qty = buy.qty - m]
                    ELSE OrderOf(levels, lookup[id].it)
    BY MatchStep
<1> DEFINE m == IF buy.qty <= sell.qty THEN buy.qty ELSE sell.qty
           b == buy.order_id
           s == sell.order_id
           left == [BookOf EXCEPT ![b].qty = @ - m, ![s].qty = @ - m]
           D == {i \in DOMAIN BookOf : i \notin {b, s} \/ left[i].qty # 0}
<1>2. /\ DOMAIN BookOf = DOMAIN lookup
      /\ BookOf = [id \in DOMAIN lookup |-> OrderOf(levels, lookup[id].it)]
      /\ \A id \in DOMAIN lookup : BookOf[id] = OrderOf(levels, lookup[id].it)
    BY BookOfEntries
<1>3. /\ b \in DOMAIN BookOf /\ BookOf[b] = buy
      /\ s \in DOMAIN BookOf /\ BookOf[s] = sell
    BY <1>1, <1>2 DEF Resting
<1>4. b # s
    BY <1>1, <1>3
<1>5. b \in Abstract!BestIds("BUY") /\ s \in Abstract!BestIds("SELL")
  <2>1. /\ \A p \in Abstract!PricesOf("BUY") : p <= BestBid
        /\ \A p \in Abstract!PricesOf("SELL") : p >= BestAsk
    <3>1. /\ DOMAIN levels["BUY"] # {} /\ DOMAIN levels["SELL"] # {}
          /\ DOMAIN levels["BUY"] \subseteq Nat /\ DOMAIN levels["SELL"] \subseteq Nat
      BY OrderTypesAssumption DEF Match, CanMatch, BookInv, LevelsOK, IsLevels, Sides
    <3>2. /\ \A p \in DOMAIN levels["BUY"] : p <= BestBid
          /\ BestAsk \in DOMAIN levels["SELL"]
          /\ \A p \in DOMAIN levels["SELL"] : BestAsk <= p
      BY <3>1, BestLevels DEF BookInv
    <3>3. QED
      BY <3>1, <3>2, PricesAreLevels DEF Sides
  <2>2. QED
    BY <2>1, <1>1, <1>3 DEF Abstract!BestIds
<1>6. /\ m \in Nat /\ buy.qty \in Nat /\ sell.qty \in Nat
      /\ buy.qty - m = 0 <=> buy.qty = m
      /\ sell.qty - m = 0 <=> sell.qty = m
    BY DEF Orders
<1>7. /\ DOMAIN left = DOMAIN BookOf
      /\ left[b] = [buy EXCEPT !.qty = buy.qty - m]
      /\ left[s] = [sell EXCEPT !.qty = sell.qty - m]
      /\ \A id \in DOMAIN BookOf \ {b, s} : left[id] = BookOf[id]
  <2> HIDE DEF m, b, s
  <2>1. QED
    BY <1>2, <1>3, <1>4
<1>8. left[b].qty = buy.qty - m /\ left[s].qty = sell.qty - m
  <2> HIDE DEF m, left
  <2>1. QED
    BY <1>7 DEF Orders
<1>9. BookOf' = [id \in D |-> left[id]]
  <2> DEFINE gb == IF buy.qty = m THEN {b} ELSE {}
             gs == IF sell.qty = m THEN {s} ELSE {}
  <2>1. /\ DOMAIN lookup' = (DOMAIN lookup \ gb) \ gs
        /\ \A id \in DOMAIN lookup' :
              OrderOf(levels', lookup'[id].it) =
                IF id = s THEN [sell EXCEPT !.qty = sell.qty - m]
                ELSE IF id = b THEN [buy EXCEPT !.qty = buy.qty - m]
                ELSE OrderOf(levels, lookup[id].it)
    BY <1>1
  <2>2. BookOf' = [id \in DOMAIN lookup' |-> OrderOf(levels', lookup'[id].it)]
    BY DEF BookOf, Deref, OrderOf
  <2> HIDE DEF m, left, b, s
  <2>3. DOMAIN lookup' = D
    BY <2>1, <1>2, <1>3, <1>4, <1>6, <1>7, <1>8
  <2>4. \A id \in DOMAIN lookup' : OrderOf(levels', lookup'[id].it) = left[id]
    BY <2>1, <2>3, <1>2, <1>3, <1>7
  <2> HIDE DEF D
  <2>5. QED
    BY <2>2, <2>3, <2>4
<1>10. executing /\ executing' = executing /\ ret' = ret
    BY DEF Match
<1>11. Abstract!Crossed
    BY CrossedIsCanMatch DEF Match
<1>12. Abstract!Trade(b, s)
  <2>1. m = IF BookOf[b].qty <= BookOf[s].qty THEN BookOf[b].qty ELSE BookOf[s].qty
    BY <1>3
  <2> HIDE DEF b, s, m
  <2>2. QED
    BY <2>1, <1>9, <1>10, <1>11 DEF Abstract!Trade
<1>13. QED
    BY <1>5, <1>12

\* Every step of the book is a step of the mapped book, or a stutter.
LEMMA NextRefines == BookInv /\ [Next]_vars => [Abstract!Next]_(Abstract!vars)
<1> SUFFICES ASSUME BookInv, [Next]_vars PROVE [Abstract!Next]_(Abstract!vars)
    OBVIOUS
<1>0. InputOrders = Abstract!InputOrders
    BY DEF InputOrders, Abstract!InputOrders
<1>1. ASSUME NEW o \in InputOrders, AddRejected(o) \/ AddAccepted(o)
      PROVE  Abstract!Next
    BY <1>0, <1>1, AddRefines DEF Abstract!Next
<1>2. ASSUME NEW o \in InputOrders, ModifyRejected(o) \/ ModifyAccepted(o)
      PROVE  Abstract!Next
    BY <1>0, <1>2, ModifyRefines DEF Abstract!Next
<1>3. ASSUME NEW id \in OrderIds, CancelRejected(id) \/ CancelAccepted(id)
      PROVE  Abstract!Next
    BY <1>3, CancelRefines DEF Abstract!Next
<1>4. ASSUME StartExecute PROVE Abstract!Next
    BY <1>4, BookOfUnchanged DEF StartExecute, Abstract!Next, Abstract!StartExecute
<1>5. ASSUME Match PROVE Abstract!Next
    BY <1>5, MatchRefines DEF Abstract!Next
<1>6. ASSUME EndExecute PROVE Abstract!Next
  <2>1. ~Abstract!Crossed
    BY <1>6, CrossedIsCanMatch DEF EndExecute
  <2>2. QED
    BY <2>1, <1>6, BookOfUnchanged DEF EndExecute, Abstract!Next, Abstract!EndExecute
<1>7. CASE UNCHANGED vars
    BY <1>7, BookOfUnchanged DEF vars, Abstract!vars
<1>8. QED
    BY <1>1, <1>2, <1>3, <1>4, <1>5, <1>6, <1>7 DEF Next

\* The order book implements MatchingBook: whatever sequence of add, modify,
\* cancel and execute calls, its result codes, its resting orders and its trades
\* are those of a plain map that always trades a best bid with a best ask and
\* stops only when no longer crossed.
THEOREM BookImplementsMatchingBook == Spec => ImplementsMatchingBook
    BY BookInvAlways, InitRefines, NextRefines, PTL
       DEF Spec, ImplementsMatchingBook, Abstract!Spec
-----------------------------------------------------------------------------
(* The reader of the log *)

\* The reader's map has every resting order, as it rests.
Traces(m) == \A id \in DOMAIN lookup :
                id \in DOMAIN m /\ m[id] = OrderOf(levels, lookup[id].it)

\* A step that stores o and logs it is followed by putting o in the map.
LEMMA StoreTraced ==
    ASSUME Traces(mirror), NEW o, Stores(o), mirror' = PutOrder(mirror, o)
    PROVE  Traces(mirror)'
<1>1. /\ DOMAIN mirror' = DOMAIN mirror \cup {o.order_id}
      /\ \A id \in DOMAIN mirror' :
            mirror'[id] = IF id = o.order_id THEN o ELSE mirror[id]
    BY DEF PutOrder
<1>2. ASSUME NEW id, id \in DOMAIN lookup'
      PROVE  id \in DOMAIN mirror' /\ mirror'[id] = OrderOf(levels', lookup'[id].it)
  <2>1. /\ OrderOf(levels', lookup'[id].it) =
              IF id = o.order_id THEN o ELSE OrderOf(levels, lookup[id].it)
        /\ id = o.order_id \/ id \in DOMAIN lookup
    BY <1>2 DEF Stores
  <2>2. CASE id = o.order_id
    BY <1>1, <2>1, <2>2
  <2>3. CASE id # o.order_id
    BY <1>1, <2>1, <2>3 DEF Traces
  <2>4. QED
    BY <2>2, <2>3
<1>3. QED
    BY <1>2 DEF Traces

\* A cancel event removes the cancelled order from the map, or nothing when its
\* id was overwritten: no other resting order is touched.
LEMMA CancelTraced ==
    ASSUME BookInv, Traces(mirror), NEW k \in OrderIds, CancelAccepted(k),
           mirror' = Read(mirror, logged')
    PROVE  Traces(mirror)'
<1>1. PICK r : r.order_id \in {k, Garbled} /\ logged' = CancelEvent(r)
    BY CancelStep
<1>2. mirror' = Keep(mirror, DOMAIN mirror \ {r.order_id})
    BY <1>1 DEF Read, CancelEvent
<1>3. /\ DOMAIN mirror' = DOMAIN mirror \ {r.order_id}
      /\ \A id \in DOMAIN mirror' : mirror'[id] = mirror[id]
    BY <1>2 DEF Keep
<1>4. /\ DOMAIN lookup' = DOMAIN lookup \ {k}
      /\ \A id \in DOMAIN lookup' :
            OrderOf(levels', lookup'[id].it) = OrderOf(levels, lookup[id].it)
    BY CancelStep
<1>5. Garbled \notin DOMAIN lookup
    BY OrderBookAssumption DEF BookInv, Indexed
<1>6. \A id \in DOMAIN lookup' : id \in DOMAIN lookup /\ id # r.order_id
    BY <1>1, <1>4, <1>5
<1>7. QED
    BY <1>3, <1>4, <1>6 DEF Traces

\* A trade report names the two orders that traded and the quantity both lost,
\* and the reader drops exactly the ones the book has dropped.
LEMMA MatchTraced ==
    ASSUME BookInv, Traces(mirror), Match, mirror' = Read(mirror, logged')
    PROVE  Traces(mirror)'
<1>1. PICK buy \in Orders, sell \in Orders :
        LET m  == IF buy.qty <= sell.qty THEN buy.qty ELSE sell.qty
            gb == IF buy.qty = m THEN {buy.order_id} ELSE {}
            gs == IF sell.qty = m THEN {sell.order_id} ELSE {}
        IN  /\ buy.side = "BUY" /\ sell.side = "SELL"
            /\ Resting(buy) /\ Resting(sell)
            /\ DOMAIN lookup' = (DOMAIN lookup \ gb) \ gs
            /\ \A id \in DOMAIN lookup' :
                  OrderOf(levels', lookup'[id].it) =
                    IF id = sell.order_id THEN [sell EXCEPT !.qty = sell.qty - m]
                    ELSE IF id = buy.order_id THEN [buy EXCEPT !.qty = buy.qty - m]
                    ELSE OrderOf(levels, lookup[id].it)
            /\ logged' = TradeReport(buy, BestBid, m, sell, BestAsk)
    BY MatchStep
<1> DEFINE m == IF buy.qty <= sell.qty THEN buy.qty ELSE sell.qty
           b == buy.order_id
           s == sell.order_id
           left == [id \in DOMAIN mirror |->
                       IF id \in {b, s} THEN [mirror[id] EXCEPT !.qty = @ - m]
                                        ELSE mirror[id]]
<1>2. /\ b \in DOMAIN mirror /\ mirror[b] = buy
      /\ s \in DOMAIN mirror /\ mirror[s] = sell
      /\ b # s
    BY <1>1 DEF Resting, Traces
<1>3. mirror' = Keep(left, {id \in DOMAIN mirror : id \notin {b, s} \/ left[id].qty # 0})
  <2>1. logged'.kind = "trade_report" /\ logged'.buy = b /\ logged'.sell = s /\ logged'.qty = m
    BY <1>1 DEF TradeReport
  <2> HIDE DEF m, b, s
  <2>2. QED
    BY <2>1 DEF Read, AfterTrade
<1>4. /\ m \in Nat /\ buy.qty \in Nat /\ sell.qty \in Nat
      /\ buy.qty - m = 0 <=> buy.qty = m
      /\ sell.qty - m = 0 <=> sell.qty = m
    BY DEF Orders
<1>5. /\ DOMAIN left = DOMAIN mirror
      /\ left[b] = [buy EXCEPT !.qty = buy.qty - m]
      /\ left[s] = [sell EXCEPT !.qty = sell.qty - m]
      /\ \A id \in DOMAIN mirror \ {b, s} : left[id] = mirror[id]
  <2> HIDE DEF m, b, s
  <2>1. QED
    BY <1>2
<1>6. left[b].qty = buy.qty - m /\ left[s].qty = sell.qty - m
  <2> HIDE DEF m, left
  <2>1. QED
    BY <1>5 DEF Orders
<1>7. /\ DOMAIN mirror' = {id \in DOMAIN mirror : id \notin {b, s} \/ left[id].qty # 0}
      /\ \A id \in DOMAIN mirror' : mirror'[id] = left[id]
  <2> HIDE DEF b, s, left
  <2>1. QED
    BY <1>3, <1>5 DEF Keep
<1> DEFINE gb == IF buy.qty = m THEN {b} ELSE {}
           gs == IF sell.qty = m THEN {s} ELSE {}
<1>8. /\ DOMAIN lookup' = (DOMAIN lookup \ gb) \ gs
      /\ \A id \in DOMAIN lookup' :
            OrderOf(levels', lookup'[id].it) =
              IF id = s THEN [sell EXCEPT !.qty = sell.qty - m]
              ELSE IF id = b THEN [buy EXCEPT !.qty = buy.qty - m]
              ELSE OrderOf(levels, lookup[id].it)
    BY <1>1
<1> HIDE DEF m, b, s, left
<1>9. ASSUME NEW id, id \in DOMAIN lookup'
      PROVE  id \in DOMAIN mirror' /\ mirror'[id] = OrderOf(levels', lookup'[id].it)
  <2>1. id \in DOMAIN mirror /\ mirror[id] = OrderOf(levels, lookup[id].it)
    BY <1>8, <1>9 DEF Traces
  <2>2. CASE id = b
    BY <2>2, <1>2, <1>4, <1>5, <1>6, <1>7, <1>8, <1>9
  <2>3. CASE id = s
    BY <2>3, <1>2, <1>4, <1>5, <1>6, <1>7, <1>8, <1>9
  <2>4. CASE id \notin {b, s}
    BY <2>1, <2>4, <1>5, <1>7, <1>8, <1>9
  <2>5. QED
    BY <2>2, <2>3, <2>4
<1>10. QED
    BY <1>9 DEF Traces

\* A step that touches no order logs nothing, and the reader reads nothing.
LEMMA NothingTraced ==
    ASSUME Traces(mirror), levels' = levels, lookup' = lookup, logged' = NoEvent,
           mirror' = Read(mirror, logged')
    PROVE  Traces(mirror)'
<1>1. mirror' = mirror
    BY DEF Read, NoEvent
<1>2. QED
    BY <1>1 DEF Traces

\* Every step of book and reader keeps the reader's map true.
LEMMA NextTraced ==
    BookInv /\ Traces(mirror) /\ [ReplayNext]_replayVars => Traces(mirror)'
<1> SUFFICES ASSUME BookInv, Traces(mirror), [ReplayNext]_replayVars
             PROVE  Traces(mirror)'
    OBVIOUS
<1>1. CASE UNCHANGED replayVars
    BY <1>1 DEF replayVars, vars, Traces
<1>2. CASE ReplayNext
  <2>1. mirror' = Read(mirror, logged')
    BY <1>2 DEF ReplayNext
  <2>2. ASSUME NEW o \in InputOrders, AddRejected(o) PROVE Traces(mirror)'
    BY <2>1, <2>2, NothingTraced DEF AddRejected, Unchanged
  <2>3. ASSUME NEW o \in InputOrders, AddAccepted(o) PROVE Traces(mirror)'
    <3>1. mirror' = PutOrder(mirror, o)
      BY <2>1, <2>3 DEF AddAccepted, PriceLevelUpdate, Read
    <3>2. QED
      BY <2>3, <3>1, AddStep, StoreTraced
  <2>4. ASSUME NEW o \in InputOrders, ModifyRejected(o) PROVE Traces(mirror)'
    BY <2>1, <2>4, NothingTraced DEF ModifyRejected, Unchanged
  <2>5. ASSUME NEW o \in InputOrders, ModifyAccepted(o) PROVE Traces(mirror)'
    <3>1. PICK r : logged' = ModifyEvent(r, o)
      BY <2>5 DEF ModifyAccepted
    <3>2. mirror' = PutOrder(mirror, o)
      BY <2>1, <3>1 DEF ModifyEvent, Read
    <3>3. QED
      BY <2>5, <3>2, ModifyStep, StoreTraced
  <2>6. ASSUME NEW id \in OrderIds, CancelRejected(id) PROVE Traces(mirror)'
    BY <2>1, <2>6, NothingTraced DEF CancelRejected, Unchanged
  <2>7. ASSUME NEW id \in OrderIds, CancelAccepted(id) PROVE Traces(mirror)'
    BY <2>1, <2>7, CancelTraced
  <2>8. CASE StartExecute
    BY <2>1, <2>8, NothingTraced DEF StartExecute
  <2>9. CASE Match
    BY <2>1, <2>9, MatchTraced
  <2>10. CASE EndExecute
    BY <2>1, <2>10, NothingTraced DEF EndExecute
  <2>11. QED
    BY <1>2, <2>2, <2>3, <2>4, <2>5, <2>6, <2>7, <2>8, <2>9, <2>10
       DEF ReplayNext, Next
<1>3. QED
    BY <1>1, <1>2

\* A reader of the log alone always knows every order that rests in the book,
\* with its side, its price and the quantity it has left, although the id of a
\* cancelled order may reach the log overwritten.
THEOREM LogTracesRestingOrders == ReplaySpec => []RestingOrdersTraced
<1>1. ReplayInit => BookInv /\ Traces(mirror)
  <2>1. ReplayInit => BookInv
    BY InitBookInv DEF ReplayInit
  <2>2. ReplayInit => Traces(mirror)
    BY DEF ReplayInit, Init, Traces
  <2>3. QED
    BY <2>1, <2>2
<1>2. BookInv /\ Traces(mirror) /\ [ReplayNext]_replayVars => (BookInv /\ Traces(mirror))'
  <2>1. [ReplayNext]_replayVars => [Next]_vars
    BY DEF ReplayNext, replayVars
  <2>2. QED
    BY <2>1, NextBookInv, NextTraced
<1>3. BookInv /\ Traces(mirror) => RestingOrdersTraced
    BY BookOfEntries DEF Traces, RestingOrdersTraced
<1>4. QED
    BY <1>1, <1>2, <1>3, PTL DEF ReplaySpec
=============================================================================
