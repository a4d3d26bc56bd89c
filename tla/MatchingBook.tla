---------------------------- MODULE MatchingBook ----------------------------
(***************************************************************************)
(* What an order book promises its caller, without price levels, hives or  *)
(* a lookup table: a map from the ids of the resting orders to the orders, *)
(* the result code of each call, and a matching run that trades the best   *)
(* bid against the best ask until the book is no longer crossed.  Which of *)
(* the orders resting at the best price trades first is left open, as the  *)
(* repository promises no time priority.                                   *)
(***************************************************************************)
EXTENDS OrderTypes

VARIABLES
    book,       \* the resting orders, by id
    executing,  \* inside execute()
    ret         \* result of the last call

vars == <<book, executing, ret>>

Init ==
    /\ book = <<>>
    /\ executing = FALSE
    /\ ret = "VOID"

\* The prices at which orders of side s rest.
PricesOf(s) == {book[id].price : id \in {i \in DOMAIN book : book[i].side = s}}

Crossed == \E b \in PricesOf("BUY") : \E a \in PricesOf("SELL") : b >= a

\* The ids resting at the best price of side s.
BestIds(s) ==
    {id \in DOMAIN book :
        /\ book[id].side = s
        /\ \A p \in PricesOf(s) :
              IF s = "BUY" THEN p <= book[id].price ELSE p >= book[id].price}

Put(o) ==
    [id \in DOMAIN book \cup {o.order_id} |->
        IF id = o.order_id THEN o ELSE book[id]]

Without(ids) == [id \in DOMAIN book \ ids |-> book[id]]

Valid(o) == o.side \in Sides /\ o.price <= MaxPrice

Rejection(o) == IF o.side \notin Sides THEN "INVALID_SIDE" ELSE "INVALID_PRICE"

-----------------------------------------------------------------------------
Add(o) ==
    /\ ~executing
    /\ \/ /\ o.order_id \in DOMAIN book
          /\ ret' = "DUPLICATE_ID"
          /\ book' = book
       \/ /\ o.order_id \notin DOMAIN book
          /\ ~Valid(o)
          /\ ret' = Rejection(o)
          /\ book' = book
       \/ /\ o.order_id \notin DOMAIN book
          /\ Valid(o)
          /\ ret' = "SUCCESS"
          /\ book' = Put(o)
    /\ UNCHANGED executing

Modify(o) ==
    /\ ~executing
    /\ \/ /\ o.order_id \notin DOMAIN book
          /\ ret' = "ORDER_NOT_FOUND"
          /\ book' = book
       \/ /\ o.order_id \in DOMAIN book
          /\ ~Valid(o)
          /\ ret' = Rejection(o)
          /\ book' = book
       \/ /\ o.order_id \in DOMAIN book
          /\ Valid(o)
          /\ ret' = "SUCCESS"
          /\ book' = Put(o)
    /\ UNCHANGED executing

Cancel(id) ==
    /\ ~executing
    /\ ret' = IF id \in DOMAIN book THEN "SUCCESS" ELSE "ORDER_NOT_FOUND"
    /\ book' = Without({id})
    /\ UNCHANGED executing

StartExecute ==
    /\ ~executing
    /\ executing' = TRUE
    /\ ret' = "VOID"
    /\ UNCHANGED book

\* One trade: the smaller quantity leaves both orders, and an order with
\* nothing left leaves the book.
Trade(b, s) ==
    LET m    == IF book[b].qty <= book[s].qty THEN book[b].qty ELSE book[s].qty
        left == [book EXCEPT ![b].qty = @ - m, ![s].qty = @ - m]
    IN  /\ executing
        /\ Crossed
        /\ book' = [id \in {i \in DOMAIN book : i \notin {b, s} \/ left[i].qty # 0}
                      |-> left[id]]
        /\ UNCHANGED <<executing, ret>>

\* execute() may return only from a book that is not crossed.
EndExecute ==
    /\ executing
    /\ ~Crossed
    /\ executing' = FALSE
    /\ UNCHANGED <<book, ret>>

Next ==
    \/ \E o \in InputOrders : Add(o) \/ Modify(o)
    \/ \E id \in OrderIds : Cancel(id)
    \/ StartExecute
    \/ \E b \in BestIds("BUY"), s \in BestIds("SELL") : Trade(b, s)
    \/ EndExecute

Spec == Init /\ [][Next]_vars
=============================================================================
