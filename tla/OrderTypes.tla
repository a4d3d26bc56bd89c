----------------------------- MODULE OrderTypes -----------------------------
(***************************************************************************)
(* The vocabulary of an order book: src/includes/types.h and the result    *)
(* codes of src/includes/orderbook.h.  An order keeps the fields that the  *)
(* book reads or writes; ticker, kind, status, post_only and timestamp are *)
(* carried by order_t but decide nothing inside orderbook.cpp.             *)
(***************************************************************************)
EXTENDS Integers

CONSTANTS
    OrderIds,   \* the 16-byte order ids in play
    Prices,     \* the prices an order may carry, some above MaxPrice
    Qtys,       \* the quantities an order may carry
    MaxPrice,   \* MAX_PRICE, the highest price the book accepts
    SideBytes   \* the values of the side byte: BUY, SELL and possibly others

\* enum order_side
Sides == {"BUY", "SELL"}

ASSUME OrderTypesAssumption ==
    /\ Sides \subseteq SideBytes
    /\ Prices \subseteq Nat
    /\ Qtys \subseteq Nat
    /\ MaxPrice \in Nat

\* enum order_result, and VOID for execute(), which returns nothing.
Results == {"SUCCESS", "DUPLICATE_ID", "ORDER_NOT_FOUND",
            "INVALID_SIDE", "INVALID_PRICE", "VOID"}

\* The orders a caller may pass in.
InputOrders ==
    [order_id : OrderIds, side : SideBytes, price : Prices, qty : Qtys]

\* The orders a book stores: checked side and price, and whatever quantity is
\* left of it.
Orders == [order_id : OrderIds, side : Sides, price : Prices, qty : Nat]
=============================================================================
