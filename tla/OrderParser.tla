---------------------------- MODULE OrderParser -----------------------------
(***************************************************************************)
(* class OrderParser (src/src/order_parser.cpp): the binary message of an  *)
(* order and what the parser makes of it.  A message is a sequence of      *)
(* bytes:                                                                  *)
(*                                                                         *)
(*   8 timestamp | 1 type | ORDER_ID_LEN id | TICKER_LEN ticker |          *)
(*   4 price | 4 quantity | 1 side                                         *)
(*                                                                         *)
(* A new order stops before the side, a cancel before the price.  A        *)
(* timestamp is kept as its eight bytes, most significant first.           *)
(***************************************************************************)
EXTENDS Integers, Sequences

CONSTANTS
    ORDER_ID_LEN,   \* bytes of an order id
    TICKER_LEN      \* bytes of a ticker

ASSUME OrderParserAssumption ==
    /\ ORDER_ID_LEN \in Nat \ {0}
    /\ TICKER_LEN \in Nat \ {0}

TYPE_LIMIT_BUY   == 1
TYPE_LIMIT_SELL  == 2
TYPE_MARKET_BUY  == 3
TYPE_MARKET_SELL == 4
TYPE_UPDATE      == 5
TYPE_CANCEL      == 6

NewOrderTypes ==
    {TYPE_LIMIT_BUY, TYPE_LIMIT_SELL, TYPE_MARKET_BUY, TYPE_MARKET_SELL}
MessageTypes == NewOrderTypes \cup {TYPE_UPDATE, TYPE_CANCEL}

BASE_LEN == 9 + ORDER_ID_LEN + TICKER_LEN

\* The shortest message of each type.
MinLen(type) ==
    CASE type \in NewOrderTypes -> BASE_LEN + 8
      [] type = TYPE_UPDATE     -> BASE_LEN + 9
      [] type = TYPE_CANCEL     -> BASE_LEN

\* ntohl() of the four bytes that start at byte i.
Ntohl(data, i) ==
    256 * (256 * (256 * data[i] + data[i + 1]) + data[i + 2]) + data[i + 3]

Bytes == 0..255

\* The number n without its lowest byte.
Shifted(n) == n \div 256

\* The values of a uint32_t.
Words == {n \in Nat : Shifted(Shifted(Shifted(n))) \in Bytes}

\* htonl(): the bytes of the lower 32 bits of n.
Htonl(n) ==
    <<Shifted(Shifted(Shifted(n))) % 256, Shifted(Shifted(n)) % 256,
      Shifted(n) % 256, n % 256>>

CharB == 66

Rejected == [msg_type |-> 0]

\* The fields of a message that is long enough for its type.
Fields(data) ==
    LET type == data[9]
        priced == type # TYPE_CANCEL
    IN  [timestamp |-> SubSeq(data, 1, 8),
         msg_type  |-> type,
         order_id  |-> SubSeq(data, 10, 9 + ORDER_ID_LEN),
         ticker    |-> SubSeq(data, 10 + ORDER_ID_LEN, BASE_LEN),
         price     |-> IF priced THEN Ntohl(data, BASE_LEN + 1) ELSE 0,
         qty       |-> IF priced THEN Ntohl(data, BASE_LEN + 5) ELSE 0,
         is_buy    |-> \/ type \in {TYPE_LIMIT_BUY, TYPE_MARKET_BUY}
                       \/ type = TYPE_UPDATE /\ data[BASE_LEN + 9] = CharB]

\* parse_message(): the parsed order, or Rejected where it returns false.
ParseMessage(data) ==
    IF Len(data) < BASE_LEN \/ data[9] \notin MessageTypes THEN Rejected
    ELSE IF Len(data) < MinLen(data[9]) THEN Rejected
    ELSE IF data[9] # TYPE_CANCEL /\ (Fields(data).price = 0 \/ Fields(data).qty = 0)
           THEN Rejected
    ELSE Fields(data)

\* Mutant: updates keep the default status.
StatusOf_UpdateIsNew(type) ==
    IF type = TYPE_CANCEL THEN "CANCELLED" ELSE "NEW"

StatusOf(type) ==
    CASE type = TYPE_UPDATE -> "PARTIALLY_FILLED"
      [] type = TYPE_CANCEL -> "CANCELLED"
      [] OTHER              -> "NEW"

\* convert_to_order()
ConvertToOrder(p) ==
    [timestamp |-> p.timestamp,
     order_id  |-> p.order_id,
     ticker    |-> p.ticker,
     kind      |-> IF p.msg_type \in {TYPE_MARKET_BUY, TYPE_MARKET_SELL}
                     THEN "MKT" ELSE "LMT",
     side      |-> IF p.is_buy THEN "BUY" ELSE "SELL",
     status    |-> StatusOf(p.msg_type),
     price     |-> p.price,
     qty       |-> p.qty]
=============================================================================
