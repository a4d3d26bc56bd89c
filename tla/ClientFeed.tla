----------------------------- MODULE ClientFeed -----------------------------
(***************************************************************************)
(* main() of src/src/client.cpp and the way of its messages through        *)
(* on_msg_received(): the lines of a file of JSON events are filtered and  *)
(* encoded, sorted by time, and sent to the exchange one by one, where     *)
(* module OrderParser takes them apart again.  What the exchange does with *)
(* an order after that is module LocalExchange.                            *)
(*                                                                         *)
(* A line is a record of the fields that main() looks at; Null stands for  *)
(* one that is absent, null or not a string where main() asks for one.     *)
(* Prices are in cents.                                                    *)
(***************************************************************************)
EXTENDS OrderParser, SequencesExt

CONSTANTS
    Lines,          \* the lines a file may hold
    MaxLines,       \* bound on the lines of a file
    Null,
    Malformed,      \* a line that is not JSON
    Inexact         \* the prices whose double, times 100, falls short of them

ASSUME ClientFeedAssumption ==
    /\ MaxLines \in Nat
    /\ Inexact \subseteq Nat \ {0}
    /\ \A l \in Lines \ {Malformed} :
          /\ l.timestamp \in Nat \cup {Null}
          /\ l.side \in Bytes \cup {Null}
          /\ l.symbol \in Seq(Bytes) \cup {Null}
          /\ l.order_id \in Seq(Bytes) \cup {Null}
          /\ l.price \in Words \cup {Null}
          /\ l.size \in Words \cup {Null}

VARIABLES
    file,           \* the events file
    phase,          \* where main() is
    pos,            \* lines read, then events sent
    all_events,     \* all_events, each with the number of its line
    received        \* the orders handed to enqueue_order(), likewise

vars == <<file, phase, pos, all_events, received>>

-----------------------------------------------------------------------------
(* Reading a line *)

CancelTypes == {"cancel", "cancel_no_trade"}    \* the types that contain "cancel"

\* The lines that main() passes over.
Skipped(l) ==
    \/ l = Malformed
    \/ l.type \in {Null, "modify"}
    \/ Null \in {l.timestamp, l.side, l.symbol}
    \/ l.type \in {"limit_add", "update"} /\ Null \in {l.price, l.size}

MsgType(l) ==
    IF l.type = "limit_add"
      THEN IF l.side = CharB THEN TYPE_LIMIT_BUY ELSE TYPE_LIMIT_SELL
      ELSE IF l.type \in CancelTypes THEN TYPE_CANCEL ELSE TYPE_UPDATE

\* A price or size is needed and not there: get<double>() or get<uint32_t>()
\* throws, and nothing in main() catches it.
Throws(l) == MsgType(l) # TYPE_CANCEL /\ Null \in {l.price, l.size}

\* uint32_t(price * 100): the product of doubles is cut off, not rounded.
Cents(price) == IF price \in Inexact THEN price - 1 ELSE price

\* memcpy() of at most n - 1 characters into n zero bytes.
Field(s, n) == [i \in 1..n |-> IF i < n /\ i <= Len(s) THEN s[i] ELSE 0]

\* The bytes of a uint64_t.
Htonll(n) == Htonl(Shifted(Shifted(Shifted(Shifted(n))))) \o Htonl(n)

\* The fields every message has.
Header(l) ==
    Htonll(l.timestamp) \o <<MsgType(l)>>
      \o Field(IF l.order_id = Null THEN <<>> ELSE l.order_id, ORDER_ID_LEN)
      \o Field(l.symbol, TICKER_LEN)

\* Mutant: the side byte of an update is left out.
Encode_NoSide(l) ==
    IF MsgType(l) = TYPE_CANCEL THEN Header(l)
    ELSE Header(l) \o Htonl(Cents(l.price)) \o Htonl(l.size)

\* The message of a line.
Encode(l) ==
    CASE MsgType(l) = TYPE_CANCEL -> Header(l)
      [] MsgType(l) = TYPE_UPDATE ->
           Header(l) \o Htonl(Cents(l.price)) \o Htonl(l.size) \o <<l.side>>
      [] OTHER -> Header(l) \o Htonl(Cents(l.price)) \o Htonl(l.size)

-----------------------------------------------------------------------------
Init ==
    /\ file \in UNION {[1..n -> Lines] : n \in 0..MaxLines}
    /\ phase = "reading"
    /\ pos = 0
    /\ all_events = <<>>
    /\ received = <<>>

ReadLine ==
    /\ phase = "reading"
    /\ pos < Len(file)
    /\ LET l == file[pos + 1] IN
       IF Skipped(l)
         THEN pos' = pos + 1 /\ UNCHANGED <<phase, all_events>>
         ELSE IF Throws(l)
           THEN phase' = "terminated" /\ UNCHANGED <<pos, all_events>>
           ELSE /\ pos' = pos + 1
                /\ all_events' = Append(all_events,
                      [ts |-> l.timestamp, buf |-> Encode(l), line |-> pos + 1])
                /\ UNCHANGED phase
    /\ UNCHANGED <<file, received>>

\* Mutant: events are sent in the order of the file.
SortEvents_FileOrder ==
    /\ phase = "reading"
    /\ pos = Len(file)
    /\ phase' = "sending"
    /\ pos' = 0
    /\ UNCHANGED <<file, all_events, received>>

\* std::sort() by time, which may put equal times in any order; the exchange
\* is constructed and started.
SortEvents ==
    /\ phase = "reading"
    /\ pos = Len(file)
    /\ \E s \in SetToSeqs(DOMAIN all_events) :
          /\ \A i, j \in DOMAIN s :
                i < j => all_events[s[i]].ts <= all_events[s[j]].ts
          /\ all_events' = [i \in DOMAIN s |-> all_events[s[i]]]
    /\ phase' = "sending"
    /\ pos' = 0
    /\ UNCHANGED <<file, received>>

\* on_msg_received(): a message that does not parse is dropped.
Send ==
    /\ phase = "sending"
    /\ pos < Len(all_events)
    /\ pos' = pos + 1
    /\ LET parsed == ParseMessage(all_events[pos'].buf) IN
       received' = IF parsed = Rejected THEN received
                   ELSE Append(received, [order |-> ConvertToOrder(parsed),
                                          line  |-> all_events[pos'].line])
    /\ UNCHANGED <<file, phase, all_events>>

\* All events are sent, and main() stops the exchange.
Finish ==
    /\ phase = "sending"
    /\ pos = Len(all_events)
    /\ phase' = "stopped"
    /\ UNCHANGED <<file, pos, all_events, received>>

Next == ReadLine \/ SortEvents \/ Send \/ Finish

Spec == Init /\ [][Next]_vars

-----------------------------------------------------------------------------
(* Properties *)

\* The line a received order comes from.
LineOf(i) == file[received[i].line]

\* What the exchange should be told by line l.
IsOrderOf(o, l) ==
    /\ o.timestamp = Htonll(l.timestamp)
    /\ o.order_id = Field(IF l.order_id = Null THEN <<>> ELSE l.order_id, ORDER_ID_LEN)
    /\ o.ticker = Field(l.symbol, TICKER_LEN)
    /\ o.status = CASE l.type = "limit_add" -> "NEW"
                    [] l.type \in CancelTypes -> "CANCELLED"
                    [] OTHER -> "PARTIALLY_FILLED"
    /\ o.kind = "LMT"
    /\ o.status # "CANCELLED" =>
          /\ o.side = IF l.side = CharB THEN "BUY" ELSE "SELL"
          /\ o.price \in {l.price - 1, l.price} /\ o.price > 0
          /\ o.qty = l.size

(***************************************************************************)
(* Client and parser agree on the message: every order the exchange gets   *)
(* is the one its line describes, to the cent below, with the call (add,   *)
(* cancel or modify) that the line's type asks for.                        *)
(***************************************************************************)
OrdersAsFiled ==
    \A i \in DOMAIN received : IsOrderOf(received[i].order, LineOf(i))

(***************************************************************************)
(* When all is sent, every line that was not skipped and does not come to  *)
(* a price or quantity of zero has reached the exchange, once.             *)
(***************************************************************************)
FeedComplete ==
    /\ IsInjective([i \in DOMAIN received |-> received[i].line])
    /\ phase = "stopped" =>
         {received[i].line : i \in DOMAIN received} =
           {n \in DOMAIN file :
               /\ ~Skipped(file[n])
               /\ \/ MsgType(file[n]) = TYPE_CANCEL
                  \/ Cents(file[n].price) > 0 /\ file[n].size > 0}

(***************************************************************************)
(* The events of an order reach the exchange in the order of their times:  *)
(* a cancel that is later than the add, if only by a tick, follows it,     *)
(* wherever the two stand in the file.                                     *)
(***************************************************************************)
LifecycleInOrder ==
    \A i, j \in DOMAIN received :
        i < j /\ received[i].order.order_id = received[j].order.order_id
          => LineOf(i).timestamp <= LineOf(j).timestamp

(***************************************************************************)
(* Orders of different instruments are in different books ("no             *)
(* cross-matching", src/tests/test_local_exchange.cpp): the exchange keeps *)
(* a book for each ticker it is told.                                      *)
(***************************************************************************)
SymbolsIsolated ==
    \A i, j \in DOMAIN received :
        received[i].order.ticker = received[j].order.ticker
          => LineOf(i).symbol = LineOf(j).symbol
=============================================================================
