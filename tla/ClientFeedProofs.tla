-------------------------- MODULE ClientFeedProofs --------------------------
(***************************************************************************)
(* The way of an event from the client's file to the exchange, for files   *)
(* of any length and lines of any content.  First the message: the parser  *)
(* finds in it what the client put there, byte by byte, for any lengths of *)
(* an id and a ticker.  Then the feed: reading, sorting and sending lose,  *)
(* repeat and reorder nothing.                                             *)
(***************************************************************************)
EXTENDS ClientFeed, FiniteSetTheorems, SequenceTheorems, TLAPS

-----------------------------------------------------------------------------
(* The inductive invariant *)

\* The lines that main() makes a message of.
Sendable == {l \in Lines : ~Skipped(l) /\ ~Throws(l)}

\* The lines whose message the parser takes.
Accepted(l) ==
    \/ MsgType(l) = TYPE_CANCEL
    \/ Cents(l.price) > 0 /\ l.size > 0

OrderOf(l) == ConvertToOrder(ParseMessage(Encode(l)))

FeedTypes ==
    /\ file \in Seq(Lines)
    /\ phase \in {"reading", "terminated", "sending", "stopped"}
    /\ pos \in Nat
    /\ all_events \in Seq([ts : Nat, buf : {Encode(l) : l \in Sendable}, line : Nat])
    /\ received \in Seq([order : {OrderOf(l) : l \in {m \in Sendable : Accepted(m)}},
                        line : Nat])

\* Every event is made of the line it names, and of no line there are two.
EventsOK ==
    /\ \A k \in 1..Len(all_events) :
          /\ all_events[k].line \in 1..Len(file)
          /\ file[all_events[k].line] \in Sendable
          /\ all_events[k].ts = file[all_events[k].line].timestamp
          /\ all_events[k].buf = Encode(file[all_events[k].line])
    /\ \A i, j \in 1..Len(all_events) :
          i # j => all_events[i].line # all_events[j].line

\* The first n lines of the file have their events.
Collected(n) ==
    \A m \in 1..n : ~Skipped(file[m]) => \E k \in 1..Len(all_events) : all_events[k].line = m

Reading ==
    phase = "reading" =>
       /\ pos <= Len(file)
       /\ \A k \in 1..Len(all_events) : all_events[k].line <= pos
       /\ Collected(pos)

Sending ==
    IF phase \in {"sending", "stopped"}
      THEN /\ Collected(Len(file))
           /\ pos <= Len(all_events)
           /\ \A i, j \in 1..Len(all_events) : i < j => all_events[i].ts <= all_events[j].ts
           /\ phase = "stopped" => pos = Len(all_events)
      ELSE received = <<>>

\* The orders received are those of the events sent, in their order.
Delivered ==
    /\ \A i \in 1..Len(received) :
          \E k \in 1..Len(all_events) :
             /\ k <= pos
             /\ received[i].line = all_events[k].line
             /\ received[i].order = OrderOf(file[received[i].line])
             /\ Accepted(file[received[i].line])
    /\ phase \in {"sending", "stopped"} =>
          \A k \in 1..Len(all_events) :
             k <= pos /\ Accepted(file[all_events[k].line])
               => \E i \in 1..Len(received) : received[i].line = all_events[k].line
    /\ \A i, j \in 1..Len(received) :
          i < j => /\ received[i].line # received[j].line
                   /\ file[received[i].line].timestamp <= file[received[j].line].timestamp

FeedInv == FeedTypes /\ EventsOK /\ Reading /\ Sending /\ Delivered

-----------------------------------------------------------------------------
(* The message *)

\* What there is to know of c = a \o b, byte by byte.
IsJoined(c, a, b) ==
    /\ c \in Seq(Bytes)
    /\ Len(c) = Len(a) + Len(b)
    /\ \A i \in 1..Len(a) : c[i] = a[i]
    /\ \A i \in 1..Len(b) : c[Len(a) + i] = b[i]

\* Concatenation has these bytes.
LEMMA Joined ==
    ASSUME NEW a \in Seq(Bytes), NEW b \in Seq(Bytes)
    PROVE  IsJoined(a \o b, a, b)
    BY DEF IsJoined

\* htonl() makes four bytes.
LEMMA HtonlBytes ==
    ASSUME NEW n \in Nat
    PROVE  Htonl(n) \in Seq(Bytes) /\ Len(Htonl(n)) = 4
<1>1. \A k \in Nat : Shifted(k) \in Nat /\ k % 256 \in Bytes
    BY DEF Shifted, Bytes
<1>2. QED
    BY <1>1 DEF Htonl

\* A number is its lowest byte and the rest.
LEMMA LowestByte ==
    ASSUME NEW n \in Nat
    PROVE  /\ Shifted(n) \in Nat
           /\ 256 * Shifted(n) + (n % 256) = n
           /\ n \in Bytes => n % 256 = n
    BY DEF Shifted, Bytes

\* A smaller number has no more bytes.
LEMMA ShiftedLess ==
    ASSUME NEW n \in Nat \ {0}, Shifted(Shifted(Shifted(n))) \in Bytes
    PROVE  Shifted(Shifted(Shifted(n - 1))) \in Bytes
<1>1. \A a, b \in Nat : a <= b => /\ Shifted(a) \in Nat /\ Shifted(b) \in Nat
                                 /\ Shifted(a) <= Shifted(b)
    BY DEF Shifted
<1>2. n - 1 \in Nat /\ n - 1 <= n
    OBVIOUS
<1>3. /\ Shifted(n - 1) \in Nat /\ Shifted(n) \in Nat
      /\ Shifted(n - 1) <= Shifted(n)
    BY <1>1, <1>2
<1>4. /\ Shifted(Shifted(n - 1)) \in Nat /\ Shifted(Shifted(n)) \in Nat
      /\ Shifted(Shifted(n - 1)) <= Shifted(Shifted(n))
    BY <1>1, <1>3
<1>5. /\ Shifted(Shifted(Shifted(n - 1))) \in Nat
      /\ Shifted(Shifted(Shifted(n - 1))) <= Shifted(Shifted(Shifted(n)))
    BY <1>1, <1>4
<1>6. QED
    BY <1>5 DEF Bytes

\* ntohl() takes the four bytes of a uint32_t back to the number.
LEMMA HostOrder ==
    ASSUME NEW n \in Words
    PROVE  256 * (256 * (256 * Htonl(n)[1] + Htonl(n)[2]) + Htonl(n)[3])
             + Htonl(n)[4] = n
<1> DEFINE n1 == Shifted(n)
           n2 == Shifted(n1)
           n3 == Shifted(n2)
<1>1. /\ Htonl(n)[1] = n3 % 256 /\ Htonl(n)[2] = n2 % 256
      /\ Htonl(n)[3] = n1 % 256 /\ Htonl(n)[4] = n % 256
    BY DEF Htonl
<1>2. n \in Nat /\ n3 \in Bytes
    BY DEF Words
<1> HIDE DEF n3
<1>3. n1 \in Nat /\ 256 * n1 + (n % 256) = n
    BY <1>2, LowestByte
<1> HIDE DEF n1
<1>4. n2 \in Nat /\ 256 * n2 + (n1 % 256) = n1
    BY <1>3, LowestByte
<1> HIDE DEF n2
<1>5. n3 \in Nat /\ 256 * n3 + (n2 % 256) = n2 /\ n3 % 256 = n3
    BY <1>2, <1>4, LowestByte DEF n3
<1>6. QED
    BY <1>1, <1>3, <1>4, <1>5

\* A zero-padded field has the length of the field.
LEMMA FieldBytes ==
    ASSUME NEW s \in Seq(Bytes), NEW n \in Nat
    PROVE  Field(s, n) \in Seq(Bytes) /\ Len(Field(s, n)) = n
<1>1. \A i \in 1..n : (IF i < n /\ i <= Len(s) THEN s[i] ELSE 0) \in Bytes
  <2>1. \A i \in 1..Len(s) : s[i] \in Bytes
    OBVIOUS
  <2>2. 0 \in Bytes /\ Len(s) \in Nat
    BY DEF Bytes
  <2>3. ASSUME NEW i \in 1..n PROVE (IF i < n /\ i <= Len(s) THEN s[i] ELSE 0) \in Bytes
    <3>1. i <= Len(s) => i \in 1..Len(s)
        BY <2>2
    <3>2. QED
        BY <2>1, <2>2, <3>1
  <2>4. QED
    BY <2>3
<1>2. Field(s, n) \in [1..n -> Bytes]
    BY <1>1 DEF Field
<1>3. QED
    BY <1>2

\* A line that is sent has all that its message needs.
LEMMA SendableLine ==
    ASSUME NEW l \in Sendable
    PROVE  /\ l.timestamp \in Nat
           /\ l.side \in Bytes
           /\ l.symbol \in Seq(Bytes)
           /\ (IF l.order_id = Null THEN <<>> ELSE l.order_id) \in Seq(Bytes)
           /\ MsgType(l) \in {TYPE_LIMIT_BUY, TYPE_LIMIT_SELL, TYPE_UPDATE, TYPE_CANCEL}
           /\ MsgType(l) # TYPE_CANCEL =>
                l.price \in Words /\ Cents(l.price) \in Words /\ l.size \in Words
<1>1. /\ l \in Lines \ {Malformed}
      /\ Null \notin {l.timestamp, l.side, l.symbol}
      /\ ~Throws(l)
    BY DEF Sendable, Skipped
<1>2. /\ l.timestamp \in Nat /\ l.side \in Bytes /\ l.symbol \in Seq(Bytes)
      /\ l.order_id \in Seq(Bytes) \cup {Null}
      /\ l.price \in Words \cup {Null} /\ l.size \in Words \cup {Null}
    BY <1>1, ClientFeedAssumption
<1>3. MsgType(l) \in {TYPE_LIMIT_BUY, TYPE_LIMIT_SELL, TYPE_UPDATE, TYPE_CANCEL}
    BY DEF MsgType
<1>4. ASSUME MsgType(l) # TYPE_CANCEL
      PROVE  l.price \in Words /\ Cents(l.price) \in Words /\ l.size \in Words
  <2>1. l.price \in Words /\ l.size \in Words
    BY <1>1, <1>2, <1>4 DEF Throws
  <2>2. Cents(l.price) \in Words
    <3>1. CASE l.price \in Inexact
        <4>1. l.price \in Nat \ {0} /\ l.price - 1 \in Words
            <5>1. l.price \in Nat \ {0} /\ Shifted(Shifted(Shifted(l.price))) \in Bytes
                BY <2>1, <3>1, ClientFeedAssumption DEF Words
            <5>2. Shifted(Shifted(Shifted(l.price - 1))) \in Bytes
                BY <5>1, ShiftedLess
            <5>3. QED
                BY <5>1, <5>2 DEF Words
        <4>2. QED
            BY <3>1, <4>1 DEF Cents
    <3>2. CASE l.price \notin Inexact
        BY <2>1, <3>2 DEF Cents
    <3>3. QED
        BY <3>1, <3>2
  <2>3. QED
    BY <2>1, <2>2
<1>5. QED
    BY <1>2, <1>3, <1>4

IdField(l) == Field(IF l.order_id = Null THEN <<>> ELSE l.order_id, ORDER_ID_LEN)

\* Where the fields that every message has are found.
LEMMA HeaderLayout ==
    ASSUME NEW l \in Sendable
    PROVE  /\ Header(l) \in Seq(Bytes)
           /\ Len(Header(l)) = BASE_LEN
           /\ Htonll(l.timestamp) \in Seq(Bytes) /\ Len(Htonll(l.timestamp)) = 8
           /\ \A i \in 1..8 : Header(l)[i] = Htonll(l.timestamp)[i]
           /\ Header(l)[9] = MsgType(l)
           /\ IdField(l) \in Seq(Bytes) /\ Len(IdField(l)) = ORDER_ID_LEN
           /\ \A i \in 1..ORDER_ID_LEN : Header(l)[9 + i] = IdField(l)[i]
           /\ Field(l.symbol, TICKER_LEN) \in Seq(Bytes)
           /\ Len(Field(l.symbol, TICKER_LEN)) = TICKER_LEN
           /\ \A i \in 1..TICKER_LEN :
                 Header(l)[9 + ORDER_ID_LEN + i] = Field(l.symbol, TICKER_LEN)[i]
<1> DEFINE t  == Htonll(l.timestamp)
           f  == IdField(l)
           g  == Field(l.symbol, TICKER_LEN)
           h2 == t \o <<MsgType(l)>>
           h3 == h2 \o f
<1>1. ORDER_ID_LEN \in Nat /\ TICKER_LEN \in Nat
    BY OrderParserAssumption
<1>2. t \in Seq(Bytes) /\ Len(t) = 8
  <2>1. l.timestamp \in Nat /\ Shifted(Shifted(Shifted(Shifted(l.timestamp)))) \in Nat
    BY SendableLine, LowestByte
  <2> DEFINE upper == Htonl(Shifted(Shifted(Shifted(Shifted(l.timestamp)))))
             lower == Htonl(l.timestamp)
  <2>2. upper \in Seq(Bytes) /\ lower \in Seq(Bytes) /\ Len(upper) = 4 /\ Len(lower) = 4
    BY <2>1, HtonlBytes
  <2>3. t = upper \o lower
    BY DEF Htonll
  <2> HIDE DEF upper, lower, t
  <2>4. IsJoined(t, upper, lower)
    BY <2>2, <2>3, Joined
  <2>5. QED
    BY <2>2, <2>4 DEF IsJoined
<1>3. f \in Seq(Bytes) /\ Len(f) = ORDER_ID_LEN
    BY <1>1, SendableLine, FieldBytes DEF IdField
<1>4. g \in Seq(Bytes) /\ Len(g) = TICKER_LEN
    BY <1>1, SendableLine, FieldBytes
<1>5. <<MsgType(l)>> \in Seq(Bytes) /\ Len(<<MsgType(l)>>) = 1
      /\ <<MsgType(l)>>[1] = MsgType(l)
  <2>1. MsgType(l) \in Bytes
    BY SendableLine DEF Bytes, TYPE_LIMIT_BUY, TYPE_LIMIT_SELL, TYPE_UPDATE, TYPE_CANCEL
  <2>2. QED
    BY <2>1
<1>6. Header(l) = h3 \o g
    BY DEF Header, IdField
<1> HIDE DEF t, f, g
<1>7. h2 \in Seq(Bytes) /\ Len(h2) = 9 /\ h2[9] = MsgType(l)
      /\ \A i \in 1..8 : h2[i] = t[i]
  <2>1. IsJoined(h2, t, <<MsgType(l)>>)
    BY <1>2, <1>5, Joined
  <2> HIDE DEF h2
  <2>2. h2[8 + 1] = <<MsgType(l)>>[1]
    BY <2>1, <1>2, <1>5 DEF IsJoined
  <2>3. QED
    BY <2>1, <2>2, <1>2, <1>5 DEF IsJoined
<1> HIDE DEF h2
<1>8. /\ h3 \in Seq(Bytes) /\ Len(h3) = 9 + ORDER_ID_LEN
      /\ \A i \in 1..9 : h3[i] = h2[i]
      /\ \A i \in 1..ORDER_ID_LEN : h3[9 + i] = f[i]
  <2>1. IsJoined(h3, h2, f)
    BY <1>3, <1>7, Joined
  <2> HIDE DEF h3
  <2>2. QED
    BY <2>1, <1>1, <1>3, <1>7 DEF IsJoined
<1> HIDE DEF h3
<1>9. /\ Header(l) \in Seq(Bytes) /\ Len(Header(l)) = (9 + ORDER_ID_LEN) + TICKER_LEN
      /\ \A i \in 1..(9 + ORDER_ID_LEN) : Header(l)[i] = h3[i]
      /\ \A i \in 1..TICKER_LEN : Header(l)[(9 + ORDER_ID_LEN) + i] = g[i]
  <2>1. IsJoined(Header(l), h3, g)
    BY <1>4, <1>6, <1>8, Joined
  <2>2. QED
    BY <2>1, <1>1, <1>4, <1>8 DEF IsJoined
<1>10. \A i \in 1..9 : Header(l)[i] = h2[i]
    BY <1>1, <1>8, <1>9
<1>11. \A i \in 1..ORDER_ID_LEN : Header(l)[9 + i] = f[i]
  <2>1. \A i \in 1..ORDER_ID_LEN : 9 + i \in 1..(9 + ORDER_ID_LEN)
    BY <1>1
  <2>2. QED
    BY <2>1, <1>8, <1>9
<1>12. Header(l)[9] = MsgType(l) /\ \A i \in 1..8 : Header(l)[i] = t[i]
    BY <1>7, <1>10
<1>13. QED
    BY <1>2, <1>3, <1>4, <1>9, <1>11, <1>12 DEF BASE_LEN, t, f, g

\* A message m of header h, price c and size z: whatever begins with it is read
\* as that price and that size.
IsPriced(m, h, c, z) ==
    /\ m \in Seq(Bytes)
    /\ Len(m) = BASE_LEN + 8
    /\ \A i \in 1..BASE_LEN : m[i] = h[i]
    /\ \A d \in Seq(Bytes) :
          (\A i \in 1..(BASE_LEN + 8) : d[i] = m[i]) =>
             Ntohl(d, BASE_LEN + 1) = c /\ Ntohl(d, BASE_LEN + 5) = z

\* A price and a size behind a header are read back.
LEMMA PricedLayout ==
    ASSUME NEW h \in Seq(Bytes), Len(h) = BASE_LEN, NEW c \in Words, NEW z \in Words
    PROVE  IsPriced(h \o Htonl(c) \o Htonl(z), h, c, z)
<1> DEFINE a == h \o Htonl(c)
           m == a \o Htonl(z)
<1>1. BASE_LEN \in Nat
    BY OrderParserAssumption DEF BASE_LEN
<1>2. /\ Htonl(c) \in Seq(Bytes) /\ Len(Htonl(c)) = 4
      /\ Htonl(z) \in Seq(Bytes) /\ Len(Htonl(z)) = 4
  <2>1. c \in Nat /\ z \in Nat
    BY DEF Words
  <2>2. QED
    BY <2>1, HtonlBytes
<1>3. /\ a \in Seq(Bytes) /\ Len(a) = BASE_LEN + 4
      /\ \A i \in 1..BASE_LEN : a[i] = h[i]
      /\ \A i \in 1..4 : a[BASE_LEN + i] = Htonl(c)[i]
  <2>1. IsJoined(a, h, Htonl(c))
    BY <1>2, Joined
  <2> HIDE DEF a
  <2>2. QED
    BY <2>1, <1>1, <1>2 DEF IsJoined
<1> HIDE DEF a
<1>4. /\ m \in Seq(Bytes) /\ Len(m) = (BASE_LEN + 4) + 4
      /\ \A i \in 1..(BASE_LEN + 4) : m[i] = a[i]
      /\ \A i \in 1..4 : m[(BASE_LEN + 4) + i] = Htonl(z)[i]
  <2>1. IsJoined(m, a, Htonl(z))
    BY <1>2, <1>3, Joined
  <2> HIDE DEF m
  <2>2. QED
    BY <2>1, <1>1, <1>2, <1>3 DEF IsJoined
<1> HIDE DEF m
<1>5. \A i \in 1..BASE_LEN : m[i] = h[i]
    BY <1>1, <1>3, <1>4
<1>6. ASSUME NEW d \in Seq(Bytes), \A i \in 1..(BASE_LEN + 8) : d[i] = m[i]
      PROVE  Ntohl(d, BASE_LEN + 1) = c /\ Ntohl(d, BASE_LEN + 5) = z
  <2>1. /\ m[BASE_LEN + 1] = Htonl(c)[1] /\ m[BASE_LEN + 2] = Htonl(c)[2]
        /\ m[BASE_LEN + 3] = Htonl(c)[3] /\ m[BASE_LEN + 4] = Htonl(c)[4]
    BY <1>1, <1>3, <1>4
  <2>2. /\ m[BASE_LEN + 5] = Htonl(z)[1] /\ m[BASE_LEN + 6] = Htonl(z)[2]
        /\ m[BASE_LEN + 7] = Htonl(z)[3] /\ m[BASE_LEN + 8] = Htonl(z)[4]
    <3>1. /\ BASE_LEN + 5 = (BASE_LEN + 4) + 1 /\ BASE_LEN + 6 = (BASE_LEN + 4) + 2
          /\ BASE_LEN + 7 = (BASE_LEN + 4) + 3 /\ BASE_LEN + 8 = (BASE_LEN + 4) + 4
        BY <1>1
    <3>2. QED
        BY <3>1, <1>4
  <2>3. \A i \in 1..8 : d[BASE_LEN + i] = m[BASE_LEN + i]
    BY <1>1, <1>6
  <2>4. Ntohl(d, BASE_LEN + 1) = c
    <3>1. /\ (BASE_LEN + 1) + 1 = BASE_LEN + 2 /\ (BASE_LEN + 1) + 2 = BASE_LEN + 3
          /\ (BASE_LEN + 1) + 3 = BASE_LEN + 4
        BY <1>1
    <3>2. /\ d[BASE_LEN + 1] = Htonl(c)[1] /\ d[(BASE_LEN + 1) + 1] = Htonl(c)[2]
          /\ d[(BASE_LEN + 1) + 2] = Htonl(c)[3] /\ d[(BASE_LEN + 1) + 3] = Htonl(c)[4]
        BY <2>1, <2>3, <3>1
    <3>3. QED
        BY <3>2, HostOrder DEF Ntohl
  <2>5. Ntohl(d, BASE_LEN + 5) = z
    <3>1. /\ (BASE_LEN + 5) + 1 = BASE_LEN + 6 /\ (BASE_LEN + 5) + 2 = BASE_LEN + 7
          /\ (BASE_LEN + 5) + 3 = BASE_LEN + 8
        BY <1>1
    <3>2. /\ d[BASE_LEN + 5] = Htonl(z)[1] /\ d[(BASE_LEN + 5) + 1] = Htonl(z)[2]
          /\ d[(BASE_LEN + 5) + 2] = Htonl(z)[3] /\ d[(BASE_LEN + 5) + 3] = Htonl(z)[4]
        BY <2>2, <2>3, <3>1
    <3>3. QED
        BY <3>2, HostOrder DEF Ntohl
  <2>6. QED
    BY <2>4, <2>5
<1>7. (BASE_LEN + 4) + 4 = BASE_LEN + 8
    BY <1>1
<1>8. IsPriced(m, h, c, z)
    BY <1>4, <1>5, <1>6, <1>7 DEF IsPriced
<1>9. QED
    BY <1>8 DEF m, a

\* Where the fields of a message are found.
LEMMA MessageLayout ==
    ASSUME NEW l \in Sendable
    PROVE  LET m == Encode(l) IN
           /\ m \in Seq(Bytes)
           /\ Len(m) = MinLen(MsgType(l))
           /\ \A i \in 1..BASE_LEN : m[i] = Header(l)[i]
           /\ MsgType(l) # TYPE_CANCEL =>
                /\ Ntohl(m, BASE_LEN + 1) = Cents(l.price)
                /\ Ntohl(m, BASE_LEN + 5) = l.size
           /\ MsgType(l) = TYPE_UPDATE => m[BASE_LEN + 9] = l.side
<1> DEFINE h == Header(l)
           m == h \o Htonl(Cents(l.price)) \o Htonl(l.size)
<1> USE DEF TYPE_LIMIT_BUY, TYPE_LIMIT_SELL, TYPE_MARKET_BUY, TYPE_MARKET_SELL,
            TYPE_UPDATE, TYPE_CANCEL, NewOrderTypes
<1>1. h \in Seq(Bytes) /\ Len(h) = BASE_LEN /\ BASE_LEN \in Nat
    BY HeaderLayout, OrderParserAssumption DEF BASE_LEN
<1>2. CASE MsgType(l) = TYPE_CANCEL
    BY <1>1, <1>2 DEF Encode, MinLen
<1>3. CASE MsgType(l) # TYPE_CANCEL
  <2>1. Cents(l.price) \in Words /\ l.size \in Words
    BY <1>3, SendableLine
  <2>2. /\ m \in Seq(Bytes) /\ Len(m) = BASE_LEN + 8
        /\ \A i \in 1..BASE_LEN : m[i] = h[i]
        /\ \A d \in Seq(Bytes) :
              (\A i \in 1..(BASE_LEN + 8) : d[i] = m[i]) =>
                 /\ Ntohl(d, BASE_LEN + 1) = Cents(l.price)
                 /\ Ntohl(d, BASE_LEN + 5) = l.size
    <3> HIDE DEF h
    <3>1. IsPriced(m, h, Cents(l.price), l.size)
        BY <1>1, <2>1, PricedLayout
    <3> HIDE DEF m
    <3>2. QED
        BY <3>1 DEF IsPriced
  <2>3. CASE MsgType(l) # TYPE_UPDATE
    <3>1. Encode(l) = m
        BY <1>3, <2>3 DEF Encode
    <3>2. MinLen(MsgType(l)) = BASE_LEN + 8
        BY <1>3, <2>3, SendableLine DEF MinLen
    <3> HIDE DEF m
    <3>3. QED
        BY <2>2, <2>3, <3>1, <3>2
  <2>4. CASE MsgType(l) = TYPE_UPDATE
    <3> DEFINE u == m \o <<l.side>>
    <3>1. Encode(l) = u
        BY <2>4 DEF Encode
    <3>2. MinLen(MsgType(l)) = BASE_LEN + 9
        BY <2>4 DEF MinLen
    <3>3. <<l.side>> \in Seq(Bytes) /\ Len(<<l.side>>) = 1 /\ <<l.side>>[1] = l.side
        BY SendableLine
    <3> HIDE DEF m
    <3>4. /\ u \in Seq(Bytes) /\ Len(u) = (BASE_LEN + 8) + 1
          /\ \A i \in 1..(BASE_LEN + 8) : u[i] = m[i]
          /\ u[(BASE_LEN + 8) + 1] = l.side
        BY <2>2, <3>3
    <3> HIDE DEF u
    <3>5. (BASE_LEN + 8) + 1 = BASE_LEN + 9
        BY <1>1
    <3>6. \A i \in 1..BASE_LEN : u[i] = h[i]
        BY <1>1, <2>2, <3>4
    <3>7. Ntohl(u, BASE_LEN + 1) = Cents(l.price) /\ Ntohl(u, BASE_LEN + 5) = l.size
        BY <2>2, <3>4
    <3>8. QED
        BY <3>1, <3>2, <3>4, <3>5, <3>6, <3>7
  <2>5. QED
    BY <2>3, <2>4
<1>4. QED
    BY <1>2, <1>3

\* The bytes of a field, cut out of a message.
LEMMA CutOut ==
    ASSUME NEW m \in Seq(Bytes), NEW f \in Seq(Bytes), NEW a \in Nat,
           a + Len(f) <= Len(m),
           \A i \in 1..Len(f) : m[a + i] = f[i]
    PROVE  SubSeq(m, a + 1, a + Len(f)) = f
<1> DEFINE u == SubSeq(m, a + 1, a + Len(f))
<1>1. \A i \in (a + 1)..(a + Len(f)) : m[i] \in Bytes
    BY ElementOfSeq
<1>2. /\ u \in Seq(Bytes)
      /\ Len(u) = IF a + 1 <= a + Len(f) THEN (a + Len(f)) - (a + 1) + 1 ELSE 0
      /\ \A i \in 1..((a + Len(f)) - (a + 1) + 1) : u[i] = m[(a + 1) + i - 1]
  <2>1. a + 1 \in Int /\ a + Len(f) \in Int
    OBVIOUS
  <2>2. QED
    BY <1>1, <2>1, SubSeqProperties
<1>3. Len(u) = Len(f)
    BY <1>2
<1>4. \A i \in 1..Len(f) : u[i] = f[i]
  <2>1. ASSUME NEW i \in 1..Len(f) PROVE u[i] = f[i]
    <3>1. i \in 1..((a + Len(f)) - (a + 1) + 1) /\ (a + 1) + i - 1 = a + i
        OBVIOUS
    <3>2. QED
        BY <1>2, <3>1
  <2>2. QED
    BY <2>1
<1> HIDE DEF u
<1>5. u = f
    BY <1>2, <1>3, <1>4, SeqEqual
<1>6. QED
    BY <1>5 DEF u

(***************************************************************************)
(* Client and parser agree: the parser rejects a message for a price or a  *)
(* size of zero only, and makes of any other the order of its line.        *)
(***************************************************************************)
LEMMA ClientAndParserAgree ==
    ASSUME NEW l \in Sendable
    PROVE  /\ ParseMessage(Encode(l)) = Rejected <=> ~Accepted(l)
           /\ Accepted(l) => IsOrderOf(OrderOf(l), l)
<1> DEFINE m == Encode(l)
           type == MsgType(l)
<1>1. /\ m \in Seq(Bytes)
      /\ Len(m) = MinLen(type)
      /\ \A i \in 1..BASE_LEN : m[i] = Header(l)[i]
      /\ type # TYPE_CANCEL =>
           Ntohl(m, BASE_LEN + 1) = Cents(l.price) /\ Ntohl(m, BASE_LEN + 5) = l.size
      /\ type = TYPE_UPDATE => m[BASE_LEN + 9] = l.side
    BY MessageLayout
<1>2. /\ BASE_LEN \in Nat /\ BASE_LEN > 9 /\ BASE_LEN = (9 + ORDER_ID_LEN) + TICKER_LEN
      /\ ORDER_ID_LEN \in Nat \ {0} /\ TICKER_LEN \in Nat \ {0}
    BY OrderParserAssumption DEF BASE_LEN
<1>3. type \in {TYPE_LIMIT_BUY, TYPE_LIMIT_SELL, TYPE_UPDATE, TYPE_CANCEL}
    BY SendableLine
<1>4. Len(m) >= BASE_LEN
    BY <1>1, <1>2, <1>3 DEF MinLen, NewOrderTypes, TYPE_LIMIT_BUY, TYPE_LIMIT_SELL,
           TYPE_MARKET_BUY, TYPE_MARKET_SELL, TYPE_UPDATE, TYPE_CANCEL
<1>5. m[9] = type
  <2>1. Header(l)[9] = type
    BY HeaderLayout
  <2> HIDE DEF m, type
  <2>2. QED
    BY <1>1, <1>2, <2>1
<1>6. SubSeq(m, 1, 8) = Htonll(l.timestamp)
  <2> DEFINE f == Htonll(l.timestamp)
  <2>1. f \in Seq(Bytes) /\ Len(f) = 8 /\ \A i \in 1..8 : m[i] = f[i]
    BY <1>1, <1>2, HeaderLayout
  <2> HIDE DEF f, m
  <2>2. /\ 0 + Len(f) <= Len(m) /\ 0 \in Nat
        /\ \A i \in 1..Len(f) : m[0 + i] = f[i]
    BY <1>1, <1>2, <1>4, <2>1
  <2>3. SubSeq(m, 0 + 1, 0 + Len(f)) = f
    BY <1>1, <2>1, <2>2, CutOut
  <2>4. QED
    BY <2>1, <2>3 DEF f
<1>7. SubSeq(m, 10, 9 + ORDER_ID_LEN) = IdField(l)
  <2> DEFINE f == IdField(l)
  <2>1. /\ f \in Seq(Bytes) /\ Len(f) = ORDER_ID_LEN
        /\ \A i \in 1..ORDER_ID_LEN : m[9 + i] = f[i]
    <3>1. \A i \in 1..ORDER_ID_LEN : 9 + i \in 1..BASE_LEN
        BY <1>2
    <3>2. /\ f \in Seq(Bytes) /\ Len(f) = ORDER_ID_LEN
          /\ \A i \in 1..ORDER_ID_LEN : Header(l)[9 + i] = f[i]
        BY HeaderLayout
    <3> HIDE DEF f, m
    <3>3. QED
        BY <1>1, <3>1, <3>2
  <2> HIDE DEF f, m
  <2>2. /\ 9 + Len(f) <= Len(m) /\ 9 \in Nat
        /\ \A i \in 1..Len(f) : m[9 + i] = f[i]
    BY <1>1, <1>2, <1>4, <2>1
  <2>3. SubSeq(m, 9 + 1, 9 + Len(f)) = f
    BY <1>1, <2>1, <2>2, CutOut
  <2>4. QED
    BY <2>1, <2>3 DEF f
<1>8. SubSeq(m, 10 + ORDER_ID_LEN, BASE_LEN) = Field(l.symbol, TICKER_LEN)
  <2> DEFINE f == Field(l.symbol, TICKER_LEN)
             a == 9 + ORDER_ID_LEN
  <2>1. /\ f \in Seq(Bytes) /\ Len(f) = TICKER_LEN
        /\ \A i \in 1..TICKER_LEN : m[a + i] = f[i]
    <3>1. \A i \in 1..TICKER_LEN : a + i \in 1..BASE_LEN
        BY <1>2
    <3>2. QED
        BY <1>1, <3>1, HeaderLayout
  <2>2. a \in Nat /\ a + 1 = 10 + ORDER_ID_LEN /\ a + TICKER_LEN = BASE_LEN
    BY <1>2
  <2> HIDE DEF f, m, a
  <2>3. a + Len(f) <= Len(m) /\ \A i \in 1..Len(f) : m[a + i] = f[i]
    BY <1>1, <1>2, <1>4, <2>1, <2>2
  <2>4. SubSeq(m, a + 1, a + Len(f)) = f
    BY <1>1, <2>1, <2>2, <2>3, CutOut
  <2>5. QED
    BY <2>1, <2>2, <2>4 DEF f
<1> DEFINE r == Fields(m)
<1>9. /\ r.timestamp = Htonll(l.timestamp)
      /\ r.msg_type = type
      /\ r.order_id = IdField(l)
      /\ r.ticker = Field(l.symbol, TICKER_LEN)
      /\ type # TYPE_CANCEL => r.price = Cents(l.price) /\ r.qty = l.size
      /\ type # TYPE_CANCEL => r.is_buy = (l.side = CharB)
  <2> HIDE DEF m
  <2>1. /\ r.timestamp = Htonll(l.timestamp)
        /\ r.msg_type = type
        /\ r.order_id = IdField(l)
        /\ r.ticker = Field(l.symbol, TICKER_LEN)
    BY <1>5, <1>6, <1>7, <1>8 DEF Fields
  <2>2. type # TYPE_CANCEL => r.price = Cents(l.price) /\ r.qty = l.size
    BY <1>1, <1>5 DEF Fields
  <2>3. ASSUME type # TYPE_CANCEL PROVE r.is_buy = (l.side = CharB)
    <3>1. r.is_buy = (\/ type \in {TYPE_LIMIT_BUY, TYPE_MARKET_BUY}
                      \/ type = TYPE_UPDATE /\ m[BASE_LEN + 9] = CharB)
        BY <1>5 DEF Fields
    <3>2. CASE type = TYPE_UPDATE
        <4>1. type \notin {TYPE_LIMIT_BUY, TYPE_MARKET_BUY}
            BY <3>2 DEF TYPE_LIMIT_BUY, TYPE_MARKET_BUY, TYPE_UPDATE
        <4>2. m[BASE_LEN + 9] = l.side
            BY <3>2, <1>1
        <4> HIDE DEF r, m, type
        <4>3. QED
            BY <3>1, <3>2, <4>1, <4>2, Zenon
    <3>3. CASE type # TYPE_UPDATE
        BY <3>1, <3>3, <2>3 DEF MsgType, TYPE_LIMIT_BUY, TYPE_LIMIT_SELL,
               TYPE_MARKET_BUY, TYPE_UPDATE, TYPE_CANCEL
    <3>4. QED
        BY <3>2, <3>3
  <2>4. QED
    BY <2>1, <2>2, <2>3
<1>10. r # Rejected
  <2>1. r.msg_type # Rejected.msg_type
    BY <1>3, <1>9 DEF Rejected, TYPE_LIMIT_BUY, TYPE_LIMIT_SELL, TYPE_UPDATE, TYPE_CANCEL
  <2> HIDE DEF r
  <2>2. QED
    BY <2>1
<1>11. ParseMessage(m) =
         IF type # TYPE_CANCEL /\ (r.price = 0 \/ r.qty = 0) THEN Rejected ELSE r
  <2>1. m[9] \in MessageTypes /\ ~(Len(m) < BASE_LEN) /\ ~(Len(m) < MinLen(m[9]))
    BY <1>1, <1>2, <1>3, <1>4, <1>5 DEF MessageTypes, NewOrderTypes
  <2> HIDE DEF m
  <2>2. QED
    BY <2>1, <1>5 DEF ParseMessage
<1>12. Accepted(l) <=> ~(type # TYPE_CANCEL /\ (r.price = 0 \/ r.qty = 0))
  <2>1. CASE type = TYPE_CANCEL
    BY <2>1 DEF Accepted
  <2>2. CASE type # TYPE_CANCEL
    <3>1. Cents(l.price) \in Nat /\ l.size \in Nat
        BY <2>2, SendableLine DEF Words
    <3> HIDE DEF r
    <3>2. QED
        BY <2>2, <3>1, <1>9 DEF Accepted
  <2>3. QED
    BY <2>1, <2>2
<1>13. ParseMessage(m) = Rejected <=> ~Accepted(l)
    BY <1>10, <1>11, <1>12
<1>14. ASSUME Accepted(l) PROVE IsOrderOf(OrderOf(l), l)
  <2> HIDE DEF r
  <2> DEFINE o == ConvertToOrder(r)
  <2>1. OrderOf(l) = o
    BY <1>11, <1>12, <1>14 DEF OrderOf
  <2>2. /\ o.timestamp = Htonll(l.timestamp) /\ o.order_id = IdField(l)
        /\ o.ticker = Field(l.symbol, TICKER_LEN)
        /\ o.status = StatusOf(type) /\ o.price = r.price /\ o.qty = r.qty
        /\ o.side = IF r.is_buy THEN "BUY" ELSE "SELL"
    BY <1>9 DEF ConvertToOrder
  <2>3. o.kind = "LMT"
    BY <1>3, <1>9 DEF ConvertToOrder, TYPE_LIMIT_BUY, TYPE_LIMIT_SELL, TYPE_UPDATE,
           TYPE_CANCEL, TYPE_MARKET_BUY, TYPE_MARKET_SELL
  <2>4. StatusOf(type) = CASE l.type = "limit_add" -> "NEW"
                           [] l.type \in CancelTypes -> "CANCELLED"
                           [] OTHER -> "PARTIALLY_FILLED"
    BY DEF StatusOf, MsgType, CancelTypes, TYPE_LIMIT_BUY, TYPE_LIMIT_SELL, TYPE_UPDATE,
           TYPE_CANCEL
  <2>5. ASSUME o.status # "CANCELLED"
        PROVE  /\ o.side = IF l.side = CharB THEN "BUY" ELSE "SELL"
               /\ o.price \in {l.price - 1, l.price} /\ o.price > 0
               /\ o.qty = l.size
    <3>1. type # TYPE_CANCEL
        BY <2>2, <2>5 DEF StatusOf, TYPE_UPDATE, TYPE_CANCEL
    <3>2. r.price = Cents(l.price) /\ r.qty = l.size /\ r.is_buy = (l.side = CharB)
        BY <3>1, <1>9
    <3>3. Cents(l.price) \in {l.price - 1, l.price} /\ Cents(l.price) > 0
        BY <3>1, <1>14 DEF Cents, Accepted
    <3>4. QED
        BY <2>2, <3>2, <3>3
  <2> HIDE DEF o
  <2>6. QED
    BY <2>1, <2>2, <2>3, <2>4, <2>5 DEF IsOrderOf, IdField
<1>15. QED
    BY <1>13, <1>14

-----------------------------------------------------------------------------
(* The feed *)

\* The invariant gives the invariants that the run checks.
LEMMA FeedInvImplies == FeedInv => OrdersAsFiled /\ FeedComplete /\ LifecycleInOrder
<1> SUFFICES ASSUME FeedInv PROVE OrdersAsFiled /\ FeedComplete /\ LifecycleInOrder
    OBVIOUS
<1>1. /\ DOMAIN received = 1..Len(received) /\ DOMAIN file = 1..Len(file)
      /\ Len(received) \in Nat /\ Len(file) \in Nat
    BY DEF FeedInv, FeedTypes
<1>2. ASSUME NEW i \in 1..Len(received)
      PROVE  /\ received[i].line \in 1..Len(file)
             /\ file[received[i].line] \in Sendable
             /\ received[i].order = OrderOf(file[received[i].line])
             /\ Accepted(file[received[i].line])
  <2>1. PICK k \in 1..Len(all_events) :
           /\ received[i].line = all_events[k].line
           /\ received[i].order = OrderOf(file[received[i].line])
           /\ Accepted(file[received[i].line])
    BY DEF FeedInv, Delivered
  <2>2. all_events[k].line \in 1..Len(file) /\ file[all_events[k].line] \in Sendable
    BY DEF FeedInv, EventsOK
  <2>3. QED
    BY <2>1, <2>2
<1>3. OrdersAsFiled
  <2>1. ASSUME NEW i \in 1..Len(received) PROVE IsOrderOf(received[i].order, LineOf(i))
    BY <1>2, ClientAndParserAgree DEF LineOf
  <2>2. QED
    BY <2>1, <1>1 DEF OrdersAsFiled
<1>4. ASSUME NEW i \in 1..Len(received), NEW j \in 1..Len(received), i < j
      PROVE  /\ received[i].line # received[j].line
             /\ LineOf(i).timestamp <= LineOf(j).timestamp
    BY <1>4 DEF FeedInv, Delivered, LineOf
<1>5. LifecycleInOrder
    BY <1>1, <1>4 DEF LifecycleInOrder
<1>6. FeedComplete
  <2>1. IsInjective([i \in DOMAIN received |-> received[i].line])
    <3>1. ASSUME NEW i \in 1..Len(received), NEW j \in 1..Len(received),
                 received[i].line = received[j].line
          PROVE  i = j
        <4>1. i \in Int /\ j \in Int /\ ~(i < j) /\ ~(j < i)
            BY <1>1, <1>4, <3>1
        <4>2. QED
            BY <4>1
    <3>2. QED
        BY <1>1, <3>1 DEF IsInjective
  <2>2. ASSUME phase = "stopped", NEW n \in 1..Len(file), ~Skipped(file[n]), Accepted(file[n])
        PROVE  \E i \in 1..Len(received) : received[i].line = n
    <3>1. Collected(Len(file)) /\ pos = Len(all_events)
        BY <2>2 DEF FeedInv, Sending
    <3>2. PICK k \in 1..Len(all_events) : all_events[k].line = n
        BY <2>2, <3>1 DEF Collected
    <3>3. Len(all_events) \in Nat
        BY DEF FeedInv, FeedTypes
    <3>4. k <= pos
        BY <3>1, <3>3
    <3>5. QED
        BY <2>2, <3>2, <3>4 DEF FeedInv, Delivered
  <2>3. ASSUME NEW i \in 1..Len(received)
        PROVE  /\ received[i].line \in 1..Len(file)
               /\ ~Skipped(file[received[i].line])
               /\ Accepted(file[received[i].line])
    BY <1>2 DEF Sendable
  <2>4. phase = "stopped" =>
          {received[i].line : i \in 1..Len(received)} =
            {n \in 1..Len(file) : ~Skipped(file[n]) /\ Accepted(file[n])}
    BY <2>2, <2>3
  <2>5. QED
    BY <1>1, <2>1, <2>4 DEF FeedComplete, Accepted
<1>7. QED
    BY <1>3, <1>5, <1>6

\* The client begins with a file and nothing read.
LEMMA InitFeedInv == Init => FeedInv
<1> SUFFICES ASSUME Init PROVE FeedInv
    OBVIOUS
<1>1. file \in Seq(Lines)
  <2>1. PICK n \in 0..MaxLines : file \in [1..n -> Lines]
    BY DEF Init
  <2>2. n \in Nat
    BY ClientFeedAssumption
  <2>3. QED
    BY <2>1, <2>2
<1>2. /\ phase = "reading" /\ pos = 0 /\ all_events = <<>> /\ received = <<>>
      /\ Len(all_events) = 0 /\ Len(received) = 0 /\ Len(file) \in Nat
    BY <1>1 DEF Init
<1>3. FeedTypes
    BY <1>1, <1>2 DEF FeedTypes
<1>4. QED
    BY <1>2, <1>3 DEF FeedInv, EventsOK, Reading, Collected, Sending, Delivered

\* While the file is read nothing is received.
LEMMA NothingReceived ==
    ASSUME received' = <<>>, phase' \in {"reading", "terminated"}
    PROVE  Sending' /\ Delivered'
<1>1. Len(received') = 0
    OBVIOUS
<1>2. QED
    BY <1>1 DEF Sending, Delivered

\* Reading a line adds its event, if it has one.
LEMMA ReadLineFeedInv ==
    ASSUME FeedInv, ReadLine
    PROVE  FeedInv'
<1> DEFINE l == file[pos + 1]
           e == [ts |-> l.timestamp, buf |-> Encode(l), line |-> pos + 1]
           Ev == [ts : Nat, buf : {Encode(x) : x \in Sendable}, line : Nat]
<1>1. /\ phase = "reading" /\ pos < Len(file) /\ pos \in Nat /\ Len(file) \in Nat
      /\ file \in Seq(Lines) /\ file' = file /\ received' = received
      /\ received = <<>> /\ all_events \in Seq(Ev)
    BY DEF ReadLine, FeedInv, FeedTypes, Sending
<1>2. /\ \A k \in 1..Len(all_events) : all_events[k].line <= pos
      /\ Collected(pos) /\ EventsOK
    BY <1>1 DEF FeedInv, Reading
<1>3. l \in Lines
    BY <1>1
<1>4. CASE Skipped(l)
  <2>1. pos' = pos + 1 /\ phase' = phase /\ all_events' = all_events
    BY <1>4 DEF ReadLine
  <2>2. FeedTypes'
    BY <1>1, <2>1 DEF FeedInv, FeedTypes
  <2>3. EventsOK'
    BY <1>1, <1>2, <2>1 DEF EventsOK
  <2>4. Reading'
    <3>1. \A k \in 1..Len(all_events) : all_events[k].line <= pos + 1
        <4>1. \A k \in 1..Len(all_events) : all_events[k].line \in 1..Len(file)
            BY <1>2 DEF EventsOK
        <4>2. QED
            BY <4>1, <1>1, <1>2
    <3>2. \A m \in 1..(pos + 1) : m \in 1..pos \/ m = pos + 1
        BY <1>1
    <3>3. Collected(pos)'
        BY <1>1, <1>2, <2>1, <3>2, <1>4 DEF Collected
    <3>4. QED
        BY <1>1, <2>1, <3>1, <3>3 DEF Reading
  <2>5. QED
    BY <2>1, <2>2, <2>3, <2>4, <1>1, NothingReceived DEF FeedInv
<1>5. CASE ~Skipped(l) /\ Throws(l)
  <2>1. phase' = "terminated" /\ pos' = pos /\ all_events' = all_events
    BY <1>5 DEF ReadLine
  <2>2. FeedTypes'
    BY <1>1, <2>1 DEF FeedInv, FeedTypes
  <2>3. EventsOK'
    BY <1>1, <1>2, <2>1 DEF EventsOK
  <2>4. Reading'
    BY <2>1 DEF Reading
  <2>5. QED
    BY <2>1, <2>2, <2>3, <2>4, <1>1, NothingReceived DEF FeedInv
<1>6. CASE ~Skipped(l) /\ ~Throws(l)
  <2>1. pos' = pos + 1 /\ phase' = phase /\ all_events' = Append(all_events, e)
    BY <1>6 DEF ReadLine
  <2>2. l \in Sendable /\ l.timestamp \in Nat
    BY <1>3, <1>6, SendableLine DEF Sendable
  <2>3. e \in Ev
    BY <1>1, <2>2
  <2>4. e.ts = l.timestamp /\ e.buf = Encode(l) /\ e.line = pos + 1
    OBVIOUS
  <2> DEFINE n == Len(all_events)
  <2> HIDE DEF e
  <2>5. /\ all_events' \in Seq(Ev) /\ Len(all_events') = n + 1 /\ n \in Nat
        /\ \A k \in 1..n : all_events'[k] = all_events[k]
        /\ all_events'[n + 1] = e
    <3> HIDE DEF Ev
    <3>1. QED
        BY <1>1, <2>1, <2>3
  <2> HIDE DEF n
  <2>6. FeedTypes'
    BY <1>1, <2>1, <2>5 DEF FeedInv, FeedTypes
  <2>7. \A k \in 1..n : /\ all_events[k].line \in 1..Len(file)
                        /\ file[all_events[k].line] \in Sendable
                        /\ all_events[k].ts = file[all_events[k].line].timestamp
                        /\ all_events[k].buf = Encode(file[all_events[k].line])
                        /\ all_events[k].line <= pos
                        /\ all_events[k].line # pos + 1
    <3>1. \A k \in 1..n : all_events[k].line \in 1..Len(file) /\ all_events[k].line <= pos
        BY <1>2 DEF EventsOK, n
    <3>2. \A k \in 1..n : all_events[k].line # pos + 1
        BY <1>1, <3>1
    <3>3. QED
        BY <1>2, <3>1, <3>2 DEF EventsOK, n
  <2>8. EventsOK'
    <3>1. ASSUME NEW k \in 1..(n + 1)
          PROVE  /\ all_events'[k].line \in 1..Len(file)
                 /\ file[all_events'[k].line] \in Sendable
                 /\ all_events'[k].ts = file[all_events'[k].line].timestamp
                 /\ all_events'[k].buf = Encode(file[all_events'[k].line])
        <4>1. CASE k = n + 1
            <5>1. pos + 1 \in 1..Len(file)
                BY <1>1
            <5>2. QED
                BY <4>1, <5>1, <2>2, <2>4, <2>5
        <4>2. CASE k # n + 1
            <5>1. k \in 1..n
                BY <4>2, <2>5
            <5>2. QED
                BY <5>1, <2>5, <2>7
        <4>3. QED
            BY <4>1, <4>2
    <3>2. ASSUME NEW i \in 1..(n + 1), NEW j \in 1..(n + 1), i # j
          PROVE  all_events'[i].line # all_events'[j].line
        <4>1. CASE i = n + 1
            <5>1. j \in 1..n
                BY <3>2, <4>1, <2>5
            <5>2. QED
                BY <4>1, <5>1, <2>4, <2>5, <2>7
        <4>2. CASE j = n + 1
            <5>1. i \in 1..n
                BY <3>2, <4>2, <2>5
            <5>2. QED
                BY <4>2, <5>1, <2>4, <2>5, <2>7
        <4>3. CASE i # n + 1 /\ j # n + 1
            <5>1. i \in 1..n /\ j \in 1..n
                BY <4>3, <2>5
            <5>2. QED
                BY <3>2, <5>1, <2>5, <1>2 DEF EventsOK, n
        <4>4. QED
            BY <4>1, <4>2, <4>3
    <3>3. QED
        BY <3>1, <3>2, <2>5, <1>1 DEF EventsOK
  <2>9. Reading'
    <3>1. ASSUME NEW k \in 1..(n + 1) PROVE all_events'[k].line <= pos + 1
        <4>1. CASE k = n + 1
            BY <4>1, <2>4, <2>5, <1>1
        <4>2. CASE k # n + 1
            <5>1. k \in 1..n
                BY <4>2, <2>5
            <5>2. QED
                BY <5>1, <2>5, <2>7, <1>1
        <4>3. QED
            BY <4>1, <4>2
    <3>2. ASSUME NEW m \in 1..(pos + 1), ~Skipped(file[m])
          PROVE  \E k \in 1..(n + 1) : all_events'[k].line = m
        <4>1. CASE m = pos + 1
            <5>1. n + 1 \in 1..(n + 1)
                BY <2>5
            <5>2. QED
                BY <4>1, <5>1, <2>4, <2>5
        <4>2. CASE m # pos + 1
            <5>1. m \in 1..pos
                BY <4>2, <1>1
            <5>2. PICK k \in 1..n : all_events[k].line = m
                BY <3>2, <5>1, <1>2 DEF Collected, n
            <5>3. k \in 1..(n + 1) /\ all_events'[k] = all_events[k]
                BY <2>5
            <5>4. QED
                BY <5>2, <5>3
        <4>3. QED
            BY <4>1, <4>2
    <3>3. QED
        BY <3>1, <3>2, <2>1, <2>5, <1>1 DEF Reading, Collected
  <2>10. QED
    BY <2>1, <2>6, <2>8, <2>9, <1>1, NothingReceived DEF FeedInv
<1>7. QED
    BY <1>4, <1>5, <1>6

\* A sequence of all the numbers up to n, each once, holds every one of them.
LEMMA Permutation ==
    ASSUME NEW n \in Nat, NEW s \in SetToSeqs(1..n)
    PROVE  /\ s \in [1..n -> 1..n]
           /\ \A i, j \in 1..n : i # j => s[i] # s[j]
           /\ \A k \in 1..n : \E i \in 1..n : s[i] = k
<1>1. IsFiniteSet(1..n) /\ Cardinality(1..n) = n
  <2>1. 1 \in Int /\ n \in Int /\ (IF 1 > n THEN 0 ELSE n - 1 + 1) = n
    OBVIOUS
  <2>2. QED
    BY <2>1, FS_Interval
<1>2. s \in [1..n -> 1..n] /\ \A i, j \in 1..n : i # j => s[i] # s[j]
    BY <1>1 DEF SetToSeqs
<1>3. s \in Injection(1..n, 1..n)
    BY <1>2 DEF Injection, IsInjective
<1>4. s \in Surjection(1..n, 1..n)
    BY <1>1, <1>3, FS_Injection
<1>5. QED
    BY <1>2, <1>4 DEF Surjection

\* Sorting keeps the events, and puts them in the order of their times.
LEMMA SortFeedInv ==
    ASSUME FeedInv, SortEvents
    PROVE  FeedInv'
<1> DEFINE Ev == [ts : Nat, buf : {Encode(x) : x \in Sendable}, line : Nat]
           n == Len(all_events)
<1>1. /\ phase = "reading" /\ pos = Len(file) /\ phase' = "sending" /\ pos' = 0
      /\ file' = file /\ received' = received
    BY DEF SortEvents
<1>2. /\ received = <<>> /\ all_events \in Seq(Ev) /\ Collected(Len(file)) /\ EventsOK
      /\ DOMAIN all_events = 1..n /\ n \in Nat
    BY <1>1 DEF FeedInv, FeedTypes, Reading, Sending
<1>3. PICK s \in SetToSeqs(1..n) :
         /\ \A i, j \in DOMAIN s : i < j => all_events[s[i]].ts <= all_events[s[j]].ts
         /\ all_events' = [i \in DOMAIN s |-> all_events[s[i]]]
    BY <1>2 DEF SortEvents
<1> HIDE DEF n
<1>4. /\ s \in [1..n -> 1..n]
      /\ \A i, j \in 1..n : i # j => s[i] # s[j]
      /\ \A k \in 1..n : \E i \in 1..n : s[i] = k
    BY <1>2, Permutation
<1>5. /\ all_events' = [i \in 1..n |-> all_events[s[i]]]
      /\ \A i, j \in 1..n : i < j => all_events[s[i]].ts <= all_events[s[j]].ts
    BY <1>3, <1>4
<1>6. /\ all_events' \in Seq(Ev) /\ Len(all_events') = n
      /\ \A i \in 1..n : s[i] \in 1..n /\ all_events'[i] = all_events[s[i]]
  <2>1. \A i \in 1..n : s[i] \in 1..n /\ all_events'[i] = all_events[s[i]]
    BY <1>4, <1>5
  <2> HIDE DEF Ev
  <2>2. \A i \in 1..n : all_events[i] \in Ev
    BY <1>2 DEF n
  <2>3. all_events' \in [1..n -> Ev]
    BY <1>4, <1>5, <2>2
  <2>4. QED
    BY <1>2, <2>1, <2>3
<1>7. FeedTypes'
    BY <1>1, <1>2, <1>6 DEF FeedInv, FeedTypes
<1>8. EventsOK'
  <2>1. ASSUME NEW k \in 1..n
        PROVE  /\ all_events'[k].line \in 1..Len(file)
               /\ file[all_events'[k].line] \in Sendable
               /\ all_events'[k].ts = file[all_events'[k].line].timestamp
               /\ all_events'[k].buf = Encode(file[all_events'[k].line])
    <3>1. s[k] \in 1..n /\ all_events'[k] = all_events[s[k]]
        BY <1>6
    <3>2. /\ all_events[s[k]].line \in 1..Len(file)
          /\ file[all_events[s[k]].line] \in Sendable
          /\ all_events[s[k]].ts = file[all_events[s[k]].line].timestamp
          /\ all_events[s[k]].buf = Encode(file[all_events[s[k]].line])
        BY <3>1, <1>2 DEF EventsOK, n
    <3>3. QED
        BY <3>1, <3>2
  <2>2. ASSUME NEW i \in 1..n, NEW j \in 1..n, i # j
        PROVE  all_events'[i].line # all_events'[j].line
    <3>1. s[i] \in 1..n /\ s[j] \in 1..n /\ s[i] # s[j]
        BY <2>2, <1>4
    <3>2. all_events[s[i]].line # all_events[s[j]].line
        BY <3>1, <1>2 DEF EventsOK, n
    <3>3. QED
        BY <3>2, <1>6
  <2>3. QED
    BY <2>1, <2>2, <1>1, <1>6 DEF EventsOK
<1>9. Collected(Len(file))'
  <2>1. ASSUME NEW m \in 1..Len(file), ~Skipped(file[m])
        PROVE  \E i \in 1..n : all_events'[i].line = m
    <3>1. PICK k \in 1..n : all_events[k].line = m
        BY <2>1, <1>2 DEF Collected, n
    <3>2. PICK i \in 1..n : s[i] = k
        BY <1>4
    <3>3. QED
        BY <3>1, <3>2, <1>6
  <2>2. QED
    BY <2>1, <1>1, <1>6 DEF Collected
<1>10. Sending'
    BY <1>1, <1>2, <1>5, <1>6, <1>9 DEF Sending
<1>11. Reading'
    BY <1>1 DEF Reading
<1>12. Delivered'
  <2>1. Len(received') = 0 /\ pos' = 0
    BY <1>1, <1>2
  <2>2. \A k \in 1..Len(all_events') : ~(k <= pos')
    BY <2>1, <1>2, <1>6
  <2>3. QED
    BY <2>1, <2>2 DEF Delivered
<1>13. QED
    BY <1>7, <1>8, <1>10, <1>11, <1>12 DEF FeedInv

\* Sending an event hands over its order, behind those of earlier times.
LEMMA SendFeedInv ==
    ASSUME FeedInv, Send
    PROVE  FeedInv'
<1> DEFINE q == pos + 1
           c == all_events[q].line
           l == file[c]
           Re == [order : {OrderOf(x) : x \in {y \in Sendable : Accepted(y)}}, line : Nat]
<1>1. /\ phase = "sending" /\ pos < Len(all_events) /\ pos' = q
      /\ file' = file /\ phase' = phase /\ all_events' = all_events
      /\ pos \in Nat /\ Len(all_events) \in Nat /\ received \in Seq(Re)
    BY DEF Send, FeedInv, FeedTypes
<1>2. q \in 1..Len(all_events) /\ q \in Nat
    BY <1>1
<1>3. /\ c \in 1..Len(file) /\ l \in Sendable /\ all_events[q].buf = Encode(l)
      /\ all_events[q].ts = l.timestamp
    BY <1>2 DEF FeedInv, EventsOK
<1>4. \A k \in 1..Len(all_events) : k <= q => k <= pos \/ k = q
    BY <1>1
<1>5. /\ received' = IF ParseMessage(Encode(l)) = Rejected THEN received
                     ELSE Append(received, [order |-> OrderOf(l), line |-> c])
    BY <1>1, <1>3 DEF Send, OrderOf
<1>6. EventsOK'
    BY <1>1 DEF FeedInv, EventsOK
<1>7. Reading'
    BY <1>1 DEF Reading
<1>8. Sending'
  <2>1. /\ Collected(Len(file))
        /\ \A i, j \in 1..Len(all_events) : i < j => all_events[i].ts <= all_events[j].ts
    BY <1>1 DEF FeedInv, Sending
  <2>2. Collected(Len(file))'
    BY <2>1, <1>1 DEF Collected
  <2>3. q <= Len(all_events)
    BY <1>1
  <2> HIDE DEF q
  <2>4. QED
    BY <2>1, <2>2, <2>3, <1>1 DEF Sending
<1>9. Delivered
    BY DEF FeedInv
<1>10. CASE ~Accepted(l)
  <2>1. received' = received
    BY <1>3, <1>5, <1>10, ClientAndParserAgree
  <2>2. FeedTypes'
    BY <1>1, <1>2, <2>1 DEF FeedInv, FeedTypes
  <2>3. ASSUME NEW i \in 1..Len(received)
        PROVE  \E k \in 1..Len(all_events) :
                  /\ k <= q
                  /\ received[i].line = all_events[k].line
                  /\ received[i].order = OrderOf(file[received[i].line])
                  /\ Accepted(file[received[i].line])
    <3>1. PICK k \in 1..Len(all_events) :
             /\ k <= pos
             /\ received[i].line = all_events[k].line
             /\ received[i].order = OrderOf(file[received[i].line])
             /\ Accepted(file[received[i].line])
        BY <1>9 DEF Delivered
    <3>2. k <= q
        BY <3>1, <1>1
    <3>3. QED
        BY <3>1, <3>2
  <2>4. ASSUME NEW k \in 1..Len(all_events), k <= q, Accepted(file[all_events[k].line])
        PROVE  \E i \in 1..Len(received) : received[i].line = all_events[k].line
    <3>1. k <= pos
        BY <2>4, <1>4, <1>10
    <3>2. QED
        BY <3>1, <2>4, <1>1, <1>9 DEF Delivered
  <2>5. Delivered'
    BY <1>1, <1>9, <2>1, <2>3, <2>4 DEF Delivered
  <2>6. QED
    BY <2>2, <2>5, <1>6, <1>7, <1>8 DEF FeedInv
<1>11. CASE Accepted(l)
  <2> DEFINE x == [order |-> OrderOf(l), line |-> c]
             n == Len(received)
  <2>1. received' = Append(received, x)
    BY <1>3, <1>5, <1>11, ClientAndParserAgree
  <2>2. x \in Re /\ x.order = OrderOf(l) /\ x.line = c
    BY <1>3, <1>11
  <2> HIDE DEF x
  <2>3. /\ received' \in Seq(Re) /\ Len(received') = n + 1 /\ n \in Nat
        /\ \A i \in 1..n : received'[i] = received[i]
        /\ received'[n + 1] = x
    <3> HIDE DEF Re
    <3>1. QED
        BY <1>1, <2>1, <2>2
  <2> HIDE DEF n
  <2>4. FeedTypes'
    BY <1>1, <1>2, <2>3 DEF FeedInv, FeedTypes
  <2>5. ASSUME NEW i \in 1..n
        PROVE  \E k \in 1..Len(all_events) :
                  /\ k <= pos
                  /\ received[i].line = all_events[k].line
                  /\ received[i].order = OrderOf(file[received[i].line])
                  /\ Accepted(file[received[i].line])
    BY <1>9 DEF Delivered, n
  <2>6. ASSUME NEW i \in 1..(n + 1)
        PROVE  \E k \in 1..Len(all_events) :
                  /\ k <= q
                  /\ received'[i].line = all_events[k].line
                  /\ received'[i].order = OrderOf(file[received'[i].line])
                  /\ Accepted(file[received'[i].line])
    <3>1. CASE i = n + 1
        <4>1. received'[i].line = c /\ received'[i].order = OrderOf(file[c])
            BY <3>1, <2>2, <2>3
        <4>2. q <= q /\ c = all_events[q].line /\ Accepted(file[c])
            BY <1>2, <1>11
        <4> HIDE DEF q, c
        <4>3. QED
            BY <4>1, <4>2, <1>2
    <3>2. CASE i # n + 1
        <4>1. i \in 1..n
            BY <3>2, <2>3
        <4>2. PICK k \in 1..Len(all_events) :
                 /\ k <= pos
                 /\ received[i].line = all_events[k].line
                 /\ received[i].order = OrderOf(file[received[i].line])
                 /\ Accepted(file[received[i].line])
            BY <4>1, <2>5
        <4>3. k <= q /\ received'[i] = received[i]
            BY <4>1, <4>2, <1>1, <2>3
        <4>4. QED
            BY <4>2, <4>3
    <3>3. QED
        BY <3>1, <3>2
  <2>7. ASSUME NEW k \in 1..Len(all_events), k <= q, Accepted(file[all_events[k].line])
        PROVE  \E i \in 1..(n + 1) : received'[i].line = all_events[k].line
    <3>1. CASE k = q
        <4>1. n + 1 \in 1..(n + 1) /\ received'[n + 1].line = all_events[k].line
            BY <3>1, <2>2, <2>3
        <4>2. QED
            BY <4>1
    <3>2. CASE k # q
        <4>1. k <= pos
            BY <3>2, <2>7, <1>4
        <4>2. PICK i \in 1..n : received[i].line = all_events[k].line
            BY <4>1, <2>7, <1>1, <1>9 DEF Delivered, n
        <4>3. i \in 1..(n + 1) /\ received'[i] = received[i]
            BY <2>3
        <4>4. QED
            BY <4>2, <4>3
    <3>3. QED
        BY <3>1, <3>2
  <2>8. ASSUME NEW i \in 1..n
        PROVE  received[i].line # c /\ file[received[i].line].timestamp <= l.timestamp
    <3>1. PICK k \in 1..Len(all_events) : k <= pos /\ received[i].line = all_events[k].line
        BY <2>5
    <3>2. k < q /\ k # q
        BY <3>1, <1>1
    <3>3. all_events[k].line # c
        BY <3>2, <1>2 DEF FeedInv, EventsOK
    <3>4. all_events[k].ts <= all_events[q].ts
        BY <3>2, <1>1, <1>2 DEF FeedInv, Sending
    <3>5. all_events[k].ts = file[all_events[k].line].timestamp
        BY DEF FeedInv, EventsOK
    <3>6. QED
        BY <3>1, <3>3, <3>4, <3>5, <1>3
  <2>9. ASSUME NEW i \in 1..(n + 1), NEW j \in 1..(n + 1), i < j
        PROVE  /\ received'[i].line # received'[j].line
               /\ file[received'[i].line].timestamp <= file[received'[j].line].timestamp
    <3>1. i \in 1..n /\ received'[i] = received[i]
        BY <2>9, <2>3
    <3>2. CASE j = n + 1
        BY <3>1, <3>2, <2>2, <2>3, <2>8
    <3>3. CASE j # n + 1
        <4>1. j \in 1..n /\ received'[j] = received[j]
            BY <3>3, <2>3
        <4>2. QED
            BY <2>9, <3>1, <4>1, <1>9 DEF Delivered, n
    <3>4. QED
        BY <3>2, <3>3
  <2>10. Delivered'
    BY <1>1, <2>3, <2>6, <2>7, <2>9 DEF Delivered
  <2>11. QED
    BY <2>4, <2>10, <1>6, <1>7, <1>8 DEF FeedInv
<1>12. QED
    BY <1>10, <1>11

\* Every step keeps the invariant.
LEMMA NextFeedInv == FeedInv /\ [Next]_vars => FeedInv'
<1> SUFFICES ASSUME FeedInv, [Next]_vars PROVE FeedInv'
    OBVIOUS
<1>1. CASE Finish
  <2>1. /\ phase = "sending" /\ phase' = "stopped" /\ pos = Len(all_events)
        /\ UNCHANGED <<file, pos, all_events, received>>
    BY <1>1 DEF Finish
  <2>2. FeedTypes' /\ EventsOK' /\ Reading'
    BY <2>1 DEF FeedInv, FeedTypes, EventsOK, Reading
  <2>3. Sending'
    BY <2>1 DEF FeedInv, Sending, Collected
  <2>4. Delivered'
    BY <2>1 DEF FeedInv, Delivered
  <2>5. QED
    BY <2>2, <2>3, <2>4 DEF FeedInv
<1>2. CASE UNCHANGED vars
    BY <1>2 DEF vars, FeedInv, FeedTypes, EventsOK, Reading, Collected, Sending, Delivered
<1>3. QED
    BY <1>1, <1>2, ReadLineFeedInv, SortFeedInv, SendFeedInv DEF Next

\* The invariant holds throughout.
LEMMA FeedInvAlways == Spec => []FeedInv
    BY InitFeedInv, NextFeedInv, PTL DEF Spec

-----------------------------------------------------------------------------
(* The theorems *)

\* Every order that on_msg_received() hands on is the one its line describes:
\* encoding by the client and decoding by the parser fit, for any bytes.
THEOREM OrdersArriveAsFiled == Spec => []OrdersAsFiled
    BY FeedInvAlways, FeedInvImplies, PTL

\* When the client has sent everything, the lines received are those neither
\* skipped nor of price or size zero, each once.
THEOREM FeedLosesNothing == Spec => []FeedComplete
    BY FeedInvAlways, FeedInvImplies, PTL

\* The sort by time brings the events of an order in the order of their times,
\* wherever their lines are in the file.
THEOREM LifecycleKeepsOrder == Spec => []LifecycleInOrder
    BY FeedInvAlways, FeedInvImplies, PTL
=============================================================================
