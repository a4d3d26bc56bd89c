------------------------ MODULE LocalExchangeProofs -------------------------
(***************************************************************************)
(* The exchange of local_exchange.cpp for any clients, tickers and orders: *)
(* stop() leaves no thread behind, orders are routed to buckets that       *)
(* exist, and with every symbol registered the maps are only read.         *)
(***************************************************************************)
EXTENDS LocalExchange, TLAPS

\* The inductive invariant: a thread belongs to a bucket that stop() visits,
\* the clients only move while the exchange is open, and a joined thread has
\* exited.
ShutdownInv ==
    /\ thread \in [Buckets -> {"none", "check", "dequeue", "find", "exited"}]
    /\ client \in [Clients -> {"idle", "bucket", "book", "enqueue"}]
    /\ \A b \in Buckets : thread[b] # "none" => b \in created
    /\ main # "open" => \A c \in Clients : client[c] = "idle"
    /\ main = "stopped" => \A b \in Buckets : thread[b] \in {"none", "exited"}

\* A new exchange has no thread.
LEMMA InitShutdownInv == Init => ShutdownInv
    BY DEF Init, ShutdownInv

\* Every step of the main thread, the clients and the bucket threads keeps the
\* invariant.
LEMMA NextShutdownInv == ShutdownInv /\ [Next]_vars => ShutdownInv'
<1> SUFFICES ASSUME ShutdownInv, [Next]_vars PROVE ShutdownInv'
    OBVIOUS
<1> USE DEF ShutdownInv, exchangeVars, clientVars, threadVars
<1>1. CASE Start
    BY <1>1 DEF Start
<1>2. ASSUME NEW sym \in Registered, AddSymbol(sym) PROVE ShutdownInv'
    BY <1>2 DEF AddSymbol
<1>3. CASE Open
    BY <1>3 DEF Open
<1>4. CASE StopFlag
    BY <1>4 DEF StopFlag
<1>5. CASE Join
    BY <1>5 DEF Join
<1>6. ASSUME NEW c \in Clients, NEW sym \in Symbols, Receive(c, sym)
      PROVE  ShutdownInv'
    BY <1>6 DEF Receive
<1>7. ASSUME NEW c \in Clients, EmplaceBucket(c) PROVE ShutdownInv'
    BY <1>7 DEF EmplaceBucket
<1>8. ASSUME NEW c \in Clients, EmplaceBook(c) PROVE ShutdownInv'
    BY <1>8 DEF EmplaceBook
<1>9. ASSUME NEW c \in Clients, Enqueue(c) PROVE ShutdownInv'
    BY <1>9 DEF Enqueue
<1>10. ASSUME NEW b \in Buckets, CheckRunning(b) PROVE ShutdownInv'
    BY <1>10 DEF CheckRunning
<1>11. ASSUME NEW b \in Buckets, TryDequeue(b) PROVE ShutdownInv'
    BY <1>11 DEF TryDequeue
<1>12. ASSUME NEW b \in Buckets, Sleep(b) PROVE ShutdownInv'
    BY <1>12 DEF Sleep
<1>13. ASSUME NEW b \in Buckets, Apply(b) PROVE ShutdownInv'
    BY <1>13 DEF Apply
<1>14. CASE UNCHANGED vars
    BY <1>14 DEF vars
<1>15. QED
    BY <1>1, <1>2, <1>3, <1>4, <1>5, <1>6, <1>7, <1>8, <1>9, <1>10, <1>11, <1>12,
       <1>13, <1>14 DEF Next, Route, BookLoop

\* When stop() has returned, every thread that was ever started has exited:
\* nothing touches a book or the logger after it.
THEOREM StopLeavesNoThread == Spec => []StopQuiesces
<1>1. ShutdownInv => StopQuiesces
    BY DEF ShutdownInv, StopQuiesces
<1>2. QED
    BY <1>1, InitShutdownInv, NextShutdownInv, PTL DEF Spec

-----------------------------------------------------------------------------
(* Types *)

\* TypeOK is not inductive alone: an order is only routed, and only applied,
\* where there is one, and only to a bucket that exists.
Typed ==
    /\ TypeOK
    /\ \A c \in Clients :
          client[c] # "idle" => incoming[c] \in ClientOrders /\ BucketOf(c) \in Buckets
    /\ \A b \in Buckets : thread[b] = "find" => order[b] \in ClientOrders

\* A new exchange is well typed.
LEMMA InitTyped == Init => Typed
<1> SUFFICES ASSUME Init PROVE Typed
    OBVIOUS
<1>1. <<>> \in Seq(ClientOrders)
    OBVIOUS
<1>2. QED
    BY <1>1 DEF Init, Typed, TypeOK

\* A symbol with a bucket has one of Buckets.
LEMMA BucketExists ==
    ASSUME NEW sym \in Symbols, GetBucket(sym) # NoBucket
    PROVE  GetBucket(sym) \in Buckets
    BY DEF Buckets

\* A client's next order is one.
LEMMA OrderTyped ==
    ASSUME Typed, NEW c \in Clients, NEW sym \in Symbols, Len(accepted[c]) < MaxOrders
    PROVE  [symbol |-> sym, client |-> c, n |-> Len(accepted[c]) + 1] \in ClientOrders
<1>1. Len(accepted[c]) \in Nat
    BY DEF Typed, TypeOK
<1>2. QED
    BY <1>1, LocalExchangeAssumption DEF ClientOrders

\* Every step keeps the types.
LEMMA NextTyped == Typed /\ [Next]_vars => Typed'
<1> SUFFICES ASSUME Typed, [Next]_vars PROVE Typed'
    OBVIOUS
<1> USE DEF Typed, TypeOK, BucketOf, exchangeVars, clientVars, threadVars
<1>1. CASE Start
    BY <1>1 DEF Start
<1>2. ASSUME NEW sym \in Registered, AddSymbol(sym) PROVE Typed'
  <2>1. sym \in Symbols /\ GetBucket(sym) \in Buckets
    BY <1>2, BucketExists, LocalExchangeAssumption DEF AddSymbol
  <2>2. QED
    BY <1>2, <2>1 DEF AddSymbol
<1>3. CASE Open
    BY <1>3 DEF Open
<1>4. CASE StopFlag
    BY <1>4 DEF StopFlag
<1>5. CASE Join
    BY <1>5 DEF Join
<1>6. ASSUME NEW c \in Clients, NEW sym \in Symbols, Receive(c, sym)
      PROVE  Typed'
  <2>1. CASE GetBucket(sym) = NoBucket
    BY <1>6, <2>1 DEF Receive
  <2>2. CASE GetBucket(sym) # NoBucket
    <3> DEFINE new == [symbol |-> sym, client |-> c, n |-> Len(accepted[c]) + 1]
    <3>1. GetBucket(sym) \in Buckets /\ new \in ClientOrders /\ new.symbol = sym
        BY <1>6, <2>2, BucketExists, OrderTyped DEF Receive
    <3>2. /\ client' = [client EXCEPT ![c] = "bucket"]
          /\ incoming' = [incoming EXCEPT ![c] = new]
          /\ UNCHANGED <<exchangeVars, created, books, queue, threadVars, accepted>>
        BY <1>6, <2>2 DEF Receive
    <3> HIDE DEF new
    <3>3. QED
        BY <3>1, <3>2
  <2>3. QED
    BY <2>1, <2>2
<1>7. ASSUME NEW c \in Clients, EmplaceBucket(c) PROVE Typed'
    BY <1>7 DEF EmplaceBucket
<1>8. ASSUME NEW c \in Clients, EmplaceBook(c) PROVE Typed'
  <2>1. incoming[c].symbol \in Symbols
    BY <1>8 DEF EmplaceBook, ClientOrders
  <2>2. QED
    BY <1>8, <2>1 DEF EmplaceBook
<1>9. ASSUME NEW c \in Clients, Enqueue(c) PROVE Typed'
  <2>1. incoming[c] \in ClientOrders /\ BucketOf(c) \in Buckets
    BY <1>9 DEF Enqueue
  <2>2. /\ Append(queue[BucketOf(c)][c], incoming[c]) \in Seq(ClientOrders)
        /\ Append(accepted[c], incoming[c]) \in Seq(ClientOrders)
    BY <2>1
  <2>3. queue' \in [Buckets -> [Clients -> Seq(ClientOrders)]]
    BY <1>9, <2>1, <2>2 DEF Enqueue
  <2>4. accepted' \in [Clients -> Seq(ClientOrders)]
    BY <1>9, <2>2 DEF Enqueue
  <2>5. QED
    BY <1>9, <2>1, <2>3, <2>4 DEF Enqueue
<1>10. ASSUME NEW b \in Buckets, CheckRunning(b) PROVE Typed'
    BY <1>10 DEF CheckRunning
<1>11. ASSUME NEW b \in Buckets, TryDequeue(b) PROVE Typed'
  <2>1. PICK c \in Clients :
          /\ queue[b][c] # <<>>
          /\ order' = [order EXCEPT ![b] = Head(queue[b][c])]
          /\ queue' = [queue EXCEPT ![b][c] = Tail(@)]
    BY <1>11 DEF TryDequeue
  <2>2. /\ Head(queue[b][c]) \in ClientOrders
        /\ Tail(queue[b][c]) \in Seq(ClientOrders)
    BY <2>1
  <2>3. queue' \in [Buckets -> [Clients -> Seq(ClientOrders)]]
    BY <2>1, <2>2
  <2>4. QED
    BY <1>11, <2>1, <2>2, <2>3 DEF TryDequeue
<1>12. ASSUME NEW b \in Buckets, Sleep(b) PROVE Typed'
    BY <1>12 DEF Sleep
<1>13. ASSUME NEW b \in Buckets, Apply(b) PROVE Typed'
  <2>1. Append(applied[b], order[b]) \in Seq(ClientOrders)
    BY <1>13 DEF Apply
  <2>2. applied' \in [Buckets -> Seq(ClientOrders)]
    BY <1>13, <2>1 DEF Apply
  <2>3. QED
    BY <1>13, <2>2 DEF Apply
<1>14. CASE UNCHANGED vars
    BY <1>14 DEF vars
<1>15. QED
    BY <1>1, <1>2, <1>3, <1>4, <1>5, <1>6, <1>7, <1>8, <1>9, <1>10, <1>11, <1>12,
       <1>13, <1>14 DEF Next, Route, BookLoop

\* Orders are only ever routed to buckets that exist, and what is queued, held
\* or applied is an order of a client.
THEOREM ExchangeTypeCorrect == Spec => []TypeOK
<1>1. Typed => TypeOK
    BY DEF Typed
<1>2. QED
    BY <1>1, InitTyped, NextTyped, PTL DEF Spec

-----------------------------------------------------------------------------
(* Registered symbols *)

\* Once the clients run, every symbol that has a bucket has a book in it, and
\* a bucket with a book is in bucketThreads_.
RegisteredInv ==
    /\ \A b \in Buckets : books[b] # {} => b \in created
    /\ main \in {"open", "joining", "stopped"} =>
          \A sym \in Symbols : GetBucket(sym) # NoBucket => sym \in books[GetBucket(sym)]
    /\ main \in {"constructed", "registering"} => \A c \in Clients : client[c] = "idle"

\* Every step keeps it, provided that all symbols were added first.
LEMMA NextRegistered ==
    ASSUME Registered = Symbols, Typed, RegisteredInv, [Next]_vars
    PROVE  RegisteredInv'
<1> USE DEF Typed, TypeOK, BucketOf, RegisteredInv, exchangeVars, clientVars, threadVars
<1>1. CASE Start
    BY <1>1 DEF Start
<1>2. ASSUME NEW sym \in Registered, AddSymbol(sym) PROVE RegisteredInv'
  <2>1. GetBucket(sym) \in Buckets
    BY <1>2, BucketExists, LocalExchangeAssumption DEF AddSymbol
  <2>2. QED
    BY <1>2, <2>1 DEF AddSymbol
<1>3. CASE Open
    BY <1>3 DEF Open
<1>4. CASE StopFlag
    BY <1>4 DEF StopFlag
<1>5. CASE Join
    BY <1>5 DEF Join
<1>6. ASSUME NEW c \in Clients, NEW sym \in Symbols, Receive(c, sym)
      PROVE  RegisteredInv'
    BY <1>6 DEF Receive
<1>7. ASSUME NEW c \in Clients, EmplaceBucket(c) PROVE RegisteredInv'
    BY <1>7 DEF EmplaceBucket
<1>8. ASSUME NEW c \in Clients, EmplaceBook(c) PROVE RegisteredInv'
  <2>1. /\ BucketOf(c) \in Buckets /\ incoming[c].symbol \in Symbols
        /\ main \in {"open", "joining", "stopped"}
    BY <1>8 DEF EmplaceBook, ClientOrders
  <2>2. incoming[c].symbol \in books[BucketOf(c)]
    BY <2>1 DEF Buckets
  <2>3. books' = books
    BY <1>8, <2>1, <2>2 DEF EmplaceBook
  <2>4. QED
    BY <1>8, <2>1, <2>3 DEF EmplaceBook
<1>9. ASSUME NEW c \in Clients, Enqueue(c) PROVE RegisteredInv'
    BY <1>9 DEF Enqueue
<1>10. ASSUME NEW b \in Buckets, CheckRunning(b) PROVE RegisteredInv'
    BY <1>10 DEF CheckRunning
<1>11. ASSUME NEW b \in Buckets, TryDequeue(b) PROVE RegisteredInv'
    BY <1>11 DEF TryDequeue
<1>12. ASSUME NEW b \in Buckets, Sleep(b) PROVE RegisteredInv'
    BY <1>12 DEF Sleep
<1>13. ASSUME NEW b \in Buckets, Apply(b) PROVE RegisteredInv'
    BY <1>13 DEF Apply
<1>14. CASE UNCHANGED vars
    BY <1>14 DEF vars
<1>15. QED
    BY <1>1, <1>2, <1>3, <1>4, <1>5, <1>6, <1>7, <1>8, <1>9, <1>10, <1>11, <1>12,
       <1>13, <1>14 DEF Next, Route, BookLoop

\* Where every symbol has its book, a client's emplace() calls only look up.
LEMMA RegisteredUnshared ==
    ASSUME Typed, RegisteredInv
    PROVE  MapsUnshared
<1>1. ASSUME NEW c \in Clients, client[c] # "idle"
      PROVE  BucketOf(c) \in created /\ incoming[c].symbol \in books[BucketOf(c)]
  <2>1. /\ BucketOf(c) \in Buckets /\ incoming[c].symbol \in Symbols
        /\ main \in {"open", "joining", "stopped"}
    BY <1>1 DEF Typed, TypeOK, RegisteredInv, ClientOrders
  <2>2. incoming[c].symbol \in books[BucketOf(c)]
    BY <2>1 DEF RegisteredInv, Buckets, BucketOf
  <2>3. QED
    BY <2>1, <2>2 DEF RegisteredInv
<1>2. QED
    BY <1>1 DEF MapsUnshared, InsertingBook

\* With every symbol added before the clients start, any number of clients may
\* call on_msg_received() at once: nobody inserts into a map that another
\* thread is using, although none of them is guarded by a lock.
THEOREM RegisteredMapsUnshared ==
    ASSUME Registered = Symbols
    PROVE  Spec => []MapsUnshared
<1>1. Init => RegisteredInv
    BY DEF Init, RegisteredInv
<1>2. Typed /\ RegisteredInv /\ [Next]_vars => RegisteredInv'
    BY NextRegistered
<1>3. Typed /\ RegisteredInv => MapsUnshared
    BY RegisteredUnshared
<1>4. QED
    BY <1>1, <1>2, <1>3, InitTyped, NextTyped, PTL DEF Spec
-----------------------------------------------------------------------------
(* No order is lost *)

\* Order o was enqueued by its client as number o.n, for bucket b; a holds what
\* every client has enqueued.
Enqueued(a, o, b) ==
    /\ o.n \in 1..Len(a[o.client])
    /\ a[o.client][o.n] = o
    /\ GetBucket(o.symbol) = b

\* Bucket b's thread has taken t and finds q in its queue from client c: both
\* hold only what was enqueued, every client's orders in their order, and all
\* that c enqueued for b.
LineOK(a, t, q, b, c) ==
    /\ \A i \in 1..Len(t) : Enqueued(a, t[i], b)
    /\ \A i \in 1..Len(q) : q[i].client = c /\ Enqueued(a, q[i], b)
    /\ \A i, j \in 1..Len(t) : i < j /\ t[i].client = t[j].client => t[i].n < t[j].n
    /\ \A i, j \in 1..Len(q) : i < j => q[i].n < q[j].n
    /\ \A i \in 1..Len(t), j \in 1..Len(q) : t[i].client = c => t[i].n < q[j].n
    /\ \A k \in 1..Len(a[c]) : GetBucket(a[c][k].symbol) = b =>
          \/ \E i \in 1..Len(t) : t[i] = a[c][k]
          \/ \E j \in 1..Len(q) : q[j] = a[c][k]

Histories == [Clients -> Seq(ClientOrders)]

\* What was enqueued stays so when client c enqueues one more.
LEMMA EnqueuedStays ==
    ASSUME NEW a \in Histories, NEW c \in Clients, NEW o \in ClientOrders,
           NEW x \in ClientOrders, NEW b, Enqueued(a, x, b)
    PROVE  Enqueued([a EXCEPT ![c] = Append(a[c], o)], x, b)
<1> DEFINE e == [a EXCEPT ![c] = Append(a[c], o)]
<1>1. x.client \in Clients /\ x.n \in Nat
    BY DEF ClientOrders
<1>2. /\ e[c] = Append(a[c], o)
      /\ \A d \in Clients \ {c} : e[d] = a[d]
      /\ a[c] \in Seq(ClientOrders)
    BY DEF Histories
<1>3. /\ x.n \in 1..Len(a[x.client])
      /\ a[x.client][x.n] = x
      /\ GetBucket(x.symbol) = b
    BY DEF Enqueued
<1> HIDE DEF e
<1>4. x.n \in 1..Len(e[x.client]) /\ e[x.client][x.n] = x
  <2>1. CASE x.client = c
    BY <2>1, <1>1, <1>2, <1>3
  <2>2. CASE x.client # c
    BY <2>2, <1>1, <1>2, <1>3
  <2>3. QED
    BY <2>1, <2>2
<1>5. QED
    BY <1>3, <1>4 DEF Enqueued, e

\* enqueue() of an order of client c: it joins the queue of its bucket.
LEMMA LineEnqueue ==
    ASSUME NEW a \in Histories, NEW t \in Seq(ClientOrders), NEW q \in Seq(ClientOrders),
           NEW b, NEW c \in Clients, LineOK(a, t, q, b, c),
           NEW o \in ClientOrders, o.client = c, o.n = Len(a[c]) + 1,
           GetBucket(o.symbol) = b
    PROVE  LineOK([a EXCEPT ![c] = Append(a[c], o)], t, Append(q, o), b, c)
<1> DEFINE e == [a EXCEPT ![c] = Append(a[c], o)]
           r == Append(q, o)
<1>1. /\ e[c] = Append(a[c], o)
      /\ a[c] \in Seq(ClientOrders)
      /\ Len(e[c]) = Len(a[c]) + 1 /\ Len(a[c]) \in Nat
      /\ e[c][Len(a[c]) + 1] = o
      /\ \A k \in 1..Len(a[c]) : e[c][k] = a[c][k]
    BY DEF Histories
<1>2. /\ Len(r) = Len(q) + 1 /\ Len(q) \in Nat
      /\ r[Len(q) + 1] = o
      /\ \A j \in 1..Len(q) : r[j] = q[j] /\ q[j] \in ClientOrders
    OBVIOUS
<1>3. \A i \in 1..Len(t) : t[i] \in ClientOrders
    OBVIOUS
<1> HIDE DEF r
<1>4. \A x \in ClientOrders : Enqueued(a, x, b) => Enqueued(e, x, b)
    BY EnqueuedStays
<1>5. Enqueued(e, o, b)
    BY <1>1 DEF Enqueued
<1> HIDE DEF e
<1>6. \A x \in ClientOrders : x.client = c /\ Enqueued(a, x, b) => x.n < o.n /\ x.n \in Nat
    BY <1>1 DEF Enqueued, ClientOrders
<1>7. \A i \in 1..Len(t) : Enqueued(e, t[i], b)
    BY <1>3, <1>4 DEF LineOK
<1>8. \A j \in 1..Len(r) : r[j].client = c /\ Enqueued(e, r[j], b)
    BY <1>2, <1>4, <1>5 DEF LineOK
<1>9. \A i, j \in 1..Len(r) : i < j => r[i].n < r[j].n
  <2> SUFFICES ASSUME NEW i \in 1..Len(r), NEW j \in 1..Len(r), i < j PROVE r[i].n < r[j].n
    OBVIOUS
  <2>1. CASE j = Len(q) + 1
    BY <2>1, <1>2, <1>6 DEF LineOK
  <2>2. CASE j # Len(q) + 1
    BY <2>2, <1>2 DEF LineOK
  <2>3. QED
    BY <2>1, <2>2
<1>10. \A i \in 1..Len(t), j \in 1..Len(r) : t[i].client = c => t[i].n < r[j].n
  <2> SUFFICES ASSUME NEW i \in 1..Len(t), NEW j \in 1..Len(r), t[i].client = c
               PROVE  t[i].n < r[j].n
    OBVIOUS
  <2>1. CASE j = Len(q) + 1
    BY <2>1, <1>2, <1>3, <1>6 DEF LineOK
  <2>2. CASE j # Len(q) + 1
    <3>1. j \in 1..Len(q) /\ r[j] = q[j]
      BY <2>2, <1>2
    <3>2. QED
      BY <3>1 DEF LineOK
  <2>3. QED
    BY <2>1, <2>2
<1>11. ASSUME NEW k \in 1..Len(e[c]), GetBucket(e[c][k].symbol) = b
       PROVE  \/ \E i \in 1..Len(t) : t[i] = e[c][k]
              \/ \E j \in 1..Len(r) : r[j] = e[c][k]
  <2>1. CASE k = Len(a[c]) + 1
    BY <2>1, <1>1, <1>2
  <2>2. CASE k # Len(a[c]) + 1
    <3>1. k \in 1..Len(a[c]) /\ e[c][k] = a[c][k]
      BY <2>2, <1>1
    <3>2. \/ \E i \in 1..Len(t) : t[i] = a[c][k]
          \/ \E j \in 1..Len(q) : q[j] = a[c][k]
      BY <3>1, <1>11 DEF LineOK
    <3>3. QED
      BY <3>1, <3>2, <1>2
  <2>3. QED
    BY <2>1, <2>2
<1>12. LineOK(e, t, r, b, c)
    BY <1>3, <1>7, <1>8, <1>9, <1>10, <1>11 DEF LineOK
<1>13. QED
    BY <1>12 DEF e, r

\* The same call does not concern any other queue.
LEMMA LineOther ==
    ASSUME NEW a \in Histories, NEW t \in Seq(ClientOrders), NEW q \in Seq(ClientOrders),
           NEW b, NEW d \in Clients, LineOK(a, t, q, b, d),
           NEW c \in Clients, NEW o \in ClientOrders,
           c # d \/ GetBucket(o.symbol) # b
    PROVE  LineOK([a EXCEPT ![c] = Append(a[c], o)], t, q, b, d)
<1> DEFINE e == [a EXCEPT ![c] = Append(a[c], o)]
<1>1. /\ e[c] = Append(a[c], o)
      /\ a[c] \in Seq(ClientOrders)
      /\ Len(e[c]) = Len(a[c]) + 1 /\ Len(a[c]) \in Nat
      /\ e[c][Len(a[c]) + 1] = o
      /\ \A k \in 1..Len(a[c]) : e[c][k] = a[c][k]
      /\ \A x \in Clients \ {c} : e[x] = a[x]
    BY DEF Histories
<1>2. /\ \A i \in 1..Len(t) : t[i] \in ClientOrders
      /\ \A i \in 1..Len(q) : q[i] \in ClientOrders
    OBVIOUS
<1>3. \A x \in ClientOrders : Enqueued(a, x, b) => Enqueued(e, x, b)
    BY EnqueuedStays
<1> HIDE DEF e
<1>4. ASSUME NEW k \in 1..Len(e[d]), GetBucket(e[d][k].symbol) = b
      PROVE  k \in 1..Len(a[d]) /\ e[d][k] = a[d][k]
  <2>1. CASE c = d
    <3>1. k # Len(a[d]) + 1
      BY <2>1, <1>1, <1>4
    <3>2. QED
      BY <2>1, <3>1, <1>1
  <2>2. CASE c # d
    BY <2>2, <1>1
  <2>3. QED
    BY <2>1, <2>2
<1>5. LineOK(e, t, q, b, d)
    BY <1>2, <1>3, <1>4 DEF LineOK
<1>6. QED
    BY <1>5 DEF e

\* try_dequeue() moves the first of client c's orders into the thread's hands.
LEMMA LineDequeue ==
    ASSUME NEW a \in Histories, NEW t \in Seq(ClientOrders), NEW q \in Seq(ClientOrders),
           NEW b, NEW c \in Clients, LineOK(a, t, q, b, c), q # <<>>
    PROVE  LineOK(a, Append(t, Head(q)), Tail(q), b, c)
<1> DEFINE u == Append(t, Head(q))
           r == Tail(q)
<1>1. /\ Len(u) = Len(t) + 1 /\ Len(t) \in Nat
      /\ u[Len(t) + 1] = q[1]
      /\ \A i \in 1..Len(t) : u[i] = t[i] /\ t[i] \in ClientOrders
    OBVIOUS
<1>2. /\ Len(r) = Len(q) - 1 /\ Len(q) \in Nat \ {0}
      /\ \A j \in 1..Len(r) : r[j] = q[j + 1] /\ j + 1 \in 1..Len(q)
      /\ \A j \in 1..Len(q) : q[j] \in ClientOrders
    OBVIOUS
<1> HIDE DEF u, r
<1>3. /\ \A i \in 1..Len(u) : Enqueued(a, u[i], b)
      /\ \A i \in 1..Len(r) : r[i].client = c /\ Enqueued(a, r[i], b)
  <2>1. /\ \A i \in 1..Len(t) : Enqueued(a, t[i], b)
        /\ \A i \in 1..Len(q) : q[i].client = c /\ Enqueued(a, q[i], b)
    BY DEF LineOK
  <2>2. ASSUME NEW i \in 1..Len(u) PROVE Enqueued(a, u[i], b)
    <3>1. CASE i = Len(t) + 1
      BY <2>1, <3>1, <1>1, <1>2
    <3>2. CASE i # Len(t) + 1
      BY <2>1, <3>2, <1>1
    <3>3. QED
      BY <3>1, <3>2
  <2>3. \A i \in 1..Len(r) : r[i].client = c /\ Enqueued(a, r[i], b)
    BY <2>1, <1>2
  <2>4. QED
    BY <2>2, <2>3
<1>4. ASSUME NEW i \in 1..Len(u), NEW j \in 1..Len(u), i < j, u[i].client = u[j].client
      PROVE  u[i].n < u[j].n
  <2>1. CASE j = Len(t) + 1
    BY <2>1, <1>1, <1>2, <1>4 DEF LineOK
  <2>2. CASE j # Len(t) + 1
    BY <2>2, <1>1, <1>4 DEF LineOK
  <2>3. QED
    BY <2>1, <2>2
<1>5. ASSUME NEW i \in 1..Len(r), NEW j \in 1..Len(r), i < j
      PROVE  r[i].n < r[j].n
  <2>1. /\ i + 1 \in 1..Len(q) /\ j + 1 \in 1..Len(q) /\ i + 1 < j + 1
        /\ r[i] = q[i + 1] /\ r[j] = q[j + 1]
    BY <1>2, <1>5
  <2>2. QED
    BY <2>1 DEF LineOK
<1>6. ASSUME NEW i \in 1..Len(u), NEW j \in 1..Len(r), u[i].client = c
      PROVE  u[i].n < r[j].n
  <2>1. r[j] = q[j + 1] /\ j + 1 \in 1..Len(q) /\ 1 \in 1..Len(q) /\ 1 < j + 1
    BY <1>2
  <2>2. CASE i = Len(t) + 1
    BY <2>1, <2>2, <1>1 DEF LineOK
  <2>3. CASE i # Len(t) + 1
    <3>1. i \in 1..Len(t) /\ u[i] = t[i]
      BY <2>3, <1>1
    <3>2. QED
      BY <2>1, <3>1, <1>6 DEF LineOK
  <2>4. QED
    BY <2>2, <2>3
<1>7. ASSUME NEW k \in 1..Len(a[c]), GetBucket(a[c][k].symbol) = b
      PROVE  \/ \E i \in 1..Len(u) : u[i] = a[c][k]
             \/ \E j \in 1..Len(r) : r[j] = a[c][k]
  <2>1. CASE \E i \in 1..Len(t) : t[i] = a[c][k]
    BY <2>1, <1>1
  <2>2. CASE q[1] = a[c][k]
    BY <2>2, <1>1
  <2>3. ASSUME NEW j \in 1..Len(q), j # 1, q[j] = a[c][k]
        PROVE  \E i \in 1..Len(r) : r[i] = a[c][k]
    <3>1. j - 1 \in 1..Len(r) /\ r[j - 1] = q[j]
      BY <2>3, <1>2
    <3>2. QED
      BY <3>1, <2>3
  <2>4. QED
    BY <2>1, <2>2, <2>3, <1>7 DEF LineOK
<1>8. LineOK(a, u, r, b, c)
    BY <1>3, <1>4, <1>5, <1>6, <1>7 DEF LineOK
<1>9. QED
    BY <1>8 DEF u, r

\* The orders of another client d keep their places.
LEMMA LineDequeueOther ==
    ASSUME NEW a \in Histories, NEW t \in Seq(ClientOrders), NEW q \in Seq(ClientOrders),
           NEW b, NEW d \in Clients, LineOK(a, t, q, b, d),
           NEW o \in ClientOrders, o.client # d, Enqueued(a, o, b),
           \A i \in 1..Len(t) : t[i].client = o.client => t[i].n < o.n
    PROVE  LineOK(a, Append(t, o), q, b, d)
<1> DEFINE u == Append(t, o)
<1>1. /\ Len(u) = Len(t) + 1 /\ Len(t) \in Nat
      /\ u[Len(t) + 1] = o
      /\ \A i \in 1..Len(t) : u[i] = t[i]
    OBVIOUS
<1> HIDE DEF u
<1>2. \A i \in 1..Len(u) : Enqueued(a, u[i], b)
    BY <1>1 DEF LineOK
<1>3. ASSUME NEW i \in 1..Len(u), NEW j \in 1..Len(u), i < j, u[i].client = u[j].client
      PROVE  u[i].n < u[j].n
  <2>1. CASE j = Len(t) + 1
    BY <2>1, <1>1, <1>3
  <2>2. CASE j # Len(t) + 1
    <3>1. i \in 1..Len(t) /\ j \in 1..Len(t) /\ u[i] = t[i] /\ u[j] = t[j]
      BY <2>2, <1>1, <1>3
    <3>2. QED
      BY <3>1, <1>3 DEF LineOK
  <2>3. QED
    BY <2>1, <2>2
<1>4. \A i \in 1..Len(u), j \in 1..Len(q) : u[i].client = d => u[i].n < q[j].n
    BY <1>1 DEF LineOK
<1>5. \A k \in 1..Len(a[d]) : GetBucket(a[d][k].symbol) = b =>
         \/ \E i \in 1..Len(u) : u[i] = a[d][k]
         \/ \E j \in 1..Len(q) : q[j] = a[d][k]
    BY <1>1 DEF LineOK
<1>6. LineOK(a, u, q, b, d)
    BY <1>2, <1>3, <1>4, <1>5 DEF LineOK
<1>7. QED
    BY <1>6 DEF u
\* The inductive invariant: every bucket's line is in order for every client,
\* a client numbers its next order, and nothing is enqueued before the
\* exchange is open.
LinesInv ==
    /\ \A b \in Buckets, c \in Clients : LineOK(accepted, Taken(b), queue[b][c], b, c)
    /\ \A c \in Clients : client[c] # "idle" =>
          incoming[c].client = c /\ incoming[c].n = Len(accepted[c]) + 1
    /\ \A c \in Clients : \A k \in 1..Len(accepted[c]) : accepted[c][k].client = c
    /\ main \in {"constructed", "registering"} => \A c \in Clients : accepted[c] = <<>>

\* What a bucket's thread has taken is a sequence of orders.
LEMMA TakenTyped ==
    ASSUME Typed, NEW b \in Buckets
    PROVE  /\ Taken(b) \in Seq(ClientOrders)
           /\ thread[b] # "find" => Taken(b) = applied[b]
           /\ thread[b] = "find" => Taken(b) = Append(applied[b], order[b])
<1>1. applied[b] \in Seq(ClientOrders)
    BY DEF Typed, TypeOK
<1>2. CASE thread[b] = "find"
  <2>1. order[b] \in ClientOrders
    BY <1>2 DEF Typed
  <2>2. Taken(b) = applied[b] \o <<order[b]>>
    BY <1>2 DEF Taken
  <2>3. QED
    BY <1>1, <1>2, <2>1, <2>2
<1>3. CASE thread[b] # "find"
  <2>1. Taken(b) = applied[b] \o <<>>
    BY <1>3 DEF Taken
  <2>2. QED
    BY <1>1, <1>3, <2>1
<1>4. QED
    BY <1>2, <1>3

\* A new exchange satisfies it.
LEMMA InitLines == Init => LinesInv
<1> SUFFICES ASSUME Init PROVE LinesInv
    OBVIOUS
<1>1. ASSUME NEW b \in Buckets, NEW c \in Clients
      PROVE  LineOK(accepted, Taken(b), queue[b][c], b, c)
  <2>1. Taken(b) = <<>> /\ queue[b][c] = <<>> /\ accepted[c] = <<>>
    BY DEF Init, Taken
  <2>2. QED
    BY <2>1 DEF LineOK
<1>2. QED
    BY <1>1 DEF LinesInv, Init

\* The order in a thread's hands has its book, and nobody is inserting into the
\* map that find() reads.
LEMMA BookFound ==
    ASSUME Typed, RegisteredInv, LinesInv, NEW b \in Buckets, thread[b] = "find"
    PROVE  FindOutcomes(b) = {TRUE}
<1>1. MapsUnshared
    BY RegisteredUnshared
<1>2. ~InsertingBook(b)
    BY <1>1 DEF MapsUnshared
<1>3. order[b] \in ClientOrders
    BY DEF Typed
<1> DEFINE d == order[b].client
           i == Len(Taken(b))
<1>4. d \in Clients /\ order[b].symbol \in Symbols
    BY <1>3 DEF ClientOrders
<1>5. i \in 1..Len(Taken(b)) /\ Taken(b)[i] = order[b]
    BY TakenTyped, <1>3 DEF Typed, TypeOK
<1>6. LineOK(accepted, Taken(b), queue[b][d], b, d)
    BY <1>4 DEF LinesInv
<1> HIDE DEF i
<1>7. Enqueued(accepted, order[b], b)
    BY <1>5, <1>6 DEF LineOK
<1>8. accepted[d] # <<>> /\ GetBucket(order[b].symbol) = b
    BY <1>7 DEF Enqueued
<1>9. main \in {"open", "joining", "stopped"}
    BY <1>4, <1>8 DEF LinesInv, Typed, TypeOK
<1>10. order[b].symbol \in books[b]
    BY <1>4, <1>8, <1>9 DEF RegisteredInv, Buckets
<1>11. QED
    BY <1>2, <1>10 DEF FindOutcomes

\* A step that touches no line.
LEMMA LinesUnchanged ==
    ASSUME LinesInv, accepted' = accepted, queue' = queue,
           \A b \in Buckets : Taken(b)' = Taken(b),
           client' = client, incoming' = incoming,
           main' \in {"constructed", "registering"} => main \in {"constructed", "registering"}
    PROVE  LinesInv'
    BY DEF LinesInv

\* The thread of a bucket that is not created yet holds nothing when it starts.
LEMMA TakenAtStart ==
    ASSUME ShutdownInv, NEW b, applied' = applied, order' = order,
           thread' = IF b \in created THEN thread ELSE [thread EXCEPT ![b] = "check"]
    PROVE  \A x \in Buckets : Taken(x)' = Taken(x)
<1> TAKE x \in Buckets
<1>1. thread'[x] = "find" <=> thread[x] = "find"
    BY DEF ShutdownInv
<1>2. QED
    BY <1>1 DEF Taken

\* enqueue() appends the order to its bucket's line and to the client's history.
LEMMA EnqueueLines ==
    ASSUME Typed, RegisteredInv, LinesInv, NEW c \in Clients, Enqueue(c)
    PROVE  LinesInv'
<1> DEFINE o == incoming[c]
           e == BucketOf(c)
<1>1. /\ client[c] = "enqueue"
      /\ queue' = [queue EXCEPT ![e][c] = Append(@, o)]
      /\ client' = [client EXCEPT ![c] = "idle"]
      /\ incoming' = [incoming EXCEPT ![c] = NoOrder]
      /\ accepted' = [accepted EXCEPT ![c] = Append(accepted[c], o)]
      /\ main' = main /\ applied' = applied /\ thread' = thread /\ order' = order
    BY DEF Enqueue, exchangeVars, threadVars
<1>2. o \in ClientOrders /\ e \in Buckets /\ o.client = c /\ o.n = Len(accepted[c]) + 1
    BY <1>1 DEF Typed, LinesInv
<1>3. GetBucket(o.symbol) = e
    BY DEF BucketOf
<1>4. accepted \in Histories /\ \A b \in Buckets, d \in Clients : queue[b][d] \in Seq(ClientOrders)
    BY DEF Typed, TypeOK, Histories
<1>5. \A b \in Buckets : Taken(b)' = Taken(b) /\ Taken(b) \in Seq(ClientOrders)
    BY <1>1, TakenTyped DEF Taken
<1> HIDE DEF o, e
<1>6. ASSUME NEW b \in Buckets, NEW d \in Clients
      PROVE  LineOK(accepted', Taken(b), queue'[b][d], b, d)
  <2>1. LineOK(accepted, Taken(b), queue[b][d], b, d)
    BY DEF LinesInv
  <2>2. CASE b = e /\ d = c
    <3>1. queue'[b][d] = Append(queue[b][d], o)
      BY <2>2, <1>1 DEF Typed, TypeOK
    <3>2. LineOK([accepted EXCEPT ![c] = Append(accepted[c], o)], Taken(e),
                 Append(queue[e][c], o), e, c)
      BY <2>1, <2>2, <1>2, <1>3, <1>4, <1>5, LineEnqueue
    <3>3. QED
      BY <2>2, <3>1, <3>2, <1>1
  <2>3. CASE b # e \/ d # c
    <3>1. queue'[b][d] = queue[b][d]
      BY <2>3, <1>1, <1>2 DEF Typed, TypeOK
    <3>2. LineOK([accepted EXCEPT ![c] = Append(accepted[c], o)], Taken(b),
                 queue[b][d], b, d)
      BY <2>1, <2>3, <1>2, <1>3, <1>4, <1>5, LineOther
    <3>3. QED
      BY <3>1, <3>2, <1>1
  <2>4. QED
    BY <2>2, <2>3
<1>7. ASSUME NEW d \in Clients, client'[d] # "idle"
      PROVE  incoming'[d].client = d /\ incoming'[d].n = Len(accepted'[d]) + 1
  <2>1. d # c /\ client[d] # "idle"
    BY <1>1, <1>7 DEF Typed, TypeOK
  <2>2. incoming'[d] = incoming[d] /\ accepted'[d] = accepted[d]
    BY <2>1, <1>1 DEF Typed, TypeOK
  <2>3. QED
    BY <2>1, <2>2 DEF LinesInv
<1>8. main' \notin {"constructed", "registering"}
  <2>1. main \notin {"constructed", "registering"}
    BY <1>1 DEF RegisteredInv
  <2>2. QED
    BY <2>1, <1>1
<1>9. ASSUME NEW d \in Clients, NEW k \in 1..Len(accepted'[d])
      PROVE  accepted'[d][k].client = d
  <2>1. CASE d = c
    <3>1. accepted'[c] = Append(accepted[c], o) /\ accepted[c] \in Seq(ClientOrders)
      BY <1>1, <1>4 DEF Histories
    <3>2. accepted'[c][k] = IF k = Len(accepted[c]) + 1 THEN o ELSE accepted[c][k]
      BY <2>1, <3>1, <1>2
    <3>3. k = Len(accepted[c]) + 1 \/ k \in 1..Len(accepted[c])
      BY <2>1, <3>1, <1>2
    <3>4. QED
      BY <2>1, <3>2, <3>3, <1>2 DEF LinesInv
  <2>2. CASE d # c
    <3>1. accepted'[d] = accepted[d]
      BY <2>2, <1>1, <1>4 DEF Histories
    <3>2. QED
      BY <3>1 DEF LinesInv
  <2>3. QED
    BY <2>1, <2>2
<1>10. QED
    BY <1>5, <1>6, <1>7, <1>8, <1>9 DEF LinesInv

\* try_dequeue() moves an order from the queue into the thread's hands.
LEMMA DequeueLines ==
    ASSUME Typed, LinesInv, NEW b \in Buckets, TryDequeue(b)
    PROVE  LinesInv'
<1>1. PICK c \in Clients :
        /\ queue[b][c] # <<>>
        /\ order' = [order EXCEPT ![b] = Head(queue[b][c])]
        /\ queue' = [queue EXCEPT ![b][c] = Tail(@)]
    BY DEF TryDequeue
<1> DEFINE q == queue[b][c]
           o == Head(q)
<1>2. /\ thread[b] = "dequeue"
      /\ thread' = [thread EXCEPT ![b] = "find"]
      /\ applied' = applied /\ accepted' = accepted /\ main' = main
      /\ client' = client /\ incoming' = incoming
    BY DEF TryDequeue, exchangeVars, clientVars
<1>3. /\ accepted \in Histories
      /\ \A x \in Buckets, d \in Clients : queue[x][d] \in Seq(ClientOrders)
      /\ \A x \in Buckets : Taken(x) \in Seq(ClientOrders)
    BY TakenTyped DEF Typed, TypeOK, Histories
<1>4. q \in Seq(ClientOrders) /\ o \in ClientOrders /\ o = q[1] /\ 1 \in 1..Len(q)
    BY <1>1, <1>3
<1>5. Taken(b)' = Append(Taken(b), o)
  <2>1. thread'[b] = "find" /\ order'[b] = o /\ applied'[b] = applied[b]
    BY <1>1, <1>2 DEF Typed, TypeOK
  <2>2. Taken(b) = applied[b] /\ applied[b] \in Seq(ClientOrders)
    BY <1>2, TakenTyped DEF Typed, TypeOK
  <2> HIDE DEF o, q
  <2>3. Taken(b)' = applied[b] \o <<o>>
    BY <2>1 DEF Taken
  <2>4. QED
    BY <2>2, <2>3, <1>4
<1>6. \A x \in Buckets \ {b} : Taken(x)' = Taken(x)
    BY <1>1, <1>2 DEF Taken, Typed, TypeOK
<1>7. LineOK(accepted, Taken(b), q, b, c)
    BY DEF LinesInv
<1>8. /\ o.client = c
      /\ Enqueued(accepted, o, b)
      /\ \A i \in 1..Len(Taken(b)) : Taken(b)[i].client = c => Taken(b)[i].n < o.n
    BY <1>4, <1>7 DEF LineOK
<1>9. ASSUME NEW x \in Buckets, NEW d \in Clients
      PROVE  LineOK(accepted', Taken(x)', queue'[x][d], x, d)
  <2>1. LineOK(accepted, Taken(x), queue[x][d], x, d)
    BY DEF LinesInv
  <2>2. CASE x = b /\ d = c
    <3>1. queue'[x][d] = Tail(q)
      BY <2>2, <1>1 DEF Typed, TypeOK
    <3>2. LineOK(accepted, Append(Taken(b), o), Tail(q), b, c)
      BY <1>1, <1>3, <1>4, <1>7, LineDequeue
    <3>3. QED
      BY <2>2, <3>1, <3>2, <1>2, <1>5
  <2>3. CASE x = b /\ d # c
    <3>1. queue'[x][d] = queue[x][d]
      BY <2>3, <1>1 DEF Typed, TypeOK
    <3> HIDE DEF o
    <3>2. LineOK(accepted, Append(Taken(b), o), queue[b][d], b, d)
      BY <2>1, <2>3, <1>3, <1>4, <1>8, LineDequeueOther
    <3>3. QED
      BY <2>3, <3>1, <3>2, <1>2, <1>5
  <2>4. CASE x # b
    <3>1. queue'[x][d] = queue[x][d]
      BY <2>4, <1>1 DEF Typed, TypeOK
    <3>2. QED
      BY <2>1, <2>4, <3>1, <1>2, <1>6
  <2>5. QED
    BY <2>2, <2>3, <2>4
<1>10. QED
    BY <1>2, <1>9 DEF LinesInv

\* Every step keeps the lines, provided that all symbols were added first.
LEMMA NextLines ==
    ASSUME Registered = Symbols, Typed, ShutdownInv, RegisteredInv, LinesInv, [Next]_vars
    PROVE  LinesInv'
<1> USE DEF exchangeVars, clientVars, threadVars
<1>1. CASE Start
    BY <1>1, LinesUnchanged DEF Start, Taken
<1>2. ASSUME NEW sym \in Registered, AddSymbol(sym) PROVE LinesInv'
    BY <1>2, TakenAtStart, LinesUnchanged DEF AddSymbol
<1>3. CASE Open
    BY <1>3, LinesUnchanged DEF Open, Taken
<1>4. CASE StopFlag
    BY <1>4, LinesUnchanged DEF StopFlag, Taken
<1>5. CASE Join
    BY <1>5, LinesUnchanged DEF Join, Taken
<1>6. ASSUME NEW c \in Clients, NEW sym \in Symbols, Receive(c, sym)
      PROVE  LinesInv'
  <2>1. /\ main' = main /\ accepted' = accepted /\ queue' = queue
        /\ \A b \in Buckets : Taken(b)' = Taken(b)
    BY <1>6 DEF Receive, Taken
  <2>2. ASSUME NEW d \in Clients, client'[d] # "idle"
        PROVE  incoming'[d].client = d /\ incoming'[d].n = Len(accepted[d]) + 1
    <3>1. CASE client' = client /\ incoming' = incoming
      BY <2>2, <3>1 DEF LinesInv
    <3>2. CASE ~(client' = client /\ incoming' = incoming)
      <4> DEFINE new == [symbol |-> sym, client |-> c, n |-> Len(accepted[c]) + 1]
      <4>1. /\ client' = [client EXCEPT ![c] = "bucket"]
            /\ incoming' = [incoming EXCEPT ![c] = new]
        BY <1>6, <3>2 DEF Receive
      <4>2. new.client = c /\ new.n = Len(accepted[c]) + 1
        OBVIOUS
      <4> HIDE DEF new
      <4>3. CASE d = c
        BY <4>1, <4>2, <4>3 DEF Typed, TypeOK
      <4>4. CASE d # c
        BY <2>2, <4>1, <4>4 DEF LinesInv, Typed, TypeOK
      <4>5. QED
        BY <4>3, <4>4
    <3>3. QED
      BY <3>1, <3>2
  <2>3. QED
    BY <2>1, <2>2 DEF LinesInv
<1>7. ASSUME NEW c \in Clients, EmplaceBucket(c) PROVE LinesInv'
  <2>1. \A b \in Buckets : Taken(b)' = Taken(b)
    BY <1>7, TakenAtStart DEF EmplaceBucket
  <2>2. QED
    BY <1>7, <2>1 DEF EmplaceBucket, LinesInv, Typed, TypeOK
<1>8. ASSUME NEW c \in Clients, EmplaceBook(c) PROVE LinesInv'
    BY <1>8 DEF EmplaceBook, LinesInv, Taken, Typed, TypeOK
<1>9. ASSUME NEW c \in Clients, Enqueue(c) PROVE LinesInv'
    BY <1>9, EnqueueLines
<1>10. ASSUME NEW b \in Buckets, CheckRunning(b) PROVE LinesInv'
  <2>1. \A x \in Buckets : Taken(x)' = Taken(x)
    BY <1>10 DEF CheckRunning, Taken, Typed, TypeOK
  <2>2. QED
    BY <1>10, <2>1, LinesUnchanged DEF CheckRunning
<1>11. ASSUME NEW b \in Buckets, TryDequeue(b) PROVE LinesInv'
    BY <1>11, DequeueLines
<1>12. ASSUME NEW b \in Buckets, Sleep(b) PROVE LinesInv'
  <2>1. \A x \in Buckets : Taken(x)' = Taken(x)
    BY <1>12 DEF Sleep, Taken, Typed, TypeOK
  <2>2. QED
    BY <1>12, <2>1, LinesUnchanged DEF Sleep
<1>13. ASSUME NEW b \in Buckets, Apply(b) PROVE LinesInv'
  <2>1. thread[b] = "find" /\ FindOutcomes(b) = {TRUE}
    BY <1>13, BookFound DEF Apply
  <2>2. /\ applied' = [applied EXCEPT ![b] = Append(@, order[b])]
        /\ thread' = [thread EXCEPT ![b] = "check"]
        /\ order' = [order EXCEPT ![b] = NoOrder]
    BY <1>13, <2>1 DEF Apply
  <2>3. Taken(b)' = Taken(b)
    <3>1. Taken(b) = Append(applied[b], order[b]) /\ Taken(b) \in Seq(ClientOrders)
      BY <2>1, TakenTyped
    <3>2. Taken(b)' = Append(applied[b], order[b]) \o <<>>
      BY <2>2 DEF Taken, Typed, TypeOK
    <3>3. QED
      BY <3>1, <3>2
  <2>4. \A x \in Buckets \ {b} : Taken(x)' = Taken(x)
    BY <2>2 DEF Taken, Typed, TypeOK
  <2>5. QED
    BY <1>13, <2>3, <2>4, LinesUnchanged DEF Apply
<1>14. CASE UNCHANGED vars
    BY <1>14, LinesUnchanged DEF vars, Taken
<1>15. QED
    BY <1>1, <1>2, <1>3, <1>4, <1>5, <1>6, <1>7, <1>8, <1>9, <1>10, <1>11, <1>12,
       <1>13, <1>14 DEF Next, Route, BookLoop

\* The lines tell that no order is lost, doubled or overtaken.
LEMMA LinesLoseNothing ==
    ASSUME Typed, LinesInv
    PROVE  NoOrderLost
<1> SUFFICES ASSUME NEW b \in Buckets, NEW c \in Clients
             PROVE  LET line == Taken(b) \o queue[b][c]
                        mine == {i \in DOMAIN line : line[i].client = c}
                    IN  /\ Len(Taken(b)) + 1 .. Len(line) \subseteq mine
                        /\ \A i \in mine : /\ line[i].n \in DOMAIN accepted[c]
                                           /\ line[i] = accepted[c][line[i].n]
                                           /\ GetBucket(line[i].symbol) = b
                        /\ \A i, j \in mine : i < j => line[i].n < line[j].n
                        /\ \A k \in DOMAIN accepted[c] :
                              GetBucket(accepted[c][k].symbol) = b
                                => \E i \in mine : line[i] = accepted[c][k]
    BY DEF NoOrderLost
<1> DEFINE t == Taken(b)
           q == queue[b][c]
           line == t \o q
           mine == {i \in DOMAIN line : line[i].client = c}
<1>1. LineOK(accepted, t, q, b, c)
    BY DEF LinesInv
<1>2. t \in Seq(ClientOrders) /\ q \in Seq(ClientOrders) /\ accepted[c] \in Seq(ClientOrders)
    BY TakenTyped DEF Typed, TypeOK
<1> HIDE DEF t, q
<1>3. /\ Len(t) \in Nat /\ Len(q) \in Nat
      /\ Len(line) = Len(t) + Len(q)
      /\ DOMAIN line = 1..Len(line)
      /\ \A i \in 1..Len(t) : line[i] = t[i]
      /\ \A j \in 1..Len(q) : line[Len(t) + j] = q[j]
      /\ DOMAIN accepted[c] = 1..Len(accepted[c])
    BY <1>2
<1> HIDE DEF line
<1>4. ASSUME NEW i \in 1..Len(line), i > Len(t)
      PROVE  i - Len(t) \in 1..Len(q) /\ line[i] = q[i - Len(t)] /\ i \in mine
  <2>1. i - Len(t) \in 1..Len(q) /\ Len(t) + (i - Len(t)) = i
    BY <1>3, <1>4
  <2>2. line[i] = q[i - Len(t)]
    BY <2>1, <1>3
  <2>3. line[i].client = c
    BY <2>1, <2>2, <1>1 DEF LineOK
  <2>4. QED
    BY <2>1, <2>2, <2>3, <1>3
<1>5. ASSUME NEW i \in mine
      PROVE  /\ line[i].n \in 1..Len(accepted[c])
             /\ line[i] = accepted[c][line[i].n]
             /\ GetBucket(line[i].symbol) = b
  <2>1. Enqueued(accepted, line[i], b) /\ line[i].client = c
    <3>1. CASE i <= Len(t)
      BY <3>1, <1>1, <1>3 DEF LineOK
    <3>2. CASE i > Len(t)
      BY <3>2, <1>1, <1>3, <1>4 DEF LineOK
    <3>3. QED
      BY <3>1, <3>2, <1>3
  <2>2. QED
    BY <2>1 DEF Enqueued
<1>6. ASSUME NEW i \in mine, NEW j \in mine, i < j
      PROVE  line[i].n < line[j].n
  <2>1. /\ i \in 1..Len(line) /\ j \in 1..Len(line)
        /\ line[i].client = c /\ line[j].client = c
    BY <1>3
  <2>2. CASE j <= Len(t)
    <3>1. i \in 1..Len(t) /\ j \in 1..Len(t)
      BY <2>1, <2>2, <1>3, <1>6
    <3>2. QED
      BY <2>1, <3>1, <1>1, <1>3, <1>6 DEF LineOK
  <2>3. CASE j > Len(t) /\ i <= Len(t)
    <3>1. i \in 1..Len(t) /\ line[i] = t[i]
      BY <2>1, <2>3, <1>3
    <3>2. j - Len(t) \in 1..Len(q) /\ line[j] = q[j - Len(t)]
      BY <2>1, <2>3, <1>4
    <3>3. QED
      BY <2>1, <3>1, <3>2, <1>1 DEF LineOK
  <2>4. CASE i > Len(t)
    <3>1. /\ i - Len(t) \in 1..Len(q) /\ line[i] = q[i - Len(t)]
          /\ j - Len(t) \in 1..Len(q) /\ line[j] = q[j - Len(t)]
          /\ i - Len(t) < j - Len(t)
      BY <2>1, <2>4, <1>3, <1>4, <1>6
    <3>2. QED
      BY <3>1, <1>1 DEF LineOK
  <2>5. QED
    BY <2>1, <2>2, <2>3, <2>4, <1>3
<1>7. ASSUME NEW k \in 1..Len(accepted[c]), GetBucket(accepted[c][k].symbol) = b
      PROVE  \E i \in mine : line[i] = accepted[c][k]
  <2>1. accepted[c][k].client = c
    BY DEF LinesInv
  <2>2. CASE \E i \in 1..Len(t) : t[i] = accepted[c][k]
    <3>1. PICK i \in 1..Len(t) : t[i] = accepted[c][k]
      BY <2>2
    <3>2. i \in DOMAIN line /\ line[i] = accepted[c][k]
      BY <3>1, <1>3
    <3>3. QED
      BY <2>1, <3>2
  <2>3. CASE \E j \in 1..Len(q) : q[j] = accepted[c][k]
    <3>1. PICK j \in 1..Len(q) : q[j] = accepted[c][k]
      BY <2>3
    <3>2. Len(t) + j \in DOMAIN line /\ line[Len(t) + j] = accepted[c][k]
      BY <3>1, <1>3
    <3>3. QED
      BY <2>1, <3>2
  <2>4. QED
    BY <2>2, <2>3, <1>1, <1>7 DEF LineOK
<1>8. Len(t) + 1 .. Len(line) \subseteq mine
  <2>1. ASSUME NEW i \in Len(t) + 1 .. Len(line) PROVE i \in 1..Len(line) /\ i > Len(t)
    BY <1>3
  <2>2. QED
    BY <2>1, <1>4
<1> HIDE DEF mine
<1>9. /\ Len(t) + 1 .. Len(line) \subseteq mine
      /\ \A i \in mine : /\ line[i].n \in DOMAIN accepted[c]
                         /\ line[i] = accepted[c][line[i].n]
                         /\ GetBucket(line[i].symbol) = b
      /\ \A i, j \in mine : i < j => line[i].n < line[j].n
      /\ \A k \in DOMAIN accepted[c] :
            GetBucket(accepted[c][k].symbol) = b => \E i \in mine : line[i] = accepted[c][k]
    BY <1>3, <1>5, <1>6, <1>7, <1>8
<1>10. QED
    BY <1>9 DEF t, q, line, mine

\* With every symbol added before the clients start, every order that any number
\* of clients enqueue at once reaches its book exactly once and in its client's
\* order, or still waits in its bucket's queue: stop() may leave orders queued,
\* but drops none that its threads have taken.
THEOREM RegisteredLosesNoOrder ==
    ASSUME Registered = Symbols
    PROVE  Spec => []NoOrderLost
<1>1. Init => Typed /\ ShutdownInv /\ RegisteredInv /\ LinesInv
  <2>1. Init => RegisteredInv
    BY DEF Init, RegisteredInv
  <2>2. QED
    BY <2>1, InitTyped, InitShutdownInv, InitLines
<1>2. Typed /\ ShutdownInv /\ RegisteredInv /\ LinesInv /\ [Next]_vars
        => (Typed /\ ShutdownInv /\ RegisteredInv /\ LinesInv)'
    BY NextTyped, NextShutdownInv, NextRegistered, NextLines
<1>3. Typed /\ LinesInv => NoOrderLost
    BY LinesLoseNothing
<1>4. QED
    BY <1>1, <1>2, <1>3, PTL DEF Spec
=============================================================================
