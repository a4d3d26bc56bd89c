--------------------------- MODULE LocalExchange ----------------------------
(***************************************************************************)
(* class Exchange of src/src/local_exchange.cpp: symbols are hashed into   *)
(* buckets, every bucket has a queue, a map of order books and a thread.   *)
(* Client threads call on_msg_received(); the bucket's thread takes orders *)
(* from the queue and applies them to their books.                         *)
(*                                                                         *)
(* The callers (src/src/client.cpp, src/tests/test_local_exchange.cpp)     *)
(* call start() first and stop() when the clients are done; add_symbol()   *)
(* is called in between, before the first order.                           *)
(*                                                                         *)
(* What add(), cancel(), modify() and execute() do to a book is module     *)
(* OrderBook; here an order is its symbol, its client and its number.      *)
(***************************************************************************)
EXTENDS Integers, Sequences, SequencesExt

CONSTANTS
    Clients,        \* the threads that call on_msg_received()
    Symbols,        \* tickers: the character codes of their first two letters
    Registered,     \* the symbols that add_symbol() is called with
    MaxOrders       \* bound on the orders of a client

ASSUME LocalExchangeAssumption ==
    /\ Symbols \subseteq Nat \X Nat
    /\ Registered \subseteq Symbols
    /\ MaxOrders \in Nat

-----------------------------------------------------------------------------
(* get_bucket() *)

\* std::toupper on a character code; 'A' is 65 and 'a' is 97.
ToUpper(c) == IF c \in 97..122 THEN c - 32 ELSE c

NoBucket == <<>>

\* A bucket's label: a letter and, for the crowded ones, a range of the second.
GetBucket(sym) ==
    LET c0 == ToUpper(sym[1])
        c1 == ToUpper(sym[2])
    IN  CASE c0 \in {69, 73, 80} ->             \* E, I, P
               <<c0, IF c1 \in 65..69 THEN "A-E" ELSE "F-Z">>
          [] c0 = 83 ->                         \* S
               <<c0, IF c1 \in 65..69 THEN "A-E"
                     ELSE IF c1 \in 70..78 THEN "F-N" ELSE "O-Z">>
          [] c0 \in 65..90 \ {69, 73, 80, 83} -> <<c0, "">>
          [] OTHER -> NoBucket

Buckets == {GetBucket(sym) : sym \in Symbols} \ {NoBucket}

\* The orders that clients send.
ClientOrders == [symbol : Symbols, client : Clients, n : 1..MaxOrders]
NoOrder == [symbol |-> <<>>]

-----------------------------------------------------------------------------

VARIABLES
    running,    \* running_
    main,       \* progress of the thread that starts and stops the exchange
    created,    \* keys of bucketThreads_
    books,      \* keys of BucketThread::books, for each bucket
    queue,      \* BucketThread::order_queue: a FIFO per bucket and client
    thread,     \* where each bucket's thread is in book_loop()
    order,      \* local variable order of each book_loop()
    client,     \* where each client is in on_msg_received()
    incoming,   \* the order each client is routing
    accepted,   \* history: the orders each client has enqueued
    applied     \* by bucket: the orders applied to its books, oldest first

vars == <<running, main, created, books, queue, thread, order, client,
          incoming, accepted, applied>>

exchangeVars == <<running, main>>
clientVars == <<client, incoming, accepted>>
threadVars == <<thread, order, applied>>

Init ==
    /\ running = FALSE
    /\ main = "constructed"
    /\ created = {}
    /\ books = [b \in Buckets |-> {}]
    /\ queue = [b \in Buckets |-> [c \in Clients |-> <<>>]]
    /\ thread = [b \in Buckets |-> "none"]
    /\ order = [b \in Buckets |-> NoOrder]
    /\ client = [c \in Clients |-> "idle"]
    /\ incoming = [c \in Clients |-> NoOrder]
    /\ accepted = [c \in Clients |-> <<>>]
    /\ applied = [b \in Buckets |-> <<>>]

-----------------------------------------------------------------------------
(* start(), add_symbol(), stop() *)

Start ==
    /\ main = "constructed"
    /\ running' = TRUE
    /\ main' = "registering"
    /\ UNCHANGED <<created, books, queue, threadVars, clientVars>>

\* A symbol without a bucket is ignored.  The first symbol of a bucket creates
\* the bucket and its thread.
AddSymbol(sym) ==
    LET b == GetBucket(sym) IN
    /\ main = "registering"
    /\ b # NoBucket
    /\ sym \notin books[b]
    /\ created' = created \cup {b}
    /\ thread' = IF b \in created THEN thread ELSE [thread EXCEPT ![b] = "check"]
    /\ books' = [books EXCEPT ![b] = @ \cup {sym}]
    /\ UNCHANGED <<exchangeVars, queue, order, applied, clientVars>>

\* Mutant: the clients start while symbols are still missing.
Open_Early ==
    /\ main = "registering"
    /\ main' = "open"
    /\ UNCHANGED <<running, created, books, queue, threadVars, clientVars>>

\* Every symbol of Registered has been added, and the clients start.
Open ==
    /\ main = "registering"
    /\ \A sym \in Registered :
          GetBucket(sym) # NoBucket => sym \in books[GetBucket(sym)]
    /\ main' = "open"
    /\ UNCHANGED <<running, created, books, queue, threadVars, clientVars>>

StopFlag ==
    /\ main = "open"
    /\ \A c \in Clients : client[c] = "idle"
    /\ running' = FALSE
    /\ main' = "joining"
    /\ UNCHANGED <<created, books, queue, threadVars, clientVars>>

\* Mutant: stop() returns without joining the threads.
Join_Detached ==
    /\ main = "joining"
    /\ main' = "stopped"
    /\ UNCHANGED <<running, created, books, queue, threadVars, clientVars>>

Join ==
    /\ main = "joining"
    /\ \A b \in created : thread[b] = "exited"
    /\ main' = "stopped"
    /\ UNCHANGED <<running, created, books, queue, threadVars, clientVars>>

-----------------------------------------------------------------------------
(* on_msg_received() and enqueue_order() *)

\* Mutant: a symbol without a bucket is routed like any other.
Receive_AnySymbol(c, sym) ==
    /\ main = "open"
    /\ client[c] = "idle"
    /\ Len(accepted[c]) < MaxOrders
    /\ client' = [client EXCEPT ![c] = "bucket"]
    /\ incoming' = [incoming EXCEPT ![c] =
          [symbol |-> sym, client |-> c, n |-> Len(accepted[c]) + 1]]
    /\ UNCHANGED <<exchangeVars, created, books, queue, threadVars, accepted>>

\* A parsed order arrives.  One whose symbol has no bucket goes no further.
Receive(c, sym) ==
    /\ main = "open"
    /\ client[c] = "idle"
    /\ Len(accepted[c]) < MaxOrders
    /\ IF GetBucket(sym) = NoBucket
         THEN UNCHANGED <<client, incoming>>
         ELSE /\ client' = [client EXCEPT ![c] = "bucket"]
              /\ incoming' = [incoming EXCEPT ![c] =
                    [symbol |-> sym, client |-> c, n |-> Len(accepted[c]) + 1]]
    /\ UNCHANGED <<exchangeVars, created, books, queue, threadVars, accepted>>

BucketOf(c) == GetBucket(incoming[c].symbol)

\* bucketThreads_.emplace(), and the thread of a new bucket.  Two clients here
\* at once, one of them inserting, is a data race that MapsUnshared finds;
\* the model then goes on as if one call had come after the other.
EmplaceBucket(c) ==
    LET b == BucketOf(c) IN
    /\ client[c] = "bucket"
    /\ created' = created \cup {b}
    /\ thread' = IF b \in created THEN thread ELSE [thread EXCEPT ![b] = "check"]
    /\ client' = [client EXCEPT ![c] = "book"]
    /\ UNCHANGED <<exchangeVars, books, queue, order, applied, incoming, accepted>>

\* bt.books.emplace().
EmplaceBook(c) ==
    /\ client[c] = "book"
    /\ books' = [books EXCEPT ![BucketOf(c)] = @ \cup {incoming[c].symbol}]
    /\ client' = [client EXCEPT ![c] = "enqueue"]
    /\ UNCHANGED <<exchangeVars, created, queue, threadVars, incoming, accepted>>

Enqueue(c) ==
    /\ client[c] = "enqueue"
    /\ queue' = [queue EXCEPT ![BucketOf(c)][c] = Append(@, incoming[c])]
    /\ client' = [client EXCEPT ![c] = "idle"]
    /\ incoming' = [incoming EXCEPT ![c] = NoOrder]
    /\ accepted' = [accepted EXCEPT ![c] = Append(@, incoming[c])]
    /\ UNCHANGED <<exchangeVars, created, books, threadVars>>

-----------------------------------------------------------------------------
(* book_loop() *)

\* Mutant: the loop does not look at running_ again.
CheckRunning_Never(b) ==
    /\ thread[b] = "check"
    /\ thread' = [thread EXCEPT ![b] = "dequeue"]
    /\ UNCHANGED <<exchangeVars, created, books, queue, order, applied, clientVars>>

CheckRunning(b) ==
    /\ thread[b] = "check"
    /\ thread' = [thread EXCEPT ![b] = IF running THEN "dequeue" ELSE "exited"]
    /\ UNCHANGED <<exchangeVars, created, books, queue, order, applied, clientVars>>

\* Mutant: running_ is tested again after the dequeue.
TryDequeue_ThenStops(b) ==
    /\ thread[b] = "dequeue"
    /\ \E c \in Clients :
          /\ queue[b][c] # <<>>
          /\ order' = [order EXCEPT ![b] = Head(queue[b][c])]
          /\ queue' = [queue EXCEPT ![b][c] = Tail(@)]
    /\ thread' = [thread EXCEPT ![b] = IF running THEN "find" ELSE "exited"]
    /\ UNCHANGED <<exchangeVars, created, books, applied, clientVars>>

\* A successful try_dequeue(): the head of some client's FIFO.
TryDequeue(b) ==
    /\ thread[b] = "dequeue"
    /\ \E c \in Clients :
          /\ queue[b][c] # <<>>
          /\ order' = [order EXCEPT ![b] = Head(queue[b][c])]
          /\ queue' = [queue EXCEPT ![b][c] = Tail(@)]
    /\ thread' = [thread EXCEPT ![b] = "find"]
    /\ UNCHANGED <<exchangeVars, created, books, applied, clientVars>>

\* Mutant: the thread ends when it finds its queue empty.
Sleep_Exits(b) ==
    /\ thread[b] = "dequeue"
    /\ \A c \in Clients : queue[b][c] = <<>>
    /\ thread' = [thread EXCEPT ![b] = "exited"]
    /\ UNCHANGED <<exchangeVars, created, books, queue, order, applied, clientVars>>

\* try_dequeue() fails, and the thread sleeps for a millisecond.
Sleep(b) ==
    /\ thread[b] = "dequeue"
    /\ \A c \in Clients : queue[b][c] = <<>>
    /\ thread' = [thread EXCEPT ![b] = "check"]
    /\ UNCHANGED <<exchangeVars, created, books, queue, order, applied, clientVars>>

\* A client is inside books.emplace() and about to insert a new key.
InsertingBook(b) ==
    \E c \in Clients :
        /\ client[c] = "book"
        /\ BucketOf(c) = b
        /\ incoming[c].symbol \notin books[b]

(***************************************************************************)
(* Whether books.find() finds the order's book.  A find() that races with  *)
(* an emplace() of another symbol is undefined behaviour; its outcomes     *)
(* here are a find() that works and one that misses the key while the      *)
(* nodes are being linked anew.                                            *)
(***************************************************************************)
FindOutcomes(b) ==
    {order[b].symbol \in books[b]} \cup {found \in {FALSE} : InsertingBook(b)}

\* The order is applied: add(), cancel() or modify(), and then execute().  One
\* whose book is not found is dropped.
Apply(b) ==
    /\ thread[b] = "find"
    /\ \E found \in FindOutcomes(b) :
          applied' = IF found THEN [applied EXCEPT ![b] = Append(@, order[b])]
                     ELSE applied
    /\ order' = [order EXCEPT ![b] = NoOrder]
    /\ thread' = [thread EXCEPT ![b] = "check"]
    /\ UNCHANGED <<exchangeVars, created, books, queue, clientVars>>

-----------------------------------------------------------------------------
Route(c) ==
    \/ \E sym \in Symbols : Receive(c, sym)
    \/ EmplaceBucket(c) \/ EmplaceBook(c) \/ Enqueue(c)

BookLoop(b) ==
    CheckRunning(b) \/ TryDequeue(b) \/ Sleep(b) \/ Apply(b)

Next ==
    \/ Start \/ (\E sym \in Registered : AddSymbol(sym)) \/ Open
    \/ StopFlag \/ Join
    \/ \E c \in Clients : Route(c)
    \/ \E b \in Buckets : BookLoop(b)

Spec == Init /\ [][Next]_vars

\* Every bucket thread keeps running, and stop() goes on when it can.
FairSpec ==
    /\ Spec
    /\ \A b \in Buckets : WF_vars(BookLoop(b))
    /\ WF_vars(Join)

-----------------------------------------------------------------------------
(* Properties *)

\* Type invariant.
TypeOK ==
    /\ running \in BOOLEAN
    /\ main \in {"constructed", "registering", "open", "joining", "stopped"}
    /\ created \subseteq Buckets
    /\ books \in [Buckets -> SUBSET Symbols]
    /\ queue \in [Buckets -> [Clients -> Seq(ClientOrders)]]
    /\ thread \in [Buckets -> {"none", "check", "dequeue", "find", "exited"}]
    /\ order \in [Buckets -> ClientOrders \cup {NoOrder}]
    /\ client \in [Clients -> {"idle", "bucket", "book", "enqueue"}]
    /\ incoming \in [Clients -> ClientOrders \cup {NoOrder}]
    /\ accepted \in [Clients -> Seq(ClientOrders)]
    /\ applied \in [Buckets -> Seq(ClientOrders)]

\* What bucket b's thread has taken from its queue: the orders applied, and the
\* one in its hands.
Taken(b) == applied[b] \o (IF thread[b] = "find" THEN <<order[b]>> ELSE <<>>)

(***************************************************************************)
(* Every order a client has enqueued is in its bucket's queue, in the      *)
(* hands of the bucket's thread, or applied to its book, and only once;    *)
(* the bucket's thread takes a client's orders in the order they came.     *)
(***************************************************************************)
NoOrderLost ==
    \A b \in Buckets, c \in Clients :
        LET line == Taken(b) \o queue[b][c]
            mine == {i \in DOMAIN line : line[i].client = c}
        IN  /\ Len(Taken(b)) + 1 .. Len(line) \subseteq mine
            /\ \A i \in mine : /\ line[i].n \in DOMAIN accepted[c]
                               /\ line[i] = accepted[c][line[i].n]
                               /\ GetBucket(line[i].symbol) = b
            /\ \A i, j \in mine : i < j => line[i].n < line[j].n
            /\ \A k \in DOMAIN accepted[c] :
                  GetBucket(accepted[c][k].symbol) = b
                    => \E i \in mine : line[i] = accepted[c][k]

\* After stop() no thread of the exchange is left to touch a book or to push
\* to the logger, which the callers destroy next.
StopQuiesces ==
    main = "stopped" => \A b \in Buckets : thread[b] \in {"none", "exited"}

(***************************************************************************)
(* Nobody inserts into an unordered_map that another thread is using: no   *)
(* two clients are in bucketThreads_.emplace(), or in the emplace() of one *)
(* bucket's books, with one of them inserting, and no client inserts a     *)
(* book while the bucket's thread is in find().  Without a lock only       *)
(* lookups may overlap.                                                    *)
(***************************************************************************)
MapsUnshared ==
    /\ \A c, d \in Clients :
          c # d /\ client[c] = "bucket" /\ client[d] = "bucket"
            => BucketOf(c) \in created
    /\ \A c, d \in Clients :
          c # d /\ client[c] = "book" /\ client[d] = "book" /\ BucketOf(c) = BucketOf(d)
            => incoming[c].symbol \in books[BucketOf(c)]
    /\ \A b \in Buckets : thread[b] = "find" => ~InsertingBook(b)

\* Bucket b has an order that is not applied yet.
Pending(b) == thread[b] = "find" \/ \E c \in Clients : queue[b][c] # <<>>

\* As long as the exchange runs, a bucket's backlog is worked off.
BacklogCleared == \A b \in Buckets : Pending(b) ~> ~Pending(b) \/ ~running

\* stop() returns: every bucket thread sees running_ and exits.
StopReturns == main = "joining" ~> main = "stopped"

\* When stop() has returned, every accepted order has been processed:
\* "Events processed" (src/src/client.cpp) counts all that were sent.
AllProcessed ==
    main = "stopped" => \A c \in Clients : \A i \in 1..Len(accepted[c]) :
        accepted[c][i] \in Range(applied[GetBucket(accepted[c][i].symbol)])
=============================================================================
