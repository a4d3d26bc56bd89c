---------------------------- MODULE NetExchange -----------------------------
(***************************************************************************)
(* class Exchange of src/src/exchange.cpp with its network server and its  *)
(* market data publisher: every symbol has a book, a queue and a thread.   *)
(* Sessions of the server call on_msg_received() on the io_context's       *)
(* thread, book threads apply the orders, and the main thread calls        *)
(* start(), add_symbol(), stop() and the destructor in any order.          *)
(*                                                                         *)
(* The exchange's own pointer network_ is null from the constructor on, so *)
(* that start() and stop() leave the server alone: the main thread starts  *)
(* and stops it.  The io_context is stopped before the destructor.         *)
(***************************************************************************)
EXTENDS NetworkServer, MarketDataPublisher

CONSTANT Registered     \* the symbols that add_symbol() is called with

ASSUME NetExchangeAssumption == Registered \subseteq Symbols

VARIABLES
    running,        \* running_
    main,           \* where the main thread is in a call, or "idle"
    adding,         \* the symbol that add_symbol() is inserting
    bookThreads,    \* keys of bookThreads_
    thread,         \* where each symbol's thread is in book_loop()
    queue,          \* BookThread::order_queue
    applied,        \* history: the orders applied to each book
    joinable        \* the symbols whose std::thread has not been joined

exchangeVars == <<running, main, adding, bookThreads, joinable>>
bookVars == <<thread, queue, applied>>
vars == <<serverVars, publisherVars, exchangeVars, bookVars>>

Init ==
    /\ ServerInit
    /\ PublisherInit
    /\ running = FALSE
    /\ main = "idle"
    /\ adding = {}
    /\ bookThreads = {}
    /\ thread = [s \in Symbols |-> "none"]
    /\ queue = [s \in Symbols |-> <<>>]
    /\ applied = [s \in Symbols |-> <<>>]
    /\ joinable = {}

-----------------------------------------------------------------------------
(* The main thread *)

Start ==
    /\ main = "idle"
    /\ running' = TRUE
    /\ PublisherStart
    /\ UNCHANGED <<serverVars, main, adding, bookThreads, joinable, bookVars>>

\* add_symbol() of a new symbol begins to insert it into bookThreads_.
AddSymbol(s) ==
    /\ main = "idle"
    /\ s \notin bookThreads
    /\ main' = "adding"
    /\ adding' = {s}
    /\ UNCHANGED <<serverVars, publisherVars, running, bookThreads, joinable,
                   bookVars>>

\* The symbol is in the map, and its thread is started.
SymbolAdded ==
    /\ main = "adding"
    /\ main' = "idle"
    /\ adding' = {}
    /\ bookThreads' = bookThreads \cup adding
    /\ thread' = [s \in Symbols |-> IF s \in adding THEN "check" ELSE thread[s]]
    /\ joinable' = joinable \cup adding
    /\ UNCHANGED <<serverVars, publisherVars, running, queue, applied>>

\* A stop() that finds running_ false returns at once.
StopFlag ==
    /\ main = "idle"
    /\ running
    /\ running' = FALSE
    /\ main' = "publisher"
    /\ UNCHANGED <<serverVars, publisherVars, adding, bookThreads, joinable,
                   bookVars>>

StopPublisher ==
    /\ main = "publisher"
    /\ PublisherStopFlag
    /\ main' = "joinPublisher"
    /\ UNCHANGED <<serverVars, running, adding, bookThreads, joinable, bookVars>>

JoinPublisher ==
    /\ main = "joinPublisher"
    /\ PublisherJoin
    /\ main' = "joinBooks"
    /\ UNCHANGED <<serverVars, running, adding, bookThreads, joinable, bookVars>>

\* Mutant: stop() leaves the book threads alone.
JoinBooks_Detached ==
    /\ main = "joinBooks"
    /\ main' = "idle"
    /\ UNCHANGED <<serverVars, publisherVars, running, adding, bookThreads,
                   joinable, bookVars>>

JoinBooks ==
    /\ main = "joinBooks"
    /\ \A s \in joinable : thread[s] = "exited"
    /\ joinable' = {}
    /\ main' = "idle"
    /\ UNCHANGED <<serverVars, publisherVars, running, adding, bookThreads,
                   bookVars>>

\* ~Exchange(), after its own stop(), or where that stop() returns at once: a
\* std::thread destroyed while joinable terminates the program.
Destroy ==
    /\ main = "idle"
    /\ ~running
    /\ main' = IF joinable = {} THEN "destroyed" ELSE "terminated"
    /\ UNCHANGED <<serverVars, publisherVars, running, adding, bookThreads,
                   joinable, bookVars>>

-----------------------------------------------------------------------------
(* on_msg_received() and enqueue_order(), on the io_context's thread *)

\* bookThreads_.find() misses: no book has the symbol, or add_symbol() is
\* inserting into the map at the same time, a data race whose outcome is open.
Missed(s) == s \notin bookThreads \/ adding # {}

EnqueueOrder(o) ==
    \/ /\ o.symbol \in bookThreads
       /\ queue' = [queue EXCEPT ![o.symbol] = Append(@, o)]
    \/ Missed(o.symbol) /\ UNCHANGED queue

\* A full buffer reaches the exchange.  The parser rejects a message too short
\* for its type, and may reject one that is garbled.
OnMsgReceived(p) ==
    LET orders == Decode(p, FULL_MSG_LEN) IN
    /\ ReadFull(p)
    /\ \/ \E o \in orders : EnqueueOrder(o)
       \/ (\A o \in orders : o.n = 0) /\ UNCHANGED queue
    /\ UNCHANGED <<publisherVars, exchangeVars, thread, applied>>

-----------------------------------------------------------------------------
(* book_loop() *)

\* Mutant: the loop does not look at running_ again.
CheckRunning_Never(s) ==
    /\ thread[s] = "check"
    /\ thread' = [thread EXCEPT ![s] = "dequeue"]
    /\ UNCHANGED <<serverVars, publisherVars, exchangeVars, queue, applied>>

CheckRunning(s) ==
    /\ thread[s] = "check"
    /\ thread' = [thread EXCEPT ![s] = IF running THEN "dequeue" ELSE "exited"]
    /\ UNCHANGED <<serverVars, publisherVars, exchangeVars, queue, applied>>

\* try_dequeue() takes an order, and add(), cancel() or modify() and then
\* execute() apply it (OrderBook).  No other thread sees the book.
Process(s) ==
    /\ thread[s] = "dequeue"
    /\ queue[s] # <<>>
    /\ applied' = [applied EXCEPT ![s] = Append(@, Head(queue[s]))]
    /\ queue' = [queue EXCEPT ![s] = Tail(@)]
    /\ thread' = [thread EXCEPT ![s] = "check"]
    /\ UNCHANGED <<serverVars, publisherVars, exchangeVars>>

\* try_dequeue() fails, and the thread sleeps for a millisecond.
Sleep(s) ==
    /\ thread[s] = "dequeue"
    /\ queue[s] = <<>>
    /\ thread' = [thread EXCEPT ![s] = "check"]
    /\ UNCHANGED <<serverVars, publisherVars, exchangeVars, queue, applied>>

-----------------------------------------------------------------------------
Peer(p) ==
    \/ Connect(p)
    \/ \E l \in Layouts, s \in Symbols : SendMessage(p, l, s)

Server ==
    \/ ServerStart \/ ServerStop \/ AcceptError \/ AcceptAborted
    \/ \E p \in Peers : Accept(p) \/ ReadShort(p) \/ ReadEnd(p)

Call ==
    \/ Start \/ (\E s \in Registered : AddSymbol(s)) \/ SymbolAdded
    \/ StopFlag \/ StopPublisher \/ JoinPublisher \/ JoinBooks \/ Destroy

BookLoop(s) == CheckRunning(s) \/ Process(s) \/ Sleep(s)

\* Nothing happens once the exchange is destroyed or the program terminated.
Alive == main \notin {"destroyed", "terminated"}

Next ==
    /\ Alive
    /\ \/ Call
       \/ (\E p \in Peers : Peer(p)) /\ UNCHANGED <<publisherVars, exchangeVars, bookVars>>
       \/ Server /\ UNCHANGED <<publisherVars, exchangeVars, bookVars>>
       \/ \E p \in Peers : OnMsgReceived(p)
       \/ \E s \in Symbols : BookLoop(s)
       \/ (Publish \/ PublisherRun) /\ UNCHANGED <<serverVars, exchangeVars, bookVars>>

Spec == Init /\ [][Next]_vars

\* Threads run, a call that has begun goes on, and a connection that waits
\* is accepted; no peer and no caller is obliged to do anything.
FairSpec ==
    /\ Spec
    /\ \A s \in Symbols : WF_vars(Alive /\ BookLoop(s))
    /\ WF_vars(Alive /\ PublisherRun /\ UNCHANGED <<serverVars, exchangeVars, bookVars>>)
    /\ WF_vars(SymbolAdded \/ StopPublisher \/ JoinPublisher \/ JoinBooks)
    /\ \A p \in Peers :
          WF_vars(Alive /\ Accept(p) /\ UNCHANGED <<publisherVars, exchangeVars, bookVars>>)

-----------------------------------------------------------------------------
(* Properties *)

\* The orders that have reached the book of symbol s, oldest first.
Arrived(s) == applied[s] \o queue[s]

(***************************************************************************)
(* However TCP cuts the stream and whenever the server and the exchange    *)
(* are started and stopped: what reaches a book is what its peer sent for  *)
(* that symbol, at most once and in the order sent.  Other orders come     *)
(* only of a connection that sent a message of another length than the     *)
(* session's buffer.                                                       *)
(***************************************************************************)
ArrivedAsSent ==
    \A s \in Symbols : \A i \in DOMAIN Arrived(s) :
        LET o    == Arrived(s)[i]
            msgs == sent[o.peer]
        IN  IF o.n = 0
              THEN \E k \in DOMAIN msgs : msgs[k].len # FULL_MSG_LEN
              ELSE /\ o.n \in DOMAIN msgs
                   /\ o = msgs[o.n]
                   /\ o.symbol = s
                   /\ \A j \in 1..(i - 1) :
                         Arrived(s)[j].peer = o.peer => Arrived(s)[j].n < o.n

Stopped == main \in {"idle", "adding"} /\ ~running

(***************************************************************************)
(* Between stop() and the next start() no order is applied to a book and   *)
(* no event leaves the publisher's queue, although sessions go on putting  *)
(* orders into the queues and add_symbol() starts threads meanwhile.       *)
(***************************************************************************)
NetStoppedQuiet ==
    [][Stopped => applied' = applied /\ updateQueue <= updateQueue']_vars

\* ~Exchange() leaves no thread behind: "Destructor - stops all threads and
\* resources cleanly" (src/includes/exchange.h).
DestroyedCleanly == main # "terminated"

\* As long as the exchange runs, the publisher has a thread: start() after
\* stop() gives it a new one.
PublisherServed ==
    main \in {"idle", "adding"} /\ running => pubThread \in {"check", "drain"}

\* When the publisher's stop() has returned, every event published before it
\* began has left the queue.
PublishedDrained == pubThread = "none" => published - updateQueue >= publishedAtStop

\* A connection that waits is accepted, also after accept errors, unless the
\* server is stopped or the exchange destroyed before.
PeersAccepted ==
    \A p \in Peers :
        conn[p] = "connected" ~> conn[p] # "connected" \/ ~srvRunning \/ ~Alive

\* stop() returns, whatever the peers and the publishing threads do.
NetStopReturns == main = "publisher" ~> main \notin {"publisher", "joinPublisher", "joinBooks"}
=============================================================================
