--------------------------- MODULE ExchangeNoNet ----------------------------
(***************************************************************************)
(* class Exchange of src/includes/exchange_no_net.h: add_order() makes a   *)
(* book and a thread for a new symbol and applies the order on the         *)
(* caller's thread; the book's thread only polls its flag.  mutex_ guards  *)
(* the insertion and stop_all(), and nothing else: the lookups that        *)
(* add_order() does after it, and those of the book threads, go without.   *)
(*                                                                         *)
(* A lookup during another thread's insertion is a data race.  Its         *)
(* outcomes are a lookup that works and one that misses its key, where     *)
(* at() throws and the program ends.                                       *)
(***************************************************************************)
EXTENDS Naturals

CONSTANTS
    Callers,        \* threads that call add_order()
    Symbols,
    MaxCalls        \* bound on the orders of a caller

VARIABLES
    caller,     \* where each caller is in add_order(), or "idle"
    symbol,     \* the symbols of the callers' orders
    calls,      \* the orders each caller has submitted
    main,       \* the thread that stops and destroys the exchange
    mutexFree,  \* nobody holds mutex_
    books,      \* keys of books_
    running,    \* BookData::running
    thread      \* each book's thread: none, polling, exited, joined

vars == <<caller, symbol, calls, main, mutexFree, books, running, thread>>

bookVars == <<books, running, thread>>
callerVars == <<caller, symbol, calls>>

Init ==
    /\ caller = [c \in Callers |-> "idle"]
    /\ symbol \in [Callers -> Symbols]
    /\ calls = [c \in Callers |-> 0]
    /\ main = "open"
    /\ mutexFree = TRUE
    /\ books = {}
    /\ running = [s \in Symbols |-> FALSE]
    /\ thread = [s \in Symbols |-> "none"]

\* Some caller is about to insert a new key into books_.
Inserting == \E c \in Callers : caller[c] = "insert" /\ symbol[c] \notin books

\* std::terminate(), for an exception that nobody catches, or a crash.
Terminate == main' = "terminated" /\ UNCHANGED <<callerVars, mutexFree, bookVars>>

-----------------------------------------------------------------------------
(* add_order() *)

AddOrder(c, s) ==
    /\ caller[c] = "idle"
    /\ calls[c] < MaxCalls
    /\ main \in {"open", "stopped"}
    /\ caller' = [caller EXCEPT ![c] = "lock"]
    /\ symbol' = [symbol EXCEPT ![c] = s]
    /\ calls' = [calls EXCEPT ![c] = @ + 1]
    /\ UNCHANGED <<main, mutexFree, bookVars>>

Lock(c) ==
    /\ caller[c] = "lock"
    /\ mutexFree
    /\ mutexFree' = FALSE
    /\ caller' = [caller EXCEPT ![c] = "insert"]
    /\ UNCHANGED <<symbol, calls, main, bookVars>>

\* A new symbol gets its book and its thread; then the mutex is released.
Insert(c) ==
    LET s == symbol[c] IN
    /\ caller[c] = "insert"
    /\ books' = books \cup {s}
    /\ running' = IF s \in books THEN running ELSE [running EXCEPT ![s] = TRUE]
    /\ thread' = IF s \in books THEN thread ELSE [thread EXCEPT ![s] = "polling"]
    /\ mutexFree' = TRUE
    /\ caller' = [caller EXCEPT ![c] = "at"]
    /\ UNCHANGED <<symbol, calls, main>>

\* books_.at(symbol), without the mutex, and add() and execute() on the book.
At(c) ==
    /\ caller[c] = "at"
    /\ caller' = [caller EXCEPT ![c] = "idle"]
    /\ UNCHANGED <<symbol, calls, main, mutexFree, bookVars>>

\* The race: the lookup misses, or another caller is inside the same book.
AtCrashes(c) ==
    /\ caller[c] = "at"
    /\ \/ Inserting
       \/ \E d \in Callers \ {c} : caller[d] = "at" /\ symbol[d] = symbol[c]
    /\ Terminate

-----------------------------------------------------------------------------
(* run_book_thread() *)

Poll(s) ==
    /\ thread[s] = "polling"
    /\ thread' = [thread EXCEPT ![s] = IF running[s] THEN "polling" ELSE "exited"]
    /\ UNCHANGED <<callerVars, main, mutexFree, books, running>>

PollCrashes(s) == thread[s] = "polling" /\ Inserting /\ Terminate

-----------------------------------------------------------------------------
(* stop_all() and the destructor *)

\* stop_all() takes the mutex and clears the flags.
StopAll ==
    /\ main \in {"open", "stopped"}
    /\ mutexFree
    /\ mutexFree' = FALSE
    /\ main' = "joining"
    /\ running' = [s \in Symbols |-> FALSE]
    /\ UNCHANGED <<callerVars, books, thread>>

AllExited == \A s \in books : thread[s] \in {"exited", "joined"}

\* It joins every thread and returns.
JoinAll ==
    /\ main = "joining"
    /\ AllExited
    /\ thread' = [s \in Symbols |-> IF s \in books THEN "joined" ELSE thread[s]]
    /\ mutexFree' = TRUE
    /\ main' = "stopped"
    /\ UNCHANGED <<callerVars, books, running>>

\* ~Exchange(), with no caller left, is another stop_all().
Destroy ==
    /\ main \in {"open", "stopped"}
    /\ \A c \in Callers : caller[c] = "idle"
    /\ main' = "destroying"
    /\ running' = [s \in Symbols |-> FALSE]
    /\ UNCHANGED <<callerVars, mutexFree, books, thread>>

Destroyed ==
    /\ main = "destroying"
    /\ AllExited
    /\ thread' = [s \in Symbols |-> IF s \in books THEN "joined" ELSE thread[s]]
    /\ main' = "destroyed"
    /\ UNCHANGED <<callerVars, mutexFree, books, running>>

-----------------------------------------------------------------------------
Next ==
    /\ main # "terminated"
    /\ \/ \E c \in Callers :
             \/ \E s \in Symbols : AddOrder(c, s)
             \/ Lock(c) \/ Insert(c) \/ At(c) \/ AtCrashes(c)
       \/ \E s \in Symbols : Poll(s) \/ PollCrashes(s)
       \/ StopAll \/ JoinAll \/ Destroy \/ Destroyed

Spec == Init /\ [][Next]_vars

-----------------------------------------------------------------------------
(* Properties *)

\* Callers on several threads get through add_order() without a crash:
\* "Concurrent add_order test completed without crash"
\* (src/tests/test_exchange.cpp).
NeverCrashes == main # "terminated"
=============================================================================
