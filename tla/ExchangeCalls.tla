--------------------------- MODULE ExchangeCalls ----------------------------
(***************************************************************************)
(* The Exchange of local_exchange.cpp under callers that keep to no order: *)
(* add_symbol() at any time outside stop(), messages at any time, stop()   *)
(* while symbols are missing or a client is inside on_msg_received(),      *)
(* another start(), and the destructor once the clients are out.  The      *)
(* functions themselves are those of LocalExchange.                        *)
(*                                                                         *)
(* A bucket's thread is started by the call that creates the bucket and by *)
(* no other, and ends when it finds running_ false.  stop() joins threads  *)
(* only if it finds running_ true.                                         *)
(***************************************************************************)
EXTENDS LocalExchange

VARIABLES
    joinable,   \* the buckets whose std::thread has not been joined
    escaping,   \* the buckets created since stop() began to join threads
    idleBorn,   \* history: the buckets created while running_ was false
    retired     \* history: the buckets that a stop() has joined

callVars == <<vars, joinable, escaping, idleBorn, retired>>

CallsInit ==
    Init /\ joinable = {} /\ escaping = {} /\ idleBorn = {} /\ retired = {}

-----------------------------------------------------------------------------
(* Calls that LocalExchange's callers do not make *)

NotStarted == main \in {"constructed", "stopped"}

\* add_symbol() before start(), among the clients, or after stop().  One that
\* inserts a book while the bucket's thread is in find() is left out: it may
\* make the thread drop an order, as in Apply, and nothing else.
AddSymbolAnytime(sym) ==
    LET b == GetBucket(sym) IN
    /\ NotStarted \/ main = "open"
    /\ b # NoBucket
    /\ sym \notin books[b]
    /\ thread[b] # "find"
    /\ created' = created \cup {b}
    /\ thread' = IF b \in created THEN thread ELSE [thread EXCEPT ![b] = "check"]
    /\ books' = [books EXCEPT ![b] = @ \cup {sym}]
    /\ UNCHANGED <<exchangeVars, queue, order, applied, clientVars>>

\* on_msg_received() while symbols are still being added, inside stop(), or on
\* an exchange that is not running.
ReceiveAnytime(c, sym) ==
    /\ NotStarted \/ main \in {"registering", "joining"}
    /\ client[c] = "idle"
    /\ Len(accepted[c]) < MaxOrders
    /\ GetBucket(sym) # NoBucket
    /\ client' = [client EXCEPT ![c] = "bucket"]
    /\ incoming' = [incoming EXCEPT ![c] =
          [symbol |-> sym, client |-> c, n |-> Len(accepted[c]) + 1]]
    /\ UNCHANGED <<exchangeVars, created, books, queue, threadVars, accepted>>

\* stop() while symbols are missing, or a client is inside on_msg_received().
StopFlagAnytime ==
    /\ \/ main = "registering"
       \/ main = "open" /\ \E c \in Clients : client[c] # "idle"
    /\ running' = FALSE
    /\ main' = "joining"
    /\ UNCHANGED <<created, books, queue, threadVars, clientVars>>

Restart ==
    /\ main = "stopped"
    /\ running' = TRUE
    /\ main' = "open"
    /\ UNCHANGED <<created, books, queue, threadVars, clientVars>>

\* Mutant: the destructor does not call stop() first.
Destroy_NoStop ==
    /\ NotStarted \/ main = "open"
    /\ \A c \in Clients : client[c] = "idle"
    /\ main' = IF joinable = {} THEN "destroyed" ELSE "terminated"
    /\ UNCHANGED <<running, created, books, queue, threadVars, clientVars>>

\* ~Exchange(), after its own stop(), or where that stop() returns at once:
\* a std::thread destroyed while joinable terminates the program.
Destroy ==
    /\ NotStarted
    /\ \A c \in Clients : client[c] = "idle"
    /\ main' = IF joinable = {} THEN "destroyed" ELSE "terminated"
    /\ UNCHANGED <<running, created, books, queue, threadVars, clientVars>>

-----------------------------------------------------------------------------
\* Buckets whose thread is started in this step.
Spawned == {b \in Buckets : thread[b] = "none" /\ thread'[b] # "none"}

\* The buckets a step may join.  One that a client inserts while stop() goes
\* through bucketThreads_, a data race, may be missed.
JoinedSets ==
    IF Join THEN {created \ missed : missed \in SUBSET escaping} ELSE {{}}

\* A thread is joinable from its start until stop() joins it.
TrackThreads ==
    /\ \E joined \in JoinedSets :
          /\ joinable' = (joinable \cup Spawned) \ joined
          /\ retired' = retired \cup joined
    /\ escaping' = IF main' = "joining" THEN escaping \cup Spawned ELSE {}
    /\ idleBorn' = IF running THEN idleBorn ELSE idleBorn \cup Spawned

\* Nothing happens once the exchange is destroyed or the program terminated.
Alive == main \notin {"destroyed", "terminated"}

CallsNext ==
    /\ Alive
    /\ \/ Next
       \/ \E sym \in Registered : AddSymbolAnytime(sym)
       \/ \E c \in Clients, sym \in Symbols : ReceiveAnytime(c, sym)
       \/ StopFlagAnytime \/ Restart \/ Destroy
    /\ TrackThreads

CallsSpec == CallsInit /\ [][CallsNext]_callVars

\* As FairSpec; a client inside on_msg_received() goes on as well.
FairCallsSpec ==
    /\ CallsSpec
    /\ \A b \in Buckets : WF_callVars(Alive /\ BookLoop(b) /\ TrackThreads)
    /\ WF_callVars(Join /\ TrackThreads)
    /\ \A c \in Clients :
          WF_callVars(/\ Alive
                      /\ EmplaceBucket(c) \/ EmplaceBook(c) \/ Enqueue(c)
                      /\ TrackThreads)

-----------------------------------------------------------------------------
(* Properties *)

(***************************************************************************)
(* Whenever the exchange is not running, the only threads that nobody has  *)
(* joined are those of buckets created while it was not running: without   *)
(* an add_symbol() or a message outside start() and stop(), the destructor *)
(* finds nothing joinable and the program is not terminated.               *)
(***************************************************************************)
UnjoinedAreIdleBorn ==
    /\ NotStarted => joinable \subseteq idleBorn
    /\ main = "terminated" => joinable \cap idleBorn # {}

(***************************************************************************)
(* While the exchange runs, every bucket has a live thread, except those   *)
(* created while it did not run and those that an earlier stop() retired:  *)
(* start() starts no threads.                                              *)
(***************************************************************************)
BucketsServed ==
    running => \A b \in created \ (idleBorn \cup retired) :
                   thread[b] \in {"check", "dequeue", "find"}

(***************************************************************************)
(* Between stop() and the next start() no order is applied to a book, also *)
(* when messages keep coming and create buckets with threads of their own: *)
(* the caller may read or destroy what the books and the logger hold.      *)
(***************************************************************************)
StoppedBooksUntouched ==
    [][main = "stopped" => applied' = applied]_callVars

\* A bucket's backlog is worked off as long as the exchange runs, except in
\* the buckets that start() leaves without a thread.
ServedBacklogCleared ==
    \A b \in Buckets :
        Pending(b) ~> ~Pending(b) \/ ~running \/ b \in idleBorn \cup retired

\* stop() returns, also when clients are still inside on_msg_received().
StopAlwaysReturns == main = "joining" ~> main = "stopped"
=============================================================================
