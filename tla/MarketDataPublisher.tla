------------------------ MODULE MarketDataPublisher -------------------------
(***************************************************************************)
(* class MarketDataPublisher (src/src/market_data_publisher.cpp): a queue  *)
(* of events and a worker that drains it.  The worker discards what it     *)
(* takes ("no real sending"), so an event is its place in the queue.       *)
(*                                                                         *)
(* start() and stop() are called by one thread, the exchange's.  Nothing   *)
(* in the repository calls publish_...(); whoever does is the environment. *)
(***************************************************************************)
EXTENDS Naturals

CONSTANT MaxPublished    \* bound on the events published

ASSUME PublisherAssumption == MaxPublished \in Nat

VARIABLES
    pubRunning,     \* running_
    pubThread,      \* where thread_ is in run(): "none" without a thread
    updateQueue,    \* number of events in updateQueue_
    published,      \* history: number of events published
    publishedAtStop \* history: published when stop() cleared running_

publisherVars ==
    <<pubRunning, pubThread, updateQueue, published, publishedAtStop>>

PublisherInit ==
    /\ pubRunning = FALSE
    /\ pubThread = "none"
    /\ updateQueue = 0
    /\ published = 0
    /\ publishedAtStop = 0

-----------------------------------------------------------------------------
(* start() and stop() *)

\* A second start() finds running_ set and does nothing.
PublisherStart ==
    /\ pubRunning' = TRUE
    /\ pubThread' = IF pubRunning THEN pubThread ELSE "check"
    /\ UNCHANGED <<updateQueue, published, publishedAtStop>>

\* The first half of a stop() that finds running_ set.
PublisherStopFlag ==
    /\ pubRunning
    /\ pubRunning' = FALSE
    /\ publishedAtStop' = published
    /\ UNCHANGED <<pubThread, updateQueue, published>>

\* The second half: join().
PublisherJoin ==
    /\ pubThread = "exited"
    /\ pubThread' = "none"
    /\ UNCHANGED <<pubRunning, updateQueue, published, publishedAtStop>>

-----------------------------------------------------------------------------
(* publish_...(), and run() *)

Publish ==
    /\ published < MaxPublished
    /\ published' = published + 1
    /\ updateQueue' = updateQueue + 1
    /\ UNCHANGED <<pubRunning, pubThread, publishedAtStop>>

\* Mutant: the worker leaves without its final drain.
CheckPublisher_NoFinalDrain ==
    /\ pubThread = "check"
    /\ pubThread' = IF pubRunning THEN "drain" ELSE "exited"
    /\ UNCHANGED <<pubRunning, updateQueue, published, publishedAtStop>>

CheckPublisher ==
    /\ pubThread = "check"
    /\ pubThread' = IF pubRunning THEN "drain" ELSE "final"
    /\ UNCHANGED <<pubRunning, updateQueue, published, publishedAtStop>>

\* A successful try_dequeue().
DrainOne ==
    /\ pubThread \in {"drain", "final"}
    /\ updateQueue > 0
    /\ updateQueue' = updateQueue - 1
    /\ UNCHANGED <<pubRunning, pubThread, published, publishedAtStop>>

\* Mutant: the worker returns once the queue is empty.
Drained_Returns ==
    /\ pubThread \in {"drain", "final"}
    /\ updateQueue = 0
    /\ pubThread' = "exited"
    /\ UNCHANGED <<pubRunning, updateQueue, published, publishedAtStop>>

\* try_dequeue() fails: the worker sleeps for 100 ms, or returns from run().
Drained ==
    /\ pubThread \in {"drain", "final"}
    /\ updateQueue = 0
    /\ pubThread' = IF pubThread = "drain" THEN "check" ELSE "exited"
    /\ UNCHANGED <<pubRunning, updateQueue, published, publishedAtStop>>

PublisherRun == CheckPublisher \/ DrainOne \/ Drained
=============================================================================
