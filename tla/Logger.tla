------------------------------- MODULE Logger -------------------------------
(***************************************************************************)
(* class logger (src/src/logger.cpp): threads push events into a           *)
(* concurrent queue, a worker thread writes them to a file, and the        *)
(* destructor stops the worker.                                            *)
(*                                                                         *)
(* queue_ is a moodycamel::ConcurrentQueue: one FIFO per producer, and a   *)
(* dequeue that takes the head of any of them.  With its single consumer a *)
(* failed try_dequeue() has a moment at which all FIFOs were empty, so     *)
(* try_dequeue() is one step.                                              *)
(*                                                                         *)
(* The mutex guards the notification in push(), the assignment in the      *)
(* destructor, and the worker from its test of running_ until wait_for()   *)
(* has released it: each of the three is one step.                         *)
(*                                                                         *)
(* The n-th event of a producer is the number n, and the file is kept      *)
(* apart by producer: the log promises no order between producers.         *)
(***************************************************************************)
EXTENDS Integers, Sequences

CONSTANTS
    Producers,  \* the threads that call push()
    MaxEvents   \* bound on the events of a producer

ASSUME LoggerAssumption == MaxEvents \in Nat

VARIABLES
    pushed,     \* events each producer has enqueued
    notifying,  \* producers between the enqueue and the notify of push()
    queue,      \* queue_, one FIFO per producer
    written,    \* lines handed to out_file_, by producer
    flushed,    \* how many of them are surely in the file
    worker,     \* where the worker is in run()
    did_work,   \* local of run(): something was written since the last flush
    running,    \* running_
    owner       \* where the thread that destroys the logger is in ~logger()

vars == <<pushed, notifying, queue, written, flushed, worker, did_work,
          running, owner>>

producerVars == <<pushed, notifying>>
fileVars == <<written, flushed>>

Init ==
    /\ pushed = [p \in Producers |-> 0]
    /\ notifying = {}
    /\ queue = [p \in Producers |-> <<>>]
    /\ written = [p \in Producers |-> <<>>]
    /\ flushed = [p \in Producers |-> 0]
    /\ worker = "drain"
    /\ did_work = FALSE
    /\ running = TRUE
    /\ owner = "open"

-----------------------------------------------------------------------------
(* push() *)

\* Nobody pushes into a logger that is being destroyed: every caller destroys
\* it after the threads that log were joined.
Enqueue(p) ==
    /\ owner = "open"
    /\ p \notin notifying
    /\ pushed[p] < MaxEvents
    /\ pushed' = [pushed EXCEPT ![p] = @ + 1]
    /\ queue' = [queue EXCEPT ![p] = Append(@, pushed[p] + 1)]
    /\ notifying' = notifying \cup {p}
    /\ UNCHANGED <<written, flushed, worker, did_work, running, owner>>

\* notify_one() has no effect unless the worker waits.
Notified == IF worker = "wait" THEN "drain" ELSE worker

Notify(p) ==
    /\ p \in notifying
    /\ notifying' = notifying \ {p}
    /\ worker' = Notified
    /\ UNCHANGED <<pushed, queue, written, flushed, did_work, running, owner>>

-----------------------------------------------------------------------------
(* run() *)

Flush == flushed' = [p \in Producers |-> Len(written[p])]

\* Mutant: an event left in the local variable is written a second time.
WriteEvent_Twice(p) ==
    /\ worker \in {"drain", "final"}
    /\ queue[p] # <<>>
    /\ queue' = [queue EXCEPT ![p] = Tail(@)]
    /\ written' = [written EXCEPT ![p] = @ \o <<Head(queue[p]), Head(queue[p])>>]
    /\ did_work' = (did_work \/ worker = "drain")
    /\ UNCHANGED <<producerVars, flushed, worker, running, owner>>

\* A successful try_dequeue() and the line written for it, in the loop at the
\* top of run() or in the one at its end.
WriteEvent(p) ==
    /\ worker \in {"drain", "final"}
    /\ queue[p] # <<>>
    /\ queue' = [queue EXCEPT ![p] = Tail(@)]
    /\ written' = [written EXCEPT ![p] = Append(@, Head(queue[p]))]
    /\ did_work' = (did_work \/ worker = "drain")
    /\ UNCHANGED <<producerVars, flushed, worker, running, owner>>

\* try_dequeue() found nothing.
QueueEmpty == \A p \in Producers : queue[p] = <<>>

EndDrain ==
    /\ worker = "drain"
    /\ QueueEmpty
    /\ IF did_work THEN Flush ELSE UNCHANGED flushed
    /\ did_work' = FALSE
    /\ worker' = "lock"
    /\ UNCHANGED <<producerVars, queue, written, running, owner>>

\* Mutant: run() returns from inside its loop.
CheckRunning_NoFinalDrain ==
    /\ worker = "lock"
    /\ worker' = IF running THEN "wait" ELSE "done"
    /\ UNCHANGED <<producerVars, queue, fileVars, did_work, running, owner>>

\* Mutant: the worker goes back to waiting whatever running_ says.
CheckRunning_Never ==
    /\ worker = "lock"
    /\ worker' = "wait"
    /\ UNCHANGED <<producerVars, queue, fileVars, did_work, running, owner>>

CheckRunning ==
    /\ worker = "lock"
    /\ worker' = IF running THEN "wait" ELSE "final"
    /\ UNCHANGED <<producerVars, queue, fileVars, did_work, running, owner>>

\* Mutant: wait() instead of wait_for().
Timeout_Never == FALSE /\ UNCHANGED vars

\* wait_for() returns after 100 ms, or spuriously.
Timeout ==
    /\ worker = "wait"
    /\ worker' = "drain"
    /\ UNCHANGED <<producerVars, queue, fileVars, did_work, running, owner>>

EndRun ==
    /\ worker = "final"
    /\ QueueEmpty
    /\ Flush
    /\ worker' = "done"
    /\ UNCHANGED <<producerVars, queue, written, did_work, running, owner>>

-----------------------------------------------------------------------------
(* ~logger() *)

ClearRunning ==
    /\ owner = "open"
    /\ notifying = {}
    /\ running' = FALSE
    /\ owner' = "notify"
    /\ UNCHANGED <<producerVars, queue, fileVars, worker, did_work>>

NotifyAll ==
    /\ owner = "notify"
    /\ worker' = Notified
    /\ owner' = "join"
    /\ UNCHANGED <<producerVars, queue, fileVars, did_work, running>>

\* join() returns, and the file is flushed and closed.
JoinAndClose ==
    /\ owner = "join"
    /\ worker = "done"
    /\ Flush
    /\ owner' = "closed"
    /\ UNCHANGED <<producerVars, queue, written, worker, did_work, running>>

-----------------------------------------------------------------------------
Push == \E p \in Producers : Enqueue(p) \/ Notify(p)
Run == (\E p \in Producers : WriteEvent(p)) \/ EndDrain \/ CheckRunning \/ EndRun
Destroy == ClearRunning \/ NotifyAll \/ JoinAndClose

Next == Push \/ Run \/ Timeout \/ Destroy

Spec == Init /\ [][Next]_vars

\* The worker thread runs, its wait times out, a destructor that was entered
\* goes on.  Nothing makes a producer push or the owner destroy the logger.
FairSpec ==
    /\ Spec
    /\ WF_vars(Run)
    /\ WF_vars(Timeout)
    /\ WF_vars(NotifyAll \/ JoinAndClose)

-----------------------------------------------------------------------------
(* Properties *)

\* Type invariant.
TypeOK ==
    /\ pushed \in [Producers -> 0..MaxEvents]
    /\ notifying \subseteq Producers
    /\ queue \in [Producers -> Seq(Nat)]
    /\ written \in [Producers -> Seq(Nat)]
    /\ flushed \in [Producers -> 0..MaxEvents]
    /\ worker \in {"drain", "lock", "wait", "final", "done"}
    /\ did_work \in BOOLEAN
    /\ running \in BOOLEAN
    /\ owner \in {"open", "notify", "join", "closed"}

\* The events of a producer, in the order it pushed them.
History(p) == [n \in 1..pushed[p] |-> n]

(***************************************************************************)
(* Once ~logger() has returned the file holds every event that was ever    *)
(* pushed, once, each producer's in the order it pushed them.  An event    *)
(* pushed after the worker's last look at the queue and before running_    *)
(* was cleared is only saved by the second loop of run().                  *)
(***************************************************************************)
ClosedLogComplete ==
    owner = "closed" => \A p \in Producers :
        written[p] = History(p) /\ flushed[p] = pushed[p]

(***************************************************************************)
(* An event is flushed to the file without waiting for another push() or   *)
(* for the destructor.  push() may notify while the worker is between its  *)
(* last try_dequeue() and the wait, and that notification is lost: the     *)
(* timeout of the wait is what makes up for it.                            *)
(***************************************************************************)
EventuallyFlushed ==
    \A p \in Producers : \A n \in 1..MaxEvents :
        pushed[p] >= n ~> flushed[p] >= n

\* ~logger() returns: the worker notices running_ wherever it was.
CloseReturns == owner # "open" ~> owner = "closed"
=============================================================================
