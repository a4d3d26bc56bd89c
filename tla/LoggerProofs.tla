---------------------------- MODULE LoggerProofs ----------------------------
(***************************************************************************)
(* The log is complete when the logger is closed, for any number of        *)
(* producers and events.                                                   *)
(***************************************************************************)
EXTENDS Logger, TLAPS

\* The numbers 1 to n.
UpTo(n) == [i \in 1..n |-> i]

\* Appending the next event to the queue appends it to the history.
LEMMA AppendHistory ==
    ASSUME NEW n, n \in Nat, NEW w, w \in Seq(Nat), NEW q, q \in Seq(Nat),
           w \o q = UpTo(n)
    PROVE  w \o Append(q, n + 1) = UpTo(n + 1)
<1>1. UpTo(n) \in Seq(Nat) /\ Len(UpTo(n)) = n
    BY DEF UpTo
<1>2. w \o Append(q, n + 1) = Append(w \o q, n + 1)
    OBVIOUS
<1>3. Append(UpTo(n), n + 1) = UpTo(n + 1)
    BY <1>1 DEF UpTo
<1>4. QED
    BY <1>2, <1>3

\* Moving the head of the queue to the end of the file changes no history.
LEMMA MoveHead ==
    ASSUME NEW w, w \in Seq(Nat), NEW q, q \in Seq(Nat), q # <<>>
    PROVE  Append(w, Head(q)) \o Tail(q) = w \o q
    OBVIOUS

\* A history split in two has the length of its parts.
LEMMA HistoryLength ==
    ASSUME NEW n, n \in Nat, NEW w, w \in Seq(Nat), NEW q, q \in Seq(Nat),
           w \o q = UpTo(n)
    PROVE  Len(w) + Len(q) = n
    BY DEF UpTo

-----------------------------------------------------------------------------

\* What a producer has pushed is what is written and what is queued.
HistoryKept == \A p \in Producers : written[p] \o queue[p] = UpTo(pushed[p])

\* The worker leaves its loop only for the destructor, and leaves run() only
\* with the queue empty, when nobody pushes any more.
ShutdownOrdered ==
    /\ running <=> owner = "open"
    /\ worker \in {"final", "done"} => ~running
    /\ worker = "done" => QueueEmpty
    /\ owner = "closed" =>
          worker = "done" /\ \A p \in Producers : flushed[p] = Len(written[p])

\* The inductive invariant.
LogInv == TypeOK /\ HistoryKept /\ ShutdownOrdered

\* Flushing counts no more lines than events.
LEMMA FlushTyped ==
    ASSUME TypeOK, HistoryKept
    PROVE  [p \in Producers |-> Len(written[p])] \in [Producers -> 0..MaxEvents]
<1> SUFFICES ASSUME NEW p \in Producers
             PROVE  Len(written[p]) \in 0..MaxEvents
    OBVIOUS
<1>1. /\ written[p] \in Seq(Nat)
      /\ queue[p] \in Seq(Nat)
      /\ pushed[p] \in Nat
      /\ pushed[p] <= MaxEvents
      /\ written[p] \o queue[p] = UpTo(pushed[p])
    BY LoggerAssumption DEF TypeOK, HistoryKept
<1>2. Len(written[p]) + Len(queue[p]) = pushed[p]
    BY <1>1, HistoryLength
<1>3. Len(written[p]) \in Nat /\ Len(queue[p]) \in Nat
    BY <1>1
<1>4. MaxEvents \in Nat
    BY LoggerAssumption
<1> DEFINE w == Len(written[p])
           q == Len(queue[p])
           n == pushed[p]
<1>5. w + q = n /\ w \in Nat /\ q \in Nat /\ n \in Nat /\ n <= MaxEvents
    BY <1>1, <1>2, <1>3
<1> HIDE DEF w, q, n
<1>6. w \in 0..MaxEvents
    BY <1>4, <1>5
<1>7. QED
    BY <1>6 DEF w

\* A new logger satisfies the invariant.
LEMMA InitLogInv == Init => LogInv
<1> SUFFICES ASSUME Init PROVE LogInv
    OBVIOUS
<1>1. TypeOK
  <2>1. <<>> \in Seq(Nat) /\ 0 \in 0..MaxEvents
    BY LoggerAssumption
  <2>2. /\ pushed \in [Producers -> 0..MaxEvents]
        /\ flushed \in [Producers -> 0..MaxEvents]
        /\ queue \in [Producers -> Seq(Nat)]
        /\ written \in [Producers -> Seq(Nat)]
    BY <2>1 DEF Init
  <2>3. QED
    BY <2>2 DEF Init, TypeOK
<1>2. HistoryKept
  <2>1. UpTo(0) = <<>> /\ <<>> \o <<>> = <<>>
    BY DEF UpTo
  <2>2. QED
    BY <2>1 DEF Init, HistoryKept
<1>3. ShutdownOrdered
    BY DEF Init, ShutdownOrdered
<1>4. QED
    BY <1>1, <1>2, <1>3 DEF LogInv

\* The enqueue of push() keeps the invariant.
LEMMA EnqueueStep ==
    ASSUME LogInv, NEW p \in Producers, Enqueue(p)
    PROVE  LogInv'
<1>1. TypeOK'
    BY LoggerAssumption DEF LogInv, TypeOK, Enqueue
<1>2. HistoryKept'
  <2> SUFFICES ASSUME NEW r \in Producers
               PROVE  written'[r] \o queue'[r] = UpTo(pushed'[r])
    BY DEF HistoryKept
  <2>1. /\ written[r] \in Seq(Nat)
        /\ queue[r] \in Seq(Nat)
        /\ pushed[r] \in Nat
        /\ written[r] \o queue[r] = UpTo(pushed[r])
    BY LoggerAssumption DEF LogInv, TypeOK, HistoryKept
  <2>2. CASE r = p
    <3>1. /\ written'[r] = written[r]
          /\ queue'[r] = Append(queue[r], pushed[r] + 1)
          /\ pushed'[r] = pushed[r] + 1
      BY <2>2 DEF LogInv, TypeOK, Enqueue
    <3>2. QED
      BY <2>1, <3>1, AppendHistory
  <2>3. CASE r # p
    BY <2>1, <2>3 DEF LogInv, TypeOK, Enqueue
  <2>4. QED
    BY <2>2, <2>3
<1>3. ShutdownOrdered'
    BY DEF LogInv, ShutdownOrdered, Enqueue
<1>4. QED
    BY <1>1, <1>2, <1>3 DEF LogInv

\* Taking an event from the queue and writing it keeps the invariant.
LEMMA WriteStep ==
    ASSUME LogInv, NEW p \in Producers, WriteEvent(p)
    PROVE  LogInv'
<1>1. TypeOK'
  <2>1. queue[p] \in Seq(Nat) /\ queue[p] # <<>> /\ written[p] \in Seq(Nat)
    BY DEF LogInv, TypeOK, WriteEvent
  <2>2. Tail(queue[p]) \in Seq(Nat) /\ Append(written[p], Head(queue[p])) \in Seq(Nat)
    BY <2>1
  <2>3. queue' \in [Producers -> Seq(Nat)] /\ written' \in [Producers -> Seq(Nat)]
    BY <2>2 DEF LogInv, TypeOK, WriteEvent
  <2>4. QED
    BY <2>3 DEF LogInv, TypeOK, WriteEvent, producerVars
<1>2. HistoryKept'
  <2> SUFFICES ASSUME NEW r \in Producers
               PROVE  written'[r] \o queue'[r] = UpTo(pushed'[r])
    BY DEF HistoryKept
  <2>1. /\ written[r] \in Seq(Nat)
        /\ queue[r] \in Seq(Nat)
        /\ written[r] \o queue[r] = UpTo(pushed[r])
        /\ pushed' = pushed
    BY LoggerAssumption DEF LogInv, TypeOK, HistoryKept, WriteEvent, producerVars
  <2>2. CASE r = p
    <3>1. /\ queue[r] # <<>>
          /\ queue'[r] = Tail(queue[r])
          /\ written'[r] = Append(written[r], Head(queue[r]))
      BY <2>2 DEF LogInv, TypeOK, WriteEvent
    <3>2. QED
      BY <2>1, <3>1, MoveHead
  <2>3. CASE r # p
    BY <2>1, <2>3 DEF LogInv, TypeOK, WriteEvent
  <2>4. QED
    BY <2>2, <2>3
<1>3. ShutdownOrdered'
    BY DEF LogInv, ShutdownOrdered, WriteEvent
<1>4. QED
    BY <1>1, <1>2, <1>3 DEF LogInv

\* Every step of the logger, its producers and its owner keeps the invariant.
LEMMA NextLogInv == LogInv /\ [Next]_vars => LogInv'
<1> SUFFICES ASSUME LogInv, [Next]_vars PROVE LogInv'
    OBVIOUS
<1> USE DEF LogInv
<1>1. ASSUME NEW p \in Producers, Enqueue(p) PROVE LogInv'
    BY <1>1, EnqueueStep
<1>2. ASSUME NEW p \in Producers, WriteEvent(p) PROVE LogInv'
    BY <1>2, WriteStep
<1>3. ASSUME NEW p \in Producers, Notify(p) PROVE LogInv'
    BY <1>3 DEF TypeOK, HistoryKept, ShutdownOrdered, QueueEmpty, Notify, Notified
<1>4. CASE EndDrain
  <2>1. TypeOK'
    BY <1>4, FlushTyped DEF TypeOK, EndDrain, Flush, producerVars
  <2>2. QED
    BY <1>4, <2>1 DEF HistoryKept, ShutdownOrdered, QueueEmpty, EndDrain, producerVars
<1>5. CASE CheckRunning
    BY <1>5 DEF TypeOK, HistoryKept, ShutdownOrdered, QueueEmpty, CheckRunning,
                producerVars, fileVars
<1>6. CASE Timeout
    BY <1>6 DEF TypeOK, HistoryKept, ShutdownOrdered, QueueEmpty, Timeout,
                producerVars, fileVars
<1>7. CASE EndRun
  <2>1. TypeOK'
    BY <1>7, FlushTyped DEF TypeOK, EndRun, Flush, producerVars
  <2>2. QED
    BY <1>7, <2>1 DEF HistoryKept, ShutdownOrdered, QueueEmpty, EndRun, producerVars
<1>8. CASE ClearRunning
    BY <1>8 DEF TypeOK, HistoryKept, ShutdownOrdered, QueueEmpty, ClearRunning,
                producerVars, fileVars
<1>9. CASE NotifyAll
    BY <1>9 DEF TypeOK, HistoryKept, ShutdownOrdered, QueueEmpty, NotifyAll, Notified,
                producerVars, fileVars
<1>10. CASE JoinAndClose
  <2>1. TypeOK'
    BY <1>10, FlushTyped DEF TypeOK, JoinAndClose, Flush, producerVars
  <2>2. QED
    BY <1>10, <2>1 DEF HistoryKept, ShutdownOrdered, QueueEmpty, JoinAndClose, Flush,
                       producerVars
<1>11. CASE UNCHANGED vars
    BY <1>11 DEF TypeOK, HistoryKept, ShutdownOrdered, QueueEmpty, vars
<1>12. QED
    BY <1>1, <1>2, <1>3, <1>4, <1>5, <1>6, <1>7, <1>8, <1>9, <1>10, <1>11
    DEF Next, Push, Run, Destroy

\* A closed logger's file is the producers' histories.
LEMMA ClosedIsComplete == LogInv => ClosedLogComplete
<1> SUFFICES ASSUME LogInv, owner = "closed", NEW p \in Producers
             PROVE  written[p] = History(p) /\ flushed[p] = pushed[p]
    BY DEF ClosedLogComplete
<1>1. queue[p] = <<>> /\ flushed[p] = Len(written[p])
    BY DEF LogInv, ShutdownOrdered, QueueEmpty
<1>2. /\ written[p] \in Seq(Nat)
      /\ pushed[p] \in Nat
      /\ written[p] \o queue[p] = UpTo(pushed[p])
    BY LoggerAssumption DEF LogInv, TypeOK, HistoryKept
<1>3. written[p] = UpTo(pushed[p])
    BY <1>1, <1>2
<1>4. QED
    BY <1>1, <1>2, <1>3, HistoryLength DEF UpTo, History

-----------------------------------------------------------------------------
(* The theorems *)

\* The invariant holds throughout.
LEMMA LogInvAlways == Spec => []LogInv
    BY InitLogInv, NextLogInv, PTL DEF Spec

\* ~logger() leaves every event in the file, once and in its producer's order,
\* however its steps, the producers' and the worker's interleave.
THEOREM ClosedLogIsComplete == Spec => []ClosedLogComplete
    BY LogInvAlways, ClosedIsComplete, PTL

\* No counter passes its bound and the worker, the owner and the producers are
\* where run(), ~logger() and push() can be: flushing and writing keep within
\* what was pushed only because of the rest of the invariant.
THEOREM LoggerTypeCorrect == Spec => []TypeOK
<1>1. LogInv => TypeOK
    BY DEF LogInv
<1>2. QED
    BY <1>1, LogInvAlways, PTL
=============================================================================
