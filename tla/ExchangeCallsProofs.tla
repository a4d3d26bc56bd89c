------------------------ MODULE ExchangeCallsProofs -------------------------
(***************************************************************************)
(* The exchange under callers that keep to no order, for any clients,      *)
(* tickers and orders: which threads a stop() leaves unjoined, which       *)
(* buckets a start() leaves unserved, and that a stopped exchange applies  *)
(* no order.                                                               *)
(***************************************************************************)
EXTENDS ExchangeCalls, TLAPS

-----------------------------------------------------------------------------
(* The state that LocalExchange declares *)

Live == {"check", "dequeue", "find"}

\* Where the main thread is, and whether running_ is set there.
MainInv ==
    /\ main \in {"constructed", "registering", "open", "joining", "stopped",
                 "destroyed", "terminated"}
    /\ running \in BOOLEAN
    /\ running <=> main \in {"registering", "open"}

\* The buckets of bucketThreads_ are those that have, or had, a thread.
ThreadInv ==
    /\ thread \in [Buckets -> {"none", "check", "dequeue", "find", "exited"}]
    /\ created \subseteq Buckets
    /\ \A b \in Buckets : thread[b] # "none" <=> b \in created

\* A client that is about to insert a bucket has one.
RouteInv ==
    /\ client \in [Clients -> {"idle", "bucket", "book", "enqueue"}]
    /\ incoming = [c \in Clients |-> incoming[c]]
    /\ \A c \in Clients : client[c] = "bucket" => BucketOf(c) \in Buckets

\* A thread that stop() has joined, or that was started since, is in no loop
\* iteration.
QuietInv ==
    main = "stopped" => \A b \in Buckets : thread[b] \in {"none", "check", "exited"}

BaseInv == MainInv /\ ThreadInv /\ RouteInv /\ QuietInv

\* The steps of the exchange and its callers.
CallStep ==
    \/ Next
    \/ \E sym \in Registered : AddSymbolAnytime(sym)
    \/ \E c \in Clients, sym \in Symbols : ReceiveAnytime(c, sym)
    \/ StopFlagAnytime \/ Restart \/ Destroy

\* What a step may do to buckets and threads: a new bucket has a new thread,
\* and a live thread does not end while running_ is set.
ThreadsStep ==
    /\ created \subseteq created'
    /\ \A b \in created' \ created : thread'[b] = "check"
    /\ \A b \in created : running /\ thread[b] \in Live => thread'[b] \in Live

\* The steps of the main thread from one call to the next.
MainStep ==
    \/ main' = main
    \/ main = "constructed" /\ main' = "registering" /\ created' = created
    \/ main = "registering" /\ main' = "open"
    \/ main \in {"registering", "open"} /\ main' = "joining" /\ created' = created
    \/ Join
    \/ main = "stopped" /\ main' = "open" /\ created' = created
    \/ Destroy

\* A symbol with a bucket has one of Buckets.
LEMMA BucketOfSymbol ==
    ASSUME NEW sym \in Symbols, GetBucket(sym) # NoBucket
    PROVE  GetBucket(sym) \in Buckets
    BY DEF Buckets

\* Every step keeps the invariant and does to threads and the main thread only
\* what ThreadsStep and MainStep allow.
LEMMA BaseStep ==
    ASSUME BaseInv, CallStep
    PROVE  BaseInv' /\ ThreadsStep /\ MainStep
<1> USE DEF BaseInv, MainInv, ThreadInv, RouteInv, QuietInv, ThreadsStep, MainStep,
            Live, BucketOf, exchangeVars, clientVars, threadVars
<1> HIDE DEF Buckets, GetBucket
<1>1. CASE Start
    BY <1>1 DEF Start
<1>2. ASSUME NEW sym \in Registered, AddSymbol(sym)
      PROVE  BaseInv' /\ ThreadsStep /\ MainStep
  <2>1. GetBucket(sym) \in Buckets
    BY <1>2, BucketOfSymbol, LocalExchangeAssumption DEF AddSymbol
  <2>2. QED
    BY <2>1, <1>2 DEF AddSymbol
<1>3. CASE Open
    BY <1>3 DEF Open
<1>4. CASE StopFlag
    BY <1>4 DEF StopFlag
<1>5. CASE Join
    BY <1>5 DEF Join
<1>6. ASSUME NEW c \in Clients, NEW sym \in Symbols, Receive(c, sym)
      PROVE  BaseInv' /\ ThreadsStep /\ MainStep
    BY <1>6, BucketOfSymbol DEF Receive
<1>7. ASSUME NEW c \in Clients, EmplaceBucket(c)
      PROVE  BaseInv' /\ ThreadsStep /\ MainStep
    BY <1>7 DEF EmplaceBucket
<1>8. ASSUME NEW c \in Clients, EmplaceBook(c)
      PROVE  BaseInv' /\ ThreadsStep /\ MainStep
    BY <1>8 DEF EmplaceBook
<1>9. ASSUME NEW c \in Clients, Enqueue(c)
      PROVE  BaseInv' /\ ThreadsStep /\ MainStep
    BY <1>9 DEF Enqueue
<1>10. ASSUME NEW b \in Buckets, CheckRunning(b)
       PROVE  BaseInv' /\ ThreadsStep /\ MainStep
    BY <1>10 DEF CheckRunning
<1>11. ASSUME NEW b \in Buckets, TryDequeue(b)
       PROVE  BaseInv' /\ ThreadsStep /\ MainStep
    BY <1>11 DEF TryDequeue
<1>12. ASSUME NEW b \in Buckets, Sleep(b)
       PROVE  BaseInv' /\ ThreadsStep /\ MainStep
    BY <1>12 DEF Sleep
<1>13. ASSUME NEW b \in Buckets, Apply(b)
       PROVE  BaseInv' /\ ThreadsStep /\ MainStep
    BY <1>13 DEF Apply
<1>14. ASSUME NEW sym \in Registered, AddSymbolAnytime(sym)
       PROVE  BaseInv' /\ ThreadsStep /\ MainStep
  <2>1. GetBucket(sym) \in Buckets
    BY <1>14, BucketOfSymbol, LocalExchangeAssumption DEF AddSymbolAnytime
  <2>2. QED
    BY <2>1, <1>14 DEF AddSymbolAnytime, NotStarted
<1>15. ASSUME NEW c \in Clients, NEW sym \in Symbols, ReceiveAnytime(c, sym)
       PROVE  BaseInv' /\ ThreadsStep /\ MainStep
    BY <1>15, BucketOfSymbol DEF ReceiveAnytime, NotStarted
<1>16. CASE StopFlagAnytime
    BY <1>16 DEF StopFlagAnytime
<1>17. CASE Restart
    BY <1>17 DEF Restart
<1>18. CASE Destroy
    BY <1>18 DEF Destroy, NotStarted
<1>19. QED
    BY <1>1, <1>2, <1>3, <1>4, <1>5, <1>6, <1>7, <1>8, <1>9, <1>10, <1>11, <1>12,
       <1>13, <1>14, <1>15, <1>16, <1>17, <1>18
       DEF CallStep, Next, Route, BookLoop

-----------------------------------------------------------------------------
(* The inductive invariant *)

\* The buckets born while running_ was false include those that may escape a
\* stop(); outside start() and stop() every unjoined bucket is one of them, and
\* every other bucket has been joined; inside, every other bucket that no
\* stop() has joined has a live thread.
CallsInv ==
    /\ BaseInv
    /\ joinable \subseteq created
    /\ escaping \subseteq idleBorn
    /\ NotStarted => joinable \subseteq idleBorn /\ created \subseteq idleBorn \cup retired
    /\ main = "terminated" => joinable \cap idleBorn # {}
    /\ running => \A b \in created \ (idleBorn \cup retired) : thread[b] \in Live

\* The inductive invariant gives the invariants that the run checks.
LEMMA CallsInvImplies == CallsInv => UnjoinedAreIdleBorn /\ BucketsServed
    BY DEF CallsInv, UnjoinedAreIdleBorn, BucketsServed, Live

\* A new exchange has no bucket.
LEMMA InitCallsInv == CallsInit => CallsInv
<1> SUFFICES ASSUME CallsInit PROVE CallsInv
    OBVIOUS
<1> USE DEF CallsInit, Init
<1>1. MainInv /\ ThreadInv /\ QuietInv
    BY DEF MainInv, ThreadInv, QuietInv
<1>2. RouteInv
    BY DEF RouteInv
<1>3. QED
    BY <1>1, <1>2 DEF CallsInv, BaseInv, NotStarted

\* A thread started in a step is that of a bucket inserted in it.
LEMMA SpawnedAreNew ==
    ASSUME ThreadInv, ThreadInv', ThreadsStep
    PROVE  Spawned = created' \ created
    BY DEF ThreadInv, ThreadsStep, Spawned

\* A step, with the records that TrackThreads keeps, keeps the invariant.
LEMMA CallsNextInv ==
    ASSUME CallsInv, CallsNext
    PROVE  CallsInv'
<1>1. main # "terminated" /\ CallStep /\ TrackThreads
    BY DEF CallsNext, CallStep, Alive
<1>2. BaseInv' /\ ThreadsStep /\ MainStep
    BY <1>1, BaseStep DEF CallsInv
<1>3. Spawned = created' \ created
    BY <1>2, SpawnedAreNew DEF CallsInv, BaseInv
<1>4. PICK joined \in JoinedSets : joinable' = (joinable \cup Spawned) \ joined
                                   /\ retired' = retired \cup joined
    BY <1>1 DEF TrackThreads
<1>5. /\ escaping' = IF main' = "joining" THEN escaping \cup Spawned ELSE {}
      /\ idleBorn' = IF running THEN idleBorn ELSE idleBorn \cup Spawned
    BY <1>1 DEF TrackThreads
<1> DEFINE S == Spawned
<1> HIDE DEF S
<1>6. MainInv /\ MainInv' /\ created \subseteq created'
    BY <1>2 DEF CallsInv, BaseInv, ThreadsStep
<1>7. joinable' \subseteq created'
    BY <1>3, <1>4, <1>6 DEF CallsInv
<1>8. escaping' \subseteq idleBorn'
  <2>1. CASE main' = "joining" /\ main = "joining"
    BY <2>1, <1>5, <1>6 DEF CallsInv, MainInv
  <2>2. CASE main' = "joining" /\ main # "joining"
    <3>1. created' = created
      BY <2>2, <1>2 DEF MainStep, Join, Destroy
    <3>2. QED
      BY <3>1, <1>3, <1>5 DEF CallsInv
  <2>3. CASE main' # "joining"
    BY <2>3, <1>5
  <2>4. QED
    BY <2>1, <2>2, <2>3
<1>9. CASE Join
  <2>1. PICK missed \in SUBSET escaping : joined = created \ missed
    BY <1>9, <1>4 DEF JoinedSets
  <2>2. created' = created /\ main = "joining" /\ main' = "stopped"
    BY <1>9 DEF Join
  <2>3. joinable' \subseteq idleBorn' /\ created' \subseteq idleBorn' \cup retired'
    BY <2>1, <2>2, <1>3, <1>4, <1>5 DEF CallsInv
  <2>4. ~running'
    BY <2>2, <1>6 DEF MainInv
  <2>5. QED
    BY <2>2, <2>3, <2>4, <1>2, <1>7, <1>8 DEF CallsInv, NotStarted
<1>10. CASE ~Join
  <2>1. joined = {}
    BY <1>10, <1>4 DEF JoinedSets
  <2>2. joinable' = joinable \cup Spawned /\ retired' = retired
    BY <2>1, <1>4
  <2>3. ASSUME NotStarted'
        PROVE  joinable' \subseteq idleBorn' /\ created' \subseteq idleBorn' \cup retired'
    <3>1. NotStarted /\ ~running
      BY <2>3, <1>2, <1>6, <1>10 DEF MainStep, MainInv, NotStarted, Destroy
    <3>2. QED
      BY <3>1, <2>2, <1>3, <1>5 DEF CallsInv
  <2>4. ASSUME main' = "terminated"
        PROVE  joinable' \cap idleBorn' # {}
    <3>1. Destroy
      BY <2>4, <1>1, <1>2, <1>10 DEF MainStep
    <3>2. joinable # {} /\ NotStarted /\ joinable \subseteq idleBorn
      BY <3>1, <2>4 DEF Destroy, CallsInv
    <3>3. QED
      BY <3>2, <2>2, <1>5
  <2>5. ASSUME running', NEW b \in created' \ (idleBorn' \cup retired')
        PROVE  thread'[b] \in Live
    <3>1. CASE b \in created' \ created
      BY <3>1, <1>2 DEF ThreadsStep, Live
    <3>2. CASE b \in created /\ running
      <4>1. b \in created \ (idleBorn \cup retired)
        BY <3>2, <2>2, <2>5, <1>5
      <4>2. thread[b] \in Live
        BY <4>1, <3>2 DEF CallsInv
      <4>3. QED
        BY <4>2, <3>2, <1>2 DEF ThreadsStep
    <3>3. CASE b \in created /\ ~running
      <4>1. NotStarted
        BY <3>3, <2>5, <1>2, <1>6, <1>10 DEF MainStep, MainInv, NotStarted, Destroy
      <4>2. QED
        BY <4>1, <3>3, <2>2, <2>5, <1>5 DEF CallsInv
    <3>4. QED
      BY <3>1, <3>2, <3>3, <1>6 DEF MainInv
  <2>6. QED
    BY <2>3, <2>4, <2>5, <1>2, <1>7, <1>8 DEF CallsInv
<1>11. QED
    BY <1>9, <1>10

\* So does a step that changes nothing.
LEMMA NextCallsInv == CallsInv /\ [CallsNext]_callVars => CallsInv'
<1> SUFFICES ASSUME CallsInv, [CallsNext]_callVars PROVE CallsInv'
    OBVIOUS
<1>1. CASE UNCHANGED callVars
    BY <1>1 DEF callVars, vars, CallsInv, BaseInv, MainInv, ThreadInv, RouteInv,
           QuietInv, BucketOf, NotStarted
<1>2. QED
    BY <1>1, CallsNextInv

\* The invariant holds throughout.
LEMMA CallsInvAlways == CallsSpec => []CallsInv
    BY InitCallsInv, NextCallsInv, PTL DEF CallsSpec

-----------------------------------------------------------------------------
(* The theorems *)

\* Whatever the order of the calls, a std::thread is joinable outside start()
\* and stop() only if add_symbol() or a message created its bucket there, and
\* only then can the destructor terminate the program.
THEOREM UnjoinedThreadsAreIdleBorn == CallsSpec => []UnjoinedAreIdleBorn
    BY CallsInvAlways, CallsInvImplies, PTL

\* While the exchange runs, a bucket without a live thread was created while it
\* did not run, or an earlier stop() has joined its thread.
THEOREM OtherBucketsServed == CallsSpec => []BucketsServed
    BY CallsInvAlways, CallsInvImplies, PTL

\* From stop() to the next start() no order is applied to a book.
THEOREM NothingAppliedWhileStopped == CallsSpec => StoppedBooksUntouched
<1>1. ASSUME CallsInv, [CallsNext]_callVars, main = "stopped"
      PROVE  applied' = applied
  <2>1. CASE UNCHANGED callVars
    BY <2>1 DEF callVars, vars
  <2>2. CASE CallsNext
    <3>1. \A b \in Buckets : thread[b] # "find"
      BY <1>1 DEF CallsInv, BaseInv, QuietInv
    <3>2. \A b \in Buckets : ~Apply(b)
      BY <3>1 DEF Apply
    <3>3. QED
      BY <2>2, <3>2 DEF CallsNext, Next, Start, AddSymbol, Open, StopFlag, Join, Route,
         Receive, EmplaceBucket, EmplaceBook, Enqueue, BookLoop, CheckRunning,
         TryDequeue, Sleep, AddSymbolAnytime, ReceiveAnytime, StopFlagAnytime, Restart,
         Destroy, exchangeVars, clientVars, threadVars
  <2>3. QED
    BY <1>1, <2>1, <2>2
<1>2. CallsInv /\ [CallsNext]_callVars => [main = "stopped" => applied' = applied]_callVars
    BY <1>1
<1>3. QED
    BY <1>2, CallsInvAlways, PTL DEF CallsSpec, StoppedBooksUntouched
=============================================================================
