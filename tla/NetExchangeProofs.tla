------------------------- MODULE NetExchangeProofs --------------------------
(***************************************************************************)
(* The networked exchange, for any peers, symbols, messages and published  *)
(* events.  Its stop(): the publisher's thread is there while the exchange *)
(* runs, and leaves no event behind that was published before stop(); from *)
(* stop() to the next start() no thread is at work.  Its sessions: the     *)
(* orders of a peer reach the books as they were sent.                     *)
(***************************************************************************)
EXTENDS NetExchange, TLAPS

-----------------------------------------------------------------------------
(* The inductive invariant *)

\* Where the main thread is tells whether the publisher runs and where its
\* thread may be.
PublisherInv ==
    /\ running \in BOOLEAN
    /\ pubRunning \in BOOLEAN
    /\ main \in {"idle", "adding", "publisher", "joinPublisher", "joinBooks",
                 "destroyed", "terminated"}
    /\ main \notin {"idle", "adding"} => ~running
    /\ pubRunning <=> running \/ main = "publisher"
    /\ pubRunning => pubThread \in {"check", "drain"}
    /\ main = "joinPublisher" => pubThread \in {"check", "drain", "final", "exited"}
    /\ ~pubRunning /\ main # "joinPublisher" => pubThread = "none"

\* Events leave the queue one by one, and a worker that has returned has taken
\* all that were published before stop().
QueueInv ==
    /\ updateQueue \in Nat
    /\ published \in Nat
    /\ publishedAtStop \in Nat
    /\ publishedAtStop <= published
    /\ pubThread \in {"none", "exited"} => published - updateQueue >= publishedAtStop

\* A book thread that may run can be joined, and none is inside its loop when
\* stop() has returned.
BooksInv ==
    /\ thread \in [Symbols -> {"none", "check", "dequeue", "exited"}]
    /\ \A s \in Symbols : thread[s] \in {"check", "dequeue"} => s \in joinable
    /\ main \in {"idle", "adding"} /\ ~running => \A s \in Symbols : thread[s] # "dequeue"

NetInv == PublisherInv /\ QueueInv /\ BooksInv

\* The inductive invariant gives the invariants that the run checks.
LEMMA NetInvImplies ==
    NetInv => PublisherServed /\ PublishedDrained
    BY DEF NetInv, PublisherInv, QueueInv, PublisherServed, PublishedDrained

\* A new exchange satisfies the invariant.
LEMMA InitNetInv == Init => NetInv
<1> SUFFICES ASSUME Init PROVE NetInv
    OBVIOUS
<1>1. /\ running = FALSE /\ main = "idle" /\ joinable = {}
      /\ thread = [s \in Symbols |-> "none"]
      /\ pubRunning = FALSE /\ pubThread = "none"
      /\ updateQueue = 0 /\ published = 0 /\ publishedAtStop = 0
    BY DEF Init, PublisherInit
<1>2. PublisherInv
    BY <1>1 DEF PublisherInv
<1>3. QueueInv
    BY <1>1 DEF QueueInv
<1>4. BooksInv
    BY <1>1 DEF BooksInv
<1>5. QED
    BY <1>2, <1>3, <1>4 DEF NetInv

\* Steps of the peers and the server leave the invariant's variables alone.
LEMMA ElsewhereNetInv ==
    ASSUME NetInv, UNCHANGED <<publisherVars, exchangeVars, thread>>
    PROVE  NetInv'
    BY DEF publisherVars, exchangeVars, NetInv, PublisherInv, QueueInv, BooksInv

\* Calls keep the invariant.
LEMMA CallNetInv ==
    ASSUME NetInv, Call
    PROVE  NetInv'
<1> USE DEF NetInv, PublisherInv, QueueInv, BooksInv, bookVars
<1>1. CASE Start
    BY <1>1 DEF Start, PublisherStart
<1>2. ASSUME NEW s \in Registered, AddSymbol(s) PROVE NetInv'
    BY <1>2 DEF AddSymbol, publisherVars
<1>3. CASE SymbolAdded
    BY <1>3 DEF SymbolAdded, publisherVars
<1>4. CASE StopFlag
    BY <1>4 DEF StopFlag, publisherVars
<1>5. CASE StopPublisher
  <2>1. /\ main = "publisher" /\ main' = "joinPublisher" /\ ~running /\ running' = running
        /\ pubRunning /\ pubRunning' = FALSE
        /\ pubThread \in {"check", "drain"} /\ pubThread' = pubThread
        /\ publishedAtStop' = published
        /\ UNCHANGED <<updateQueue, published, thread, joinable>>
    BY <1>5 DEF StopPublisher, PublisherStopFlag
  <2>2. PublisherInv'
    BY <2>1
  <2>3. QueueInv'
    BY <2>1
  <2>4. BooksInv'
    BY <2>1
  <2>5. QED
    BY <2>2, <2>3, <2>4
<1>6. CASE JoinPublisher
    BY <1>6 DEF JoinPublisher, PublisherJoin
<1>7. CASE JoinBooks
    BY <1>7 DEF JoinBooks, publisherVars
<1>8. CASE Destroy
    BY <1>8 DEF Destroy, publisherVars
<1>9. QED
    BY <1>1, <1>2, <1>3, <1>4, <1>5, <1>6, <1>7, <1>8 DEF Call

\* So do publishers and the publisher's worker.
LEMMA WorkerNetInv ==
    ASSUME NetInv, Publish \/ PublisherRun, UNCHANGED <<serverVars, exchangeVars, bookVars>>
    PROVE  NetInv'
<1> USE DEF NetInv, PublisherInv, QueueInv, BooksInv, exchangeVars, bookVars
<1>1. CASE Publish
    BY <1>1 DEF Publish
<1>2. CASE CheckPublisher
    BY <1>2 DEF CheckPublisher
<1>3. CASE DrainOne
    BY <1>3 DEF DrainOne
<1>4. CASE Drained
    BY <1>4 DEF Drained
<1>5. QED
    BY <1>1, <1>2, <1>3, <1>4 DEF PublisherRun

\* A book thread looks at running_ before it goes into an iteration.
LEMMA BookLoopNetInv ==
    ASSUME NetInv, NEW s \in Symbols, BookLoop(s)
    PROVE  NetInv'
<1>1. UNCHANGED <<publisherVars, exchangeVars>>
    BY DEF BookLoop, CheckRunning, Process, Sleep
<1>2. PublisherInv' /\ QueueInv'
    BY <1>1 DEF publisherVars, exchangeVars, NetInv, PublisherInv, QueueInv
<1>3. \/ thread[s] = "check"
         /\ thread' = [thread EXCEPT ![s] = IF running THEN "dequeue" ELSE "exited"]
      \/ thread[s] = "dequeue" /\ thread' = [thread EXCEPT ![s] = "check"]
    BY DEF BookLoop, CheckRunning, Process, Sleep
<1>4. BooksInv'
    BY <1>1, <1>3 DEF exchangeVars, NetInv, BooksInv
<1>5. QED
    BY <1>2, <1>4 DEF NetInv

\* Every step keeps the invariant.
LEMMA NextNetInv == NetInv /\ [Next]_vars => NetInv'
<1> SUFFICES ASSUME NetInv, [Next]_vars PROVE NetInv'
    OBVIOUS
<1>1. CASE Call
    BY <1>1, CallNetInv
<1>2. CASE UNCHANGED <<publisherVars, exchangeVars, thread>>
    BY <1>2, ElsewhereNetInv
<1>3. ASSUME NEW p \in Peers, OnMsgReceived(p) PROVE NetInv'
    BY <1>3, <1>2 DEF OnMsgReceived
<1>4. ASSUME NEW s \in Symbols, BookLoop(s) PROVE NetInv'
    BY <1>4, BookLoopNetInv
<1>5. CASE (Publish \/ PublisherRun) /\ UNCHANGED <<serverVars, exchangeVars, bookVars>>
    BY <1>5, WorkerNetInv
<1>6. CASE UNCHANGED vars
    BY <1>6, <1>2 DEF vars, bookVars
<1>7. QED
    BY <1>1, <1>2, <1>3, <1>4, <1>5, <1>6 DEF Next, bookVars

\* The invariant holds throughout.
LEMMA NetInvAlways == Spec => []NetInv
    BY InitNetInv, NextNetInv, PTL DEF Spec

-----------------------------------------------------------------------------
(* What reaches the books: the inductive invariant *)

Messages ==
    [peer : Peers, n : Nat \ {0}, type : MessageTypes, symbol : Symbols,
     at : Nat, len : Nat \ {0}]
Garbage == [peer : Peers, n : {0}, symbol : Symbols]
Arrivals == Messages \cup Garbage

NetTypes ==
    /\ conn \in [Peers -> {"none", "connected", "reading", "closed"}]
    /\ sent \in [Peers -> Seq(Messages)]
    /\ bytesRead \in [Peers -> Nat]
    /\ queue \in [Symbols -> Seq(Arrivals)]
    /\ applied \in [Symbols -> Seq(Arrivals)]

\* A peer's messages are numbered, and lie in the stream one behind the other.
StreamOK(p) ==
    /\ \A i \in 1..Len(sent[p]) :
          /\ sent[p][i].n = i
          /\ sent[p][i].peer = p
          /\ sent[p][i].at + sent[p][i].len <= StreamEnd(p)
          /\ i < Len(sent[p]) => sent[p][i + 1].at = sent[p][i].at + sent[p][i].len
    /\ \A i, j \in 1..Len(sent[p]) :
          i < j => sent[p][i].at + sent[p][i].len <= sent[p][j].at

AllFull(p) == \A i \in 1..Len(sent[p]) : sent[p][i].len = FULL_MSG_LEN

\* A session of messages as long as its buffer reads from where one starts.
InStep(p) ==
    AllFull(p) /\ conn[p] # "closed" =>
       \/ bytesRead[p] = StreamEnd(p)
       \/ \E i \in 1..Len(sent[p]) : sent[p][i].at = bytesRead[p]

\* An order at the book of s is garbage of a stream whose messages do not all
\* fill the buffer, or a message for s from the part of the stream read.
Genuine(o, s) ==
    IF o.n = 0 THEN ~AllFull(o.peer)
    ELSE /\ o.n \in 1..Len(sent[o.peer])
         /\ o = sent[o.peer][o.n]
         /\ o.symbol = s
         /\ o.at < bytesRead[o.peer]

AllGenuine(s) == \A i \in 1..Len(Arrived(s)) : Genuine(Arrived(s)[i], s)

\* A message is behind all that came from its peer before.
InSequence(s) ==
    \A i, j \in 1..Len(Arrived(s)) :
       /\ j < i
       /\ Arrived(s)[i].n # 0
       /\ Arrived(s)[j].peer = Arrived(s)[i].peer
       => Arrived(s)[j].n < Arrived(s)[i].n

ArrivalInv ==
    /\ NetTypes
    /\ \A p \in Peers : StreamOK(p) /\ InStep(p)
    /\ \A s \in Symbols : AllGenuine(s) /\ InSequence(s)

\* An append, element by element.
LEMMA Appended ==
    ASSUME NEW S, NEW q \in Seq(S), NEW x \in S
    PROVE  /\ Append(q, x) \in Seq(S)
           /\ Len(Append(q, x)) = Len(q) + 1
           /\ \A i \in 1..Len(q) : Append(q, x)[i] = q[i]
           /\ Append(q, x)[Len(q) + 1] = x
    OBVIOUS

\* An append to the second of two sequences is one to both.
LEMMA JoinedAppend ==
    ASSUME NEW S, NEW a \in Seq(S), NEW b \in Seq(S), NEW x \in S
    PROVE  a \o Append(b, x) = Append(a \o b, x)
    OBVIOUS

\* The head of the second may as well be the last of the first.
LEMMA HeadMoves ==
    ASSUME NEW S, NEW a \in Seq(S), NEW b \in Seq(S), b # <<>>
    PROVE  /\ Head(b) \in S /\ Tail(b) \in Seq(S)
           /\ Append(a, Head(b)) \o Tail(b) = a \o b
    OBVIOUS

\* The stream ends behind the last message.
LEMMA EndOfStream ==
    ASSUME NEW p \in Peers, sent[p] \in Seq(Messages)
    PROVE  /\ StreamEnd(p) \in Nat
           /\ Len(sent[p]) = 0 => StreamEnd(p) = 0
           /\ Len(sent[p]) # 0 =>
                StreamEnd(p) = sent[p][Len(sent[p])].at + sent[p][Len(sent[p])].len
<1>1. CASE sent[p] = <<>>
    BY <1>1 DEF StreamEnd
<1>2. CASE sent[p] # <<>>
  <2>1. Len(sent[p]) \in Nat \ {0} /\ sent[p][Len(sent[p])] \in Messages
    BY <1>2
  <2>2. StreamEnd(p) = sent[p][Len(sent[p])].at + sent[p][Len(sent[p])].len
    BY <1>2 DEF StreamEnd, Last
  <2>3. QED
    BY <2>1, <2>2 DEF Messages
<1>3. QED
    BY <1>1, <1>2

\* The invariant gives the property that the run checks.
LEMMA ArrivalInvImplies == ArrivalInv => ArrivedAsSent
<1> SUFFICES ASSUME ArrivalInv,
                    NEW s \in Symbols, NEW i \in DOMAIN Arrived(s)
             PROVE  LET o    == Arrived(s)[i]
                        msgs == sent[o.peer]
                    IN  IF o.n = 0
                          THEN \E k \in DOMAIN msgs : msgs[k].len # FULL_MSG_LEN
                          ELSE /\ o.n \in DOMAIN msgs
                               /\ o = msgs[o.n]
                               /\ o.symbol = s
                               /\ \A j \in 1..(i - 1) :
                                     Arrived(s)[j].peer = o.peer => Arrived(s)[j].n < o.n
    BY DEF ArrivedAsSent
<1> DEFINE A == Arrived(s)
<1>1. A \in Seq(Arrivals)
    BY DEF ArrivalInv, NetTypes, Arrived
<1>2. i \in 1..Len(A) /\ A[i] \in Arrivals /\ Len(A) \in Nat
    BY <1>1
<1>3. A[i].peer \in Peers
    BY <1>2 DEF Arrivals, Messages, Garbage
<1>4. DOMAIN sent[A[i].peer] = 1..Len(sent[A[i].peer])
    BY <1>3 DEF ArrivalInv, NetTypes
<1>5. Genuine(A[i], s) /\ InSequence(s)
    BY <1>2 DEF ArrivalInv, AllGenuine
<1>6. CASE A[i].n = 0
    BY <1>4, <1>5, <1>6 DEF Genuine, AllFull
<1>7. CASE A[i].n # 0
  <2>1. /\ A[i].n \in DOMAIN sent[A[i].peer]
        /\ A[i] = sent[A[i].peer][A[i].n]
        /\ A[i].symbol = s
    BY <1>4, <1>5, <1>7 DEF Genuine
  <2>2. ASSUME NEW j \in 1..(i - 1), A[j].peer = A[i].peer PROVE A[j].n < A[i].n
    <3>1. j \in 1..Len(A) /\ j < i
        BY <1>2
    <3>2. QED
        BY <3>1, <2>2, <1>2, <1>5, <1>7 DEF InSequence
  <2>3. QED
    BY <1>7, <2>1, <2>2
<1>8. QED
    BY <1>6, <1>7

\* Nothing has been sent and nothing has arrived at first.
LEMMA InitArrivalInv == Init => ArrivalInv
<1> SUFFICES ASSUME Init PROVE ArrivalInv
    OBVIOUS
<1>1. /\ conn = [p \in Peers |-> "none"]
      /\ sent = [p \in Peers |-> <<>>]
      /\ bytesRead = [p \in Peers |-> 0]
      /\ queue = [s \in Symbols |-> <<>>]
      /\ applied = [s \in Symbols |-> <<>>]
    BY DEF Init, ServerInit
<1>2. NetTypes
    BY <1>1 DEF NetTypes
<1>3. ASSUME NEW p \in Peers PROVE StreamOK(p) /\ InStep(p)
  <2>1. sent[p] = <<>> /\ Len(sent[p]) = 0 /\ StreamEnd(p) = 0 /\ bytesRead[p] = 0
    BY <1>1 DEF StreamEnd
  <2>2. QED
    BY <2>1 DEF StreamOK, InStep
<1>4. ASSUME NEW s \in Symbols PROVE AllGenuine(s) /\ InSequence(s)
  <2>1. Len(Arrived(s)) = 0
    BY <1>1 DEF Arrived
  <2>2. QED
    BY <2>1 DEF AllGenuine, InSequence
<1>5. QED
    BY <1>2, <1>3, <1>4 DEF ArrivalInv

\* Sessions may end or begin: what was sent and what arrived is as before.
LEMMA SessionArrivalInv ==
    ASSUME ArrivalInv,
           conn' \in [Peers -> {"none", "connected", "reading", "closed"}],
           \A p \in Peers : conn'[p] # "closed" => conn[p] # "closed",
           UNCHANGED <<sent, bytesRead, queue, applied>>
    PROVE  ArrivalInv'
<1>1. NetTypes'
    BY DEF ArrivalInv, NetTypes
<1>2. ASSUME NEW p \in Peers PROVE StreamOK(p)' /\ InStep(p)'
    BY DEF ArrivalInv, StreamOK, InStep, StreamEnd, AllFull
<1>3. ASSUME NEW s \in Symbols PROVE AllGenuine(s)' /\ InSequence(s)'
  <2>1. Arrived(s)' = Arrived(s)
    BY DEF Arrived
  <2>2. \A o : Genuine(o, s)' <=> Genuine(o, s)
    BY DEF Genuine, AllFull
  <2>3. AllGenuine(s) /\ InSequence(s)
    BY DEF ArrivalInv
  <2>4. AllGenuine(s)'
    BY <2>1, <2>2, <2>3 DEF AllGenuine
  <2>5. InSequence(s)'
    BY <2>1, <2>3 DEF InSequence
  <2>6. QED
    BY <2>4, <2>5
<1>4. QED
    BY <1>1, <1>2, <1>3 DEF ArrivalInv

\* What has arrived stays genuine while its peers send and its sessions read.
LEMMA ArrivedStays ==
    ASSUME ArrivalInv, NetTypes',
           \A p \in Peers : /\ Len(sent[p]) <= Len(sent'[p])
                            /\ \A i \in 1..Len(sent[p]) : sent'[p][i] = sent[p][i]
                            /\ bytesRead[p] <= bytesRead'[p],
           NEW s \in Symbols, NEW o \in Arrivals, Genuine(o, s)
    PROVE  Genuine(o, s)'
<1>1. o.peer \in Peers
    BY DEF Arrivals, Messages, Garbage
<1>2. Len(sent[o.peer]) \in Nat /\ Len(sent'[o.peer]) \in Nat
    BY <1>1 DEF ArrivalInv, NetTypes
<1>3. CASE o.n = 0
  <2>1. PICK k \in 1..Len(sent[o.peer]) : sent[o.peer][k].len # FULL_MSG_LEN
    BY <1>3 DEF Genuine, AllFull
  <2>2. k \in 1..Len(sent'[o.peer]) /\ sent'[o.peer][k] = sent[o.peer][k]
    BY <1>1, <1>2
  <2>3. QED
    BY <1>3, <2>1, <2>2 DEF Genuine, AllFull
<1>4. CASE o.n # 0
  <2>1. /\ o.n \in 1..Len(sent[o.peer]) /\ o = sent[o.peer][o.n]
        /\ o.symbol = s /\ o.at < bytesRead[o.peer]
    BY <1>4 DEF Genuine
  <2>2. o.n \in 1..Len(sent'[o.peer]) /\ o = sent'[o.peer][o.n]
    BY <1>1, <1>2, <2>1
  <2>3. o.at < bytesRead'[o.peer]
    <3>1. o.at \in Nat
        BY <1>4 DEF Arrivals, Messages, Garbage
    <3>2. bytesRead[o.peer] \in Nat /\ bytesRead'[o.peer] \in Nat
        BY <1>1 DEF ArrivalInv, NetTypes
    <3>3. QED
        BY <1>1, <2>1, <3>1, <3>2
  <2>4. QED
    BY <1>4, <2>1, <2>2, <2>3 DEF Genuine
<1>5. QED
    BY <1>3, <1>4

\* In particular while sessions read and nobody sends.
LEMMA ReadStays ==
    ASSUME ArrivalInv, NetTypes', sent' = sent,
           \A p \in Peers : bytesRead[p] <= bytesRead'[p],
           NEW s \in Symbols, NEW o \in Arrivals, Genuine(o, s)
    PROVE  Genuine(o, s)'
<1>1. \A p \in Peers : Len(sent[p]) \in Nat
    BY DEF ArrivalInv, NetTypes
<1>2. QED
    BY <1>1, ArrivedStays

\* A message that a peer sends goes to the end of its stream.
LEMMA SendArrivalInv ==
    ASSUME ArrivalInv, NEW p \in Peers, NEW l \in Layouts, NEW symbol \in Symbols,
           SendMessage(p, l, symbol), UNCHANGED bookVars
    PROVE  ArrivalInv'
<1> DEFINE q == sent[p]
           m == [peer |-> p, n |-> Len(q) + 1, type |-> l[1], symbol |-> symbol,
                 at |-> StreamEnd(p), len |-> l[2]]
<1>1. q \in Seq(Messages) /\ Len(q) \in Nat
    BY DEF ArrivalInv, NetTypes
<1>2. m \in Messages
  <2>1. l[1] \in MessageTypes /\ l[2] \in Nat \ {0}
    BY NetworkServerAssumption
  <2>2. StreamEnd(p) \in Nat
    BY <1>1, EndOfStream
  <2>3. QED
    BY <1>1, <2>1, <2>2 DEF Messages
<1>3. /\ sent' = [sent EXCEPT ![p] = Append(q, m)]
      /\ UNCHANGED <<conn, bytesRead, queue, applied>>
      /\ conn[p] # "closed"
    BY DEF SendMessage, bookVars
<1>4. sent \in [Peers -> Seq(Messages)] /\ bytesRead \in [Peers -> Nat]
    BY DEF ArrivalInv, NetTypes
<1> HIDE DEF m, q
<1>5. /\ sent'[p] = Append(q, m) /\ sent'[p] \in Seq(Messages)
      /\ Len(sent'[p]) = Len(q) + 1
      /\ \A i \in 1..Len(q) : sent'[p][i] = q[i]
      /\ sent'[p][Len(q) + 1] = m
  <2>1. sent'[p] = Append(q, m)
    BY <1>3, <1>4
  <2>2. QED
    BY <2>1, <1>1, <1>2, Appended
<1>6. \A r \in Peers : r # p => sent'[r] = sent[r]
    BY <1>3, <1>4
<1>7. NetTypes'
  <2>1. sent' \in [Peers -> Seq(Messages)]
    BY <1>3, <1>4, <1>5
  <2>2. QED
    BY <2>1, <1>3 DEF ArrivalInv, NetTypes
<1>8. /\ m.n = Len(q) + 1 /\ m.peer = p /\ m.at = StreamEnd(p)
      /\ m.len \in Nat /\ m.at \in Nat
    BY <1>2 DEF m, Messages
<1>9. StreamEnd(p)' = StreamEnd(p) + m.len
  <2>1. sent'[p] # <<>>
    BY <1>1, <1>5
  <2>2. StreamEnd(p)' = sent'[p][Len(sent'[p])].at + sent'[p][Len(sent'[p])].len
    BY <2>1 DEF StreamEnd, Last
  <2>3. QED
    BY <2>2, <1>5, <1>8
<1>10. ASSUME NEW r \in Peers PROVE StreamOK(r)' /\ InStep(r)'
  <2>1. CASE r # p
    <3>1. sent'[r] = sent[r] /\ bytesRead' = bytesRead /\ conn' = conn
        BY <2>1, <1>3, <1>6
    <3>2. StreamEnd(r)' = StreamEnd(r)
        BY <3>1 DEF StreamEnd
    <3>3. StreamOK(r) /\ InStep(r)
        BY DEF ArrivalInv
    <3>4. QED
        BY <3>1, <3>2, <3>3 DEF StreamOK, InStep, AllFull
  <2>2. CASE r = p
    <3>1. StreamOK(p) /\ InStep(p)
        BY DEF ArrivalInv
    <3>2. \A i \in 1..Len(q) : /\ q[i] \in Messages /\ q[i].at \in Nat /\ q[i].len \in Nat
                               /\ q[i].at + q[i].len <= StreamEnd(p)
        <4>1. \A i \in 1..Len(q) : q[i].at + q[i].len <= StreamEnd(p)
            BY <3>1 DEF StreamOK, q
        <4>2. \A i \in 1..Len(q) : q[i] \in Messages
            BY <1>1
        <4>3. \A m1 \in Messages : m1.at \in Nat /\ m1.len \in Nat
            BY DEF Messages
        <4>4. QED
            BY <4>1, <4>2, <4>3
    <3>3. ASSUME NEW i \in 1..Len(sent'[p])
          PROVE  /\ sent'[p][i].n = i
                 /\ sent'[p][i].peer = p
                 /\ sent'[p][i].at + sent'[p][i].len <= StreamEnd(p)'
                 /\ i < Len(sent'[p]) =>
                       sent'[p][i + 1].at = sent'[p][i].at + sent'[p][i].len
        <4>1. CASE i = Len(q) + 1
            BY <4>1, <1>5, <1>8, <1>9, <1>1
        <4>2. CASE i # Len(q) + 1
            <5>1. i \in 1..Len(q) /\ sent'[p][i] = q[i]
                BY <4>2, <1>1, <1>5
            <5>2. q[i].n = i /\ q[i].peer = p
                BY <5>1, <3>1 DEF StreamOK, q
            <5>3. q[i].at + q[i].len <= StreamEnd(p)'
                BY <5>1, <3>2, <1>8, <1>9
            <5>4. CASE i = Len(q)
                <6>1. sent'[p][i + 1] = m
                    BY <5>4, <1>5
                <6>2. StreamEnd(p) = q[i].at + q[i].len
                    BY <5>4, <5>1, <1>1, EndOfStream DEF q
                <6>3. QED
                    BY <6>1, <6>2, <5>1, <5>2, <5>3, <1>8
            <5>5. CASE i # Len(q)
                <6>1. i + 1 \in 1..Len(q) /\ i < Len(q)
                    BY <5>1, <5>5, <1>1
                <6>2. q[i + 1].at = q[i].at + q[i].len
                    BY <6>1, <5>1, <3>1 DEF StreamOK, q
                <6>3. QED
                    BY <6>1, <6>2, <5>1, <5>2, <5>3, <1>5
            <5>6. QED
                BY <5>4, <5>5
        <4>3. QED
            BY <4>1, <4>2
    <3>4. ASSUME NEW i \in 1..Len(sent'[p]), NEW j \in 1..Len(sent'[p]), i < j
          PROVE  sent'[p][i].at + sent'[p][i].len <= sent'[p][j].at
        <4>1. i \in 1..Len(q) /\ sent'[p][i] = q[i]
            BY <3>4, <1>1, <1>5
        <4>2. CASE j = Len(q) + 1
            BY <4>1, <4>2, <3>2, <1>5, <1>8
        <4>3. CASE j # Len(q) + 1
            <5>1. j \in 1..Len(q) /\ sent'[p][j] = q[j]
                BY <4>3, <1>1, <1>5
            <5>2. QED
                BY <3>4, <4>1, <5>1, <3>1 DEF StreamOK, q
        <4>4. QED
            BY <4>2, <4>3
    <3>5. StreamOK(p)'
        BY <3>3, <3>4 DEF StreamOK
    <3>6. ASSUME AllFull(p)', conn'[p] # "closed"
          PROVE  \/ bytesRead'[p] = StreamEnd(p)'
                 \/ \E i \in 1..Len(sent'[p]) : sent'[p][i].at = bytesRead'[p]
        <4>1. AllFull(p)
            <5>1. ASSUME NEW i \in 1..Len(q) PROVE q[i].len = FULL_MSG_LEN
                <6>1. i \in 1..Len(sent'[p]) /\ sent'[p][i] = q[i]
                    BY <1>1, <1>5
                <6>2. QED
                    BY <6>1, <3>6 DEF AllFull
            <5>2. QED
                BY <5>1 DEF AllFull, q
        <4>2. CASE bytesRead[p] = StreamEnd(p)
            <5>1. Len(q) + 1 \in 1..Len(sent'[p]) /\ sent'[p][Len(q) + 1].at = bytesRead'[p]
                BY <4>2, <1>1, <1>3, <1>5, <1>8
            <5>2. QED
                BY <5>1
        <4>3. ASSUME NEW i \in 1..Len(q), q[i].at = bytesRead[p]
              PROVE  \E k \in 1..Len(sent'[p]) : sent'[p][k].at = bytesRead'[p]
            <5>1. i \in 1..Len(sent'[p]) /\ sent'[p][i] = q[i]
                BY <1>1, <1>5
            <5>2. QED
                BY <5>1, <4>3, <1>3
        <4>4. QED
            BY <4>1, <4>2, <4>3, <3>1, <1>3 DEF InStep, q
    <3>7. QED
        BY <2>2, <3>5, <3>6 DEF InStep
  <2>3. QED
    BY <2>1, <2>2
<1>11. ASSUME NEW s \in Symbols PROVE AllGenuine(s)' /\ InSequence(s)'
  <2>1. Arrived(s)' = Arrived(s)
    BY <1>3 DEF Arrived
  <2>2. AllGenuine(s) /\ InSequence(s) /\ Arrived(s) \in Seq(Arrivals)
    BY DEF ArrivalInv, NetTypes, Arrived
  <2>3. \A r \in Peers : /\ Len(sent[r]) <= Len(sent'[r])
                         /\ \A i \in 1..Len(sent[r]) : sent'[r][i] = sent[r][i]
                         /\ bytesRead[r] <= bytesRead'[r]
    <3>1. \A r \in Peers : Len(sent[r]) \in Nat /\ bytesRead[r] \in Nat
        BY <1>4
    <3>2. QED
        BY <3>1, <1>3, <1>5, <1>6 DEF q
  <2>4. ASSUME NEW i \in 1..Len(Arrived(s)) PROVE Genuine(Arrived(s)[i], s)'
    <3>1. Arrived(s)[i] \in Arrivals /\ Genuine(Arrived(s)[i], s)
        BY <2>2 DEF AllGenuine
    <3>2. ASSUME NEW o \in Arrivals, Genuine(o, s) PROVE Genuine(o, s)'
        BY <3>2, <2>3, <1>7, ArrivedStays
    <3>3. QED
        BY <3>1, <3>2, <2>1
  <2>5. QED
    BY <2>1, <2>2, <2>4 DEF AllGenuine, InSequence
<1>12. QED
    BY <1>7, <1>10, <1>11 DEF ArrivalInv

\* An order that a full buffer holds is new to its peer's stream: garbage only
\* of messages of other lengths, and a message behind all that have arrived.
LEMMA DecodeGenuine ==
    ASSUME ArrivalInv, NEW p \in Peers, conn[p] = "reading",
           FULL_MSG_LEN \in ReadLengths(p), NEW o \in Decode(p, FULL_MSG_LEN)
    PROVE  /\ o \in Arrivals
           /\ o.peer = p
           /\ IF o.n = 0 THEN ~AllFull(p)
              ELSE /\ o.n \in 1..Len(sent[p])
                   /\ o = sent[p][o.n]
                   /\ o.at = bytesRead[p]
<1> DEFINE q == sent[p]
           at  == {i \in 1..Len(q) : q[i].at = bytesRead[p]}
<1>1. q \in Seq(Messages) /\ Len(q) \in Nat
    BY DEF ArrivalInv, NetTypes
<1>2. CASE \E i \in at : o = q[i]
  <2>1. PICK i \in at : o = q[i]
    BY <1>2
  <2>2. i \in 1..Len(q) /\ q[i] \in Messages /\ q[i].at = bytesRead[p]
    BY <2>1, <1>1
  <2>3. q[i].n = i /\ q[i].peer = p
    BY <2>2 DEF ArrivalInv, StreamOK
  <2>4. o.n = i /\ i # 0
    BY <2>1, <2>2, <2>3, <1>1
  <2>5. QED
    BY <2>1, <2>2, <2>3, <2>4 DEF Arrivals
<1>3. ASSUME \A i \in at : ~(MinLen(q[i].type) <= q[i].len) /\ ~(FULL_MSG_LEN < MinLen(q[i].type)),
             NEW symbol \in Symbols, o = [peer |-> p, n |-> 0, symbol |-> symbol]
      PROVE  o \in Arrivals /\ o.peer = p /\ o.n = 0 /\ ~AllFull(p)
  <2>1. o \in Arrivals /\ o.peer = p /\ o.n = 0
    BY <1>3 DEF Arrivals, Garbage
  <2>2. ASSUME AllFull(p) PROVE at = {}
    <3>1. ASSUME NEW i \in at PROVE FALSE
        <4>1. q[i] \in Messages /\ q[i].len = FULL_MSG_LEN
            BY <2>2, <1>1 DEF AllFull
        <4>2. MinLen(q[i].type) \in Int /\ FULL_MSG_LEN \in Int
            <5>1. q[i].type \in MessageTypes
                BY <4>1 DEF Messages
            <5>2. BASE_LEN \in Int /\ FULL_MSG_LEN \in Int
                BY OrderParserAssumption DEF BASE_LEN, FULL_MSG_LEN
            <5>3. \A t \in MessageTypes : MinLen(t) \in Int
                BY <5>2 DEF MessageTypes, MinLen, TYPE_UPDATE, TYPE_CANCEL
            <5>4. QED
                BY <5>1, <5>2, <5>3
        <4>3. QED
            BY <4>1, <4>2, <1>3
    <3>2. QED
        BY <3>1
  <2>3. bytesRead[p] # StreamEnd(p)
    <3>1. ASSUME bytesRead[p] = StreamEnd(p) PROVE FALSE
        <4>1. Unread(p) = 0 /\ FULL_MSG_LEN \in Nat
            <5>1. StreamEnd(p) \in Nat
                BY <1>1, EndOfStream
            <5>2. QED
                BY <3>1, <5>1, OrderParserAssumption DEF Unread, FULL_MSG_LEN
        <4>2. FULL_MSG_LEN > 0
            BY OrderParserAssumption DEF FULL_MSG_LEN
        <4>3. QED
            BY <4>1, <4>2 DEF ReadLengths
    <3>2. QED
        BY <3>1
  <2>4. InStep(p)
    BY DEF ArrivalInv
  <2>5. ~AllFull(p)
    BY <2>2, <2>3, <2>4 DEF InStep
  <2>6. QED
    BY <2>1, <2>5
<1>4. \/ \E i \in at : o = q[i]
      \/ /\ \A i \in at : /\ ~(MinLen(q[i].type) <= q[i].len)
                          /\ ~(FULL_MSG_LEN < MinLen(q[i].type))
         /\ \E symbol \in Symbols : o = [peer |-> p, n |-> 0, symbol |-> symbol]
    BY DEF Decode, Garbled
<1>5. QED
    BY <1>2, <1>3, <1>4

\* A full read moves to where the next message starts, if all are as long.
LEMMA FullReadInStep ==
    ASSUME ArrivalInv, NEW p \in Peers, ReadFull(p), NEW r \in Peers
    PROVE  StreamOK(r)' /\ InStep(r)'
<1>1. /\ UNCHANGED <<conn, sent>> /\ bytesRead \in [Peers -> Nat]
      /\ bytesRead' = [bytesRead EXCEPT ![p] = @ + FULL_MSG_LEN]
      /\ FULL_MSG_LEN \in ReadLengths(p)
    BY DEF ReadFull, ArrivalInv, NetTypes
<1>2. FULL_MSG_LEN \in Nat /\ FULL_MSG_LEN > 0
    BY OrderParserAssumption DEF FULL_MSG_LEN
<1>3. StreamOK(r) /\ InStep(r) /\ sent[r] \in Seq(Messages)
    BY DEF ArrivalInv, NetTypes
<1>4. StreamEnd(r)' = StreamEnd(r)
    BY <1>1 DEF StreamEnd
<1>5. StreamOK(r)'
    BY <1>1, <1>3, <1>4 DEF StreamOK
<1>6. ASSUME AllFull(r)', conn'[r] # "closed"
      PROVE  \/ bytesRead'[r] = StreamEnd(r)'
             \/ \E i \in 1..Len(sent'[r]) : sent'[r][i].at = bytesRead'[r]
  <2>1. AllFull(r) /\ conn[r] # "closed"
    BY <1>1, <1>6 DEF AllFull
  <2>2. CASE r # p
    BY <2>1, <2>2, <1>1, <1>3, <1>4 DEF InStep
  <2>3. CASE r = p
    <3>1. bytesRead'[p] = bytesRead[p] + FULL_MSG_LEN
        BY <1>1
    <3>2. bytesRead[p] # StreamEnd(p)
        <4>1. ASSUME bytesRead[p] = StreamEnd(p) PROVE FALSE
            <5>1. StreamEnd(p) \in Nat
                BY <1>3, <2>3, EndOfStream
            <5>2. Unread(p) = 0
                BY <4>1, <5>1 DEF Unread
            <5>3. QED
                BY <5>2, <1>1, <1>2 DEF ReadLengths
        <4>2. QED
            BY <4>1
    <3>3. PICK i \in 1..Len(sent[p]) : sent[p][i].at = bytesRead[p]
        BY <2>1, <2>3, <3>2, <1>3 DEF InStep
    <3>4. sent[p][i].len = FULL_MSG_LEN
        BY <2>1, <2>3 DEF AllFull
    <3>5. Len(sent[p]) \in Nat
        BY <1>3, <2>3
    <3>6. CASE i = Len(sent[p])
        <4>1. StreamEnd(p) = sent[p][i].at + sent[p][i].len
            BY <3>3, <3>5, <3>6, <1>3, <2>3, EndOfStream
        <4>2. QED
            BY <4>1, <3>1, <3>3, <3>4, <1>4, <2>3
    <3>7. CASE i # Len(sent[p])
        <4>1. i < Len(sent[p]) /\ i + 1 \in 1..Len(sent[p])
            BY <3>3, <3>5, <3>7
        <4>2. sent[p][i + 1].at = sent[p][i].at + sent[p][i].len
            BY <4>1, <1>3, <2>3 DEF StreamOK
        <4>3. QED
            BY <4>1, <4>2, <3>1, <3>3, <3>4, <1>1, <2>3
    <3>8. QED
        BY <3>6, <3>7
  <2>4. QED
    BY <2>2, <2>3
<1>7. QED
    BY <1>5, <1>6 DEF InStep

\* A full buffer that reaches the exchange adds at most its order to one book.
LEMMA ReceiveArrivalInv ==
    ASSUME ArrivalInv, NEW p \in Peers, OnMsgReceived(p)
    PROVE  ArrivalInv'
<1>1. /\ ReadFull(p) /\ applied' = applied /\ sent' = sent /\ conn' = conn
      /\ bytesRead' = [bytesRead EXCEPT ![p] = @ + FULL_MSG_LEN]
      /\ conn[p] = "reading" /\ FULL_MSG_LEN \in ReadLengths(p)
    BY DEF OnMsgReceived, ReadFull
<1>2. FULL_MSG_LEN \in Nat /\ FULL_MSG_LEN > 0
    BY OrderParserAssumption DEF FULL_MSG_LEN
<1>3. NetTypes
    BY DEF ArrivalInv
<1>4. /\ bytesRead' \in [Peers -> Nat]
      /\ \A r \in Peers : bytesRead[r] \in Nat /\ bytesRead'[r] \in Nat
                          /\ bytesRead[r] <= bytesRead'[r]
      /\ bytesRead[p] < bytesRead'[p]
    BY <1>1, <1>2, <1>3 DEF NetTypes
<1>5. \A r \in Peers : StreamOK(r)' /\ InStep(r)'
    BY <1>1, FullReadInStep
<1>6. CASE queue' = queue
  <2>1. NetTypes'
    BY <1>1, <1>3, <1>4, <1>6 DEF NetTypes
  <2>2. ASSUME NEW s \in Symbols PROVE AllGenuine(s)' /\ InSequence(s)'
    <3>1. Arrived(s)' = Arrived(s)
        BY <1>1, <1>6 DEF Arrived
    <3>2. AllGenuine(s) /\ InSequence(s) /\ Arrived(s) \in Seq(Arrivals)
        BY DEF ArrivalInv, NetTypes, Arrived
    <3>3. ASSUME NEW i \in 1..Len(Arrived(s)) PROVE Genuine(Arrived(s)[i], s)'
        <4>1. Arrived(s)[i] \in Arrivals /\ Genuine(Arrived(s)[i], s)
            BY <3>2 DEF AllGenuine
        <4>2. ASSUME NEW o \in Arrivals, Genuine(o, s) PROVE Genuine(o, s)'
            BY <4>2, <2>1, <1>1, <1>3, <1>4, ReadStays
        <4>3. QED
            BY <4>1, <4>2, <3>1
    <3>4. QED
        BY <3>1, <3>2, <3>3 DEF AllGenuine, InSequence
  <2>3. QED
    BY <2>1, <2>2, <1>5 DEF ArrivalInv
<1>7. ASSUME NEW o \in Decode(p, FULL_MSG_LEN),
             queue' = [queue EXCEPT ![o.symbol] = Append(@, o)]
      PROVE  ArrivalInv'
  <2>1. /\ o \in Arrivals /\ o.peer = p
        /\ IF o.n = 0 THEN ~AllFull(p)
           ELSE /\ o.n \in 1..Len(sent[p])
                /\ o = sent[p][o.n]
                /\ o.at = bytesRead[p]
    BY <1>1, DecodeGenuine
  <2>2. o.symbol \in Symbols
    BY <2>1 DEF Arrivals, Messages, Garbage
  <2>3. queue \in [Symbols -> Seq(Arrivals)] /\ applied \in [Symbols -> Seq(Arrivals)]
    BY <1>3 DEF NetTypes
  <2>4. /\ queue'[o.symbol] = Append(queue[o.symbol], o)
        /\ \A s \in Symbols : s # o.symbol => queue'[s] = queue[s]
    BY <1>7, <2>2, <2>3
  <2>5. NetTypes'
    <3>1. Append(queue[o.symbol], o) \in Seq(Arrivals)
        BY <2>1, <2>2, <2>3, Appended
    <3>2. queue' \in [Symbols -> Seq(Arrivals)]
        BY <3>1, <1>7, <2>3
    <3>3. QED
        BY <3>2, <1>1, <1>3, <1>4 DEF NetTypes
  <2>6. Genuine(o, o.symbol)'
    <3>1. AllFull(p)' <=> AllFull(p)
        BY <1>1 DEF AllFull
    <3>2. CASE o.n = 0
        BY <2>1, <3>1, <3>2 DEF Genuine
    <3>3. CASE o.n # 0
        BY <2>1, <3>3, <1>1, <1>4 DEF Genuine
    <3>4. QED
        BY <3>2, <3>3
  <2>7. ASSUME NEW s \in Symbols PROVE AllGenuine(s)' /\ InSequence(s)'
    <3>1. AllGenuine(s) /\ InSequence(s) /\ Arrived(s) \in Seq(Arrivals)
        BY <2>3 DEF ArrivalInv, Arrived
    <3>2. ASSUME NEW i \in 1..Len(Arrived(s))
          PROVE  /\ Arrived(s)[i] \in Arrivals
                 /\ Genuine(Arrived(s)[i], s)
                 /\ \A x : x = Arrived(s)[i] => Genuine(x, s)'
        <4>1. Arrived(s)[i] \in Arrivals /\ Genuine(Arrived(s)[i], s)
            BY <3>1 DEF AllGenuine
        <4>2. ASSUME NEW x \in Arrivals, Genuine(x, s) PROVE Genuine(x, s)'
            BY <4>2, <2>5, <1>1, <1>3, <1>4, ReadStays
        <4>3. QED
            BY <4>1, <4>2
    <3>3. CASE s # o.symbol
        <4>1. Arrived(s)' = Arrived(s)
            BY <3>3, <1>1, <2>4 DEF Arrived
        <4>2. QED
            BY <4>1, <3>1, <3>2 DEF AllGenuine, InSequence
    <3>4. CASE s = o.symbol
        <4> DEFINE A == Arrived(s)
        <4>1. Arrived(s)' = Append(A, o)
            <5>1. /\ queue[s] \in Seq(Arrivals) /\ applied[s] \in Seq(Arrivals)
                  /\ o \in Arrivals
                BY <2>1, <2>3
            <5>2. \A a, b \in Seq(Arrivals) : \A x \in Arrivals :
                     a \o Append(b, x) = Append(a \o b, x)
                BY JoinedAppend
            <5>3. applied[s] \o Append(queue[s], o) = Append(applied[s] \o queue[s], o)
                BY <5>1, <5>2
            <5>4. QED
                BY <5>3, <1>1, <2>4, <3>4 DEF Arrived
        <4>2. /\ Len(Arrived(s)') = Len(A) + 1 /\ Len(A) \in Nat
              /\ \A i \in 1..Len(A) : Arrived(s)'[i] = A[i]
              /\ Arrived(s)'[Len(A) + 1] = o
            <5>1. A \in Seq(Arrivals)
                BY <3>1
            <5> HIDE DEF A
            <5>2. QED
                BY <5>1, <4>1, <2>1, Appended
        <4>3. ASSUME NEW i \in 1..Len(Arrived(s)') PROVE Genuine(Arrived(s)[i], s)'
            <5>1. CASE i = Len(A) + 1
                BY <5>1, <4>2, <2>6, <3>4
            <5>2. CASE i # Len(A) + 1
                <6>1. i \in 1..Len(A) /\ Arrived(s)'[i] = A[i]
                    BY <5>2, <4>2
                <6>2. QED
                    BY <6>1, <3>2
            <5>3. QED
                BY <5>1, <5>2
        <4>4. ASSUME NEW i \in 1..Len(A), o.n # 0, A[i].peer = p
              PROVE  A[i].n < o.n
            <5>1. A[i] \in Arrivals /\ Genuine(A[i], s)
                BY <3>2
            <5>2. o.n \in 1..Len(sent[p]) /\ o.at = bytesRead[p] /\ o = sent[p][o.n]
                BY <4>4, <2>1
            <5>3. sent[p] \in Seq(Messages) /\ Len(sent[p]) \in Nat
                BY <1>3 DEF NetTypes
            <5>4. CASE A[i].n = 0
                BY <5>2, <5>3, <5>4
            <5>5. CASE A[i].n # 0
                <6>1. /\ A[i].n \in 1..Len(sent[p])
                      /\ sent[p][A[i].n].at < bytesRead[p]
                    BY <5>1, <5>5, <4>4 DEF Genuine
                <6>2. sent[p][A[i].n] \in Messages /\ sent[p][o.n] \in Messages
                    BY <5>2, <5>3, <6>1
                <6>3. /\ sent[p][A[i].n].at \in Nat
                      /\ sent[p][o.n].at \in Nat /\ sent[p][o.n].len \in Nat
                    BY <6>2 DEF Messages
                <6>4. A[i].n # o.n
                    BY <6>1, <6>3, <5>2
                <6>5. ~(o.n < A[i].n)
                    <7>1. ASSUME o.n < A[i].n PROVE FALSE
                        <8>1. sent[p][o.n].at + sent[p][o.n].len <= sent[p][A[i].n].at
                            BY <7>1, <5>2, <6>1 DEF ArrivalInv, StreamOK
                        <8>2. sent[p][o.n].at = bytesRead[p]
                            BY <5>2
                        <8>3. QED
                            BY <8>1, <8>2, <6>1, <6>3
                    <7>2. QED
                        BY <7>1
                <6>6. QED
                    BY <6>1, <6>4, <6>5, <5>2, <5>3
            <5>6. QED
                BY <5>4, <5>5
        <4>5. ASSUME NEW i \in 1..Len(Arrived(s)'), NEW j \in 1..Len(Arrived(s)'), j < i,
                     Arrived(s)'[i].n # 0, Arrived(s)'[j].peer = Arrived(s)'[i].peer
              PROVE  Arrived(s)'[j].n < Arrived(s)'[i].n
            <5>1. j \in 1..Len(A) /\ Arrived(s)'[j] = A[j]
                BY <4>5, <4>2
            <5>2. CASE i = Len(A) + 1
                BY <5>1, <5>2, <4>2, <4>4, <4>5, <2>1
            <5>3. CASE i # Len(A) + 1
                <6>1. i \in 1..Len(A) /\ Arrived(s)'[i] = A[i]
                    BY <5>3, <4>2
                <6>2. QED
                    BY <6>1, <5>1, <4>5, <3>1 DEF InSequence
            <5>4. QED
                BY <5>2, <5>3
        <4>6. QED
            BY <4>3, <4>5 DEF AllGenuine, InSequence
    <3>5. QED
        BY <3>3, <3>4
  <2>8. QED
    BY <2>5, <2>7, <1>5 DEF ArrivalInv
<1>8. QED
    BY <1>6, <1>7 DEF OnMsgReceived, EnqueueOrder

\* A short read ends the session.
LEMMA ShortReadArrivalInv ==
    ASSUME ArrivalInv, NEW p \in Peers, ReadShort(p), UNCHANGED bookVars
    PROVE  ArrivalInv'
<1>1. PICK k \in ReadLengths(p) : bytesRead' = [bytesRead EXCEPT ![p] = @ + k]
    BY DEF ReadShort
<1>2. k \in Nat
  <2>1. FULL_MSG_LEN \in Nat
    BY OrderParserAssumption DEF FULL_MSG_LEN
  <2>2. Cuts \subseteq Nat
    BY <2>1, NetworkServerAssumption
  <2>3. Unread(p) \in Int
    <3>1. sent[p] \in Seq(Messages) /\ bytesRead[p] \in Nat
        BY DEF ArrivalInv, NetTypes
    <3>2. StreamEnd(p) \in Nat
        BY <3>1, EndOfStream
    <3>3. QED
        BY <3>1, <3>2 DEF Unread
  <2>4. QED
    BY <1>1, <2>1, <2>2, <2>3 DEF ReadLengths
<1>3. NetTypes /\ UNCHANGED <<sent, queue, applied>>
      /\ conn' = [conn EXCEPT ![p] = "closed"]
    BY DEF ArrivalInv, ReadShort, bookVars
<1>4. NetTypes'
    BY <1>1, <1>2, <1>3 DEF NetTypes
<1>5. \A r \in Peers : bytesRead[r] \in Nat /\ bytesRead'[r] \in Nat
                       /\ bytesRead[r] <= bytesRead'[r]
    BY <1>1, <1>2, <1>3 DEF NetTypes
<1>6. ASSUME NEW r \in Peers PROVE StreamOK(r)' /\ InStep(r)'
  <2>1. StreamEnd(r)' = StreamEnd(r) /\ StreamOK(r) /\ InStep(r)
    BY <1>3 DEF StreamEnd, ArrivalInv
  <2>2. StreamOK(r)'
    BY <2>1, <1>3 DEF StreamOK
  <2>3. InStep(r)'
    <3>1. CASE r = p
        <4>1. conn'[p] = "closed"
            BY <1>3 DEF NetTypes
        <4>2. QED
            BY <3>1, <4>1 DEF InStep
    <3>2. CASE r # p
        <4>1. conn'[r] = conn[r] /\ bytesRead'[r] = bytesRead[r]
            BY <3>2, <1>1, <1>3 DEF NetTypes
        <4>2. QED
            BY <4>1, <2>1, <1>3 DEF InStep, AllFull
    <3>3. QED
        BY <3>1, <3>2
  <2>4. QED
    BY <2>2, <2>3
<1>7. ASSUME NEW s \in Symbols PROVE AllGenuine(s)' /\ InSequence(s)'
  <2>1. Arrived(s)' = Arrived(s)
    BY <1>3 DEF Arrived
  <2>2. AllGenuine(s) /\ InSequence(s) /\ Arrived(s) \in Seq(Arrivals)
    BY DEF ArrivalInv, NetTypes, Arrived
  <2>3. ASSUME NEW i \in 1..Len(Arrived(s)) PROVE Genuine(Arrived(s)[i], s)'
    <3>1. Arrived(s)[i] \in Arrivals /\ Genuine(Arrived(s)[i], s)
        BY <2>2 DEF AllGenuine
    <3>2. ASSUME NEW o \in Arrivals, Genuine(o, s) PROVE Genuine(o, s)'
        BY <3>2, <1>3, <1>4, <1>5, ReadStays
    <3>3. QED
        BY <3>1, <3>2, <2>1
  <2>4. QED
    BY <2>1, <2>2, <2>3 DEF AllGenuine, InSequence
<1>8. QED
    BY <1>4, <1>6, <1>7 DEF ArrivalInv

\* A book thread that applies an order moves it, and no more.
LEMMA ProcessArrivalInv ==
    ASSUME ArrivalInv, NEW s \in Symbols, Process(s)
    PROVE  ArrivalInv'
<1>1. /\ UNCHANGED <<conn, sent, bytesRead>>
      /\ queue[s] # <<>>
      /\ applied' = [applied EXCEPT ![s] = Append(@, Head(queue[s]))]
      /\ queue' = [queue EXCEPT ![s] = Tail(@)]
    BY DEF Process, serverVars
<1>2. /\ queue \in [Symbols -> Seq(Arrivals)] /\ applied \in [Symbols -> Seq(Arrivals)]
      /\ queue[s] \in Seq(Arrivals) /\ applied[s] \in Seq(Arrivals)
    BY DEF ArrivalInv, NetTypes
<1>3. /\ Head(queue[s]) \in Arrivals /\ Tail(queue[s]) \in Seq(Arrivals)
      /\ Append(applied[s], Head(queue[s])) \o Tail(queue[s]) = applied[s] \o queue[s]
    BY <1>1, <1>2, HeadMoves
<1>4. \A r \in Symbols : Arrived(r)' = Arrived(r)
    BY <1>1, <1>2, <1>3 DEF Arrived
<1>5. NetTypes'
  <2>1. Append(applied[s], Head(queue[s])) \in Seq(Arrivals)
    BY <1>2, <1>3, Appended
  <2>2. queue' \in [Symbols -> Seq(Arrivals)] /\ applied' \in [Symbols -> Seq(Arrivals)]
    BY <2>1, <1>1, <1>2, <1>3
  <2>3. QED
    BY <2>2, <1>1 DEF ArrivalInv, NetTypes
<1>6. ASSUME NEW p \in Peers PROVE StreamOK(p)' /\ InStep(p)'
    BY <1>1 DEF ArrivalInv, StreamOK, InStep, StreamEnd, AllFull
<1>7. ASSUME NEW r \in Symbols PROVE AllGenuine(r)' /\ InSequence(r)'
  <2>1. \A o : Genuine(o, r)' <=> Genuine(o, r)
    BY <1>1 DEF Genuine, AllFull
  <2>2. AllGenuine(r) /\ InSequence(r) /\ Arrived(r)' = Arrived(r)
    BY <1>4 DEF ArrivalInv
  <2>3. AllGenuine(r)'
    BY <2>1, <2>2 DEF AllGenuine
  <2>4. InSequence(r)'
    BY <2>2 DEF InSequence
  <2>5. QED
    BY <2>3, <2>4
<1>8. QED
    BY <1>5, <1>6, <1>7 DEF ArrivalInv

\* Every step keeps the invariant.
LEMMA NextArrivalInv == ArrivalInv /\ [Next]_vars => ArrivalInv'
<1> SUFFICES ASSUME ArrivalInv, [Next]_vars PROVE ArrivalInv'
    OBVIOUS
<1>1. conn \in [Peers -> {"none", "connected", "reading", "closed"}]
    BY DEF ArrivalInv, NetTypes
<1>2. CASE UNCHANGED <<conn, sent, bytesRead, queue, applied>>
    BY <1>1, <1>2, SessionArrivalInv
<1>3. CASE Call
    BY <1>3, <1>2 DEF Call, Start, AddSymbol, SymbolAdded, StopFlag, StopPublisher,
           JoinPublisher, JoinBooks, Destroy, serverVars, bookVars
<1>4. ASSUME NEW p \in Peers, Peer(p), UNCHANGED bookVars PROVE ArrivalInv'
  <2>1. CASE Connect(p)
    <3>1. UNCHANGED <<sent, bytesRead, queue, applied>>
        BY <1>4, <2>1 DEF Connect, bookVars
    <3>2. conn[p] = "none" /\ conn' = [conn EXCEPT ![p] = "connected"]
        BY <2>1 DEF Connect
    <3>3. QED
        BY <3>1, <3>2, <1>1, SessionArrivalInv
  <2>2. QED
    BY <2>1, <1>4, SendArrivalInv DEF Peer
<1>5. ASSUME Server, UNCHANGED bookVars PROVE ArrivalInv'
  <2>1. CASE ServerStart \/ AcceptError \/ AcceptAborted
    BY <2>1, <1>2, <1>5 DEF ServerStart, AcceptError, AcceptAborted, peerVars, bookVars
  <2>2. CASE ServerStop
    <3>1. UNCHANGED <<sent, bytesRead, queue, applied>>
        BY <1>5, <2>2 DEF ServerStop, bookVars
    <3>2. conn' = [p \in Peers |-> IF conn[p] = "connected" THEN "closed" ELSE conn[p]]
        BY <2>2 DEF ServerStop
    <3>3. QED
        BY <3>1, <3>2, <1>1, SessionArrivalInv
  <2>3. ASSUME NEW p \in Peers, Accept(p) \/ ReadEnd(p) PROVE ArrivalInv'
    <3>1. UNCHANGED <<sent, bytesRead, queue, applied>>
        BY <1>5, <2>3 DEF Accept, ReadEnd, bookVars
    <3>2. /\ conn[p] \in {"connected", "reading"}
          /\ \/ conn' = [conn EXCEPT ![p] = "reading"]
             \/ conn' = [conn EXCEPT ![p] = "closed"]
        BY <2>3 DEF Accept, ReadEnd
    <3>3. QED
        BY <3>1, <3>2, <1>1, SessionArrivalInv
  <2>4. ASSUME NEW p \in Peers, ReadShort(p) PROVE ArrivalInv'
    BY <2>4, <1>5, ShortReadArrivalInv
  <2>5. QED
    BY <1>5, <2>1, <2>2, <2>3, <2>4 DEF Server
<1>6. ASSUME NEW p \in Peers, OnMsgReceived(p) PROVE ArrivalInv'
    BY <1>6, ReceiveArrivalInv
<1>7. ASSUME NEW s \in Symbols, BookLoop(s) PROVE ArrivalInv'
  <2>1. CASE CheckRunning(s) \/ Sleep(s)
    BY <2>1, <1>2 DEF CheckRunning, Sleep, serverVars
  <2>2. QED
    BY <2>1, <1>7, ProcessArrivalInv DEF BookLoop
<1>8. CASE UNCHANGED <<serverVars, bookVars>>
    BY <1>8, <1>2 DEF serverVars, bookVars
<1>9. CASE UNCHANGED vars
    BY <1>9, <1>8 DEF vars
<1>10. QED
    BY <1>3, <1>4, <1>5, <1>6, <1>7, <1>8, <1>9 DEF Next

-----------------------------------------------------------------------------
(* The theorems *)

\* From stop() to the next start() no order is applied and no event is taken
\* from the publisher's queue, whatever sessions and add_symbol() do meanwhile.
THEOREM NetNothingWhileStopped == Spec => NetStoppedQuiet
<1>1. ASSUME NetInv, [Next]_vars, Stopped
      PROVE  applied' = applied /\ updateQueue <= updateQueue'
  <2>1. /\ \A s \in Symbols : thread[s] # "dequeue"
        /\ pubThread = "none"
        /\ updateQueue \in Nat
        /\ main \in {"idle", "adding"}
    BY <1>1 DEF NetInv, PublisherInv, QueueInv, BooksInv, Stopped
  <2>2. CASE UNCHANGED <<publisherVars, applied>>
    BY <2>1, <2>2 DEF publisherVars
  <2>3. CASE Call
    BY <2>1, <2>3 DEF Call, Start, PublisherStart, AddSymbol, SymbolAdded, StopFlag,
           StopPublisher, JoinPublisher, JoinBooks, Destroy, publisherVars, bookVars
  <2>4. ASSUME NEW p \in Peers, OnMsgReceived(p)
        PROVE  applied' = applied /\ updateQueue <= updateQueue'
    BY <2>2, <2>4 DEF OnMsgReceived
  <2>5. ASSUME NEW s \in Symbols, BookLoop(s)
        PROVE  applied' = applied /\ updateQueue <= updateQueue'
    BY <2>1, <2>2, <2>5 DEF BookLoop, CheckRunning, Process, Sleep
  <2>6. CASE (Publish \/ PublisherRun) /\ UNCHANGED bookVars
    BY <2>1, <2>6 DEF Publish, PublisherRun, CheckPublisher, DrainOne, Drained, bookVars
  <2>7. QED
    BY <1>1, <2>2, <2>3, <2>4, <2>5, <2>6 DEF Next, vars, bookVars
<1>2. NetInv /\ [Next]_vars
        => [Stopped => applied' = applied /\ updateQueue <= updateQueue']_vars
    BY <1>1
<1>3. QED
    BY <1>2, NetInvAlways, PTL DEF Spec, NetStoppedQuiet

\* While the exchange runs, through any number of restarts, the publisher's
\* worker is in its loop.
THEOREM NetPublisherServed == Spec => []PublisherServed
    BY NetInvAlways, NetInvImplies, PTL

\* When the publisher's stop() has returned, all that was published before it
\* has been taken from the queue, whatever is published meanwhile.
THEOREM NetPublishedDrained == Spec => []PublishedDrained
    BY NetInvAlways, NetInvImplies, PTL

\* What reaches a book is what its peer sent for that symbol, at most once and
\* in the order sent, unless the peer sends messages of another length than the
\* session's buffer.
THEOREM NetArrivedAsSent == Spec => []ArrivedAsSent
<1>1. Spec => []ArrivalInv
    BY InitArrivalInv, NextArrivalInv, PTL DEF Spec
<1>2. QED
    BY <1>1, ArrivalInvImplies, PTL
=============================================================================
