--------------------------- MODULE NetworkServer ----------------------------
(***************************************************************************)
(* class NetworkServer and its Session (src/src/network_server.cpp): an    *)
(* accept loop, and for each connection a loop of reads into a buffer of   *)
(* FULL_MSG_LEN bytes.  All handlers run on the thread of the io_context.  *)
(*                                                                         *)
(* A connection is a stream of bytes: a read returns some of the bytes     *)
(* sent so far, and knows nothing of messages.  A message is its peer,     *)
(* its number there, its type, its symbol, its length and its place in the *)
(* stream; the stream is kept as the messages sent and the number of bytes *)
(* read.                                                                   *)
(*                                                                         *)
(* The source names the exchange `exchange' in start_reading() where the   *)
(* member is `exchange_'; it is read as the member.                        *)
(***************************************************************************)
EXTENDS OrderParser, SequencesExt

CONSTANTS
    Peers,          \* connections
    Symbols,        \* tickers
    Layouts,        \* the types and lengths of the messages that peers send
    Cuts,           \* lengths at which a read may fall short of its message
    MaxSends,       \* bound on the messages of a connection
    MaxErrors       \* bound on accept errors

FULL_MSG_LEN == 8 + 1 + ORDER_ID_LEN + TICKER_LEN + 4 + 4

ASSUME NetworkServerAssumption ==
    /\ Layouts \subseteq MessageTypes \X (Nat \ {0})
    /\ Cuts \subseteq 1..(FULL_MSG_LEN - 1)
    /\ MaxSends \in Nat
    /\ MaxErrors \in Nat

VARIABLES
    srvRunning,     \* running_
    acceptorOpen,   \* acceptor_ has not been closed
    accepting,      \* an async_accept whose handler has not run
    errors,         \* accept errors so far
    conn,           \* each connection: none, connected, reading, closed
    sent,           \* the messages each peer has sent
    bytesRead       \* the bytes each session has read

serverVars ==
    <<srvRunning, acceptorOpen, accepting, errors, conn, sent, bytesRead>>
peerVars == <<conn, sent, bytesRead>>

ServerInit ==
    /\ srvRunning = FALSE
    /\ acceptorOpen = TRUE
    /\ accepting = FALSE
    /\ errors = 0
    /\ conn = [p \in Peers |-> "none"]
    /\ sent = [p \in Peers |-> <<>>]
    /\ bytesRead = [p \in Peers |-> 0]

-----------------------------------------------------------------------------
(* The peers.  The port listens from the server's construction on. *)

Connect(p) ==
    /\ acceptorOpen
    /\ conn[p] = "none"
    /\ conn' = [conn EXCEPT ![p] = "connected"]
    /\ UNCHANGED <<srvRunning, acceptorOpen, accepting, errors, sent, bytesRead>>

\* The number of bytes that p has sent.
StreamEnd(p) ==
    IF sent[p] = <<>> THEN 0 ELSE Last(sent[p]).at + Last(sent[p]).len

SendMessage(p, layout, symbol) ==
    /\ conn[p] \in {"connected", "reading"}
    /\ Len(sent[p]) < MaxSends
    /\ sent' = [sent EXCEPT ![p] = Append(@,
          [peer |-> p, n |-> Len(@) + 1, type |-> layout[1], symbol |-> symbol,
           at |-> StreamEnd(p), len |-> layout[2]])]
    /\ UNCHANGED <<srvRunning, acceptorOpen, accepting, errors, conn, bytesRead>>

-----------------------------------------------------------------------------
(* start(), stop() and the accept loop *)

\* start(), once: do_accept() begins an async_accept.
ServerStart ==
    /\ ~srvRunning /\ acceptorOpen
    /\ srvRunning' = TRUE
    /\ accepting' = TRUE
    /\ UNCHANGED <<acceptorOpen, errors, peerVars>>

\* stop() closes the acceptor and no session.  The connections that wait are
\* reset, or dropped by a handler that finds running_ false.
ServerStop ==
    /\ srvRunning
    /\ srvRunning' = FALSE
    /\ acceptorOpen' = FALSE
    /\ conn' = [p \in Peers |-> IF conn[p] = "connected" THEN "closed" ELSE conn[p]]
    /\ UNCHANGED <<accepting, errors, sent, bytesRead>>

\* do_accept() at the end of the handler.
Rearm == accepting' = srvRunning

\* The handler for a connection.
Accept(p) ==
    /\ accepting /\ acceptorOpen
    /\ conn[p] = "connected"
    /\ conn' = [conn EXCEPT ![p] = "reading"]
    /\ Rearm
    /\ UNCHANGED <<srvRunning, acceptorOpen, errors, sent, bytesRead>>

\* Mutant: only a successful accept is followed by another.
AcceptError_NoRearm ==
    /\ accepting /\ acceptorOpen
    /\ errors < MaxErrors
    /\ errors' = errors + 1
    /\ accepting' = FALSE
    /\ UNCHANGED <<srvRunning, acceptorOpen, peerVars>>

\* The handler for an error of accept(), such as too many open files.
AcceptError ==
    /\ accepting /\ acceptorOpen
    /\ errors < MaxErrors
    /\ errors' = errors + 1
    /\ Rearm
    /\ UNCHANGED <<srvRunning, acceptorOpen, peerVars>>

\* The handler of the async_accept that stop() has aborted.
AcceptAborted ==
    /\ accepting /\ ~acceptorOpen
    /\ Rearm
    /\ UNCHANGED <<srvRunning, acceptorOpen, errors, peerVars>>

-----------------------------------------------------------------------------
(* Session::start_reading() *)

Unread(p) == StreamEnd(p) - bytesRead[p]

\* The lengths a read may return: all there is, up to the buffer, or less.
ReadLengths(p) ==
    LET most == IF Unread(p) < FULL_MSG_LEN THEN Unread(p) ELSE FULL_MSG_LEN
    IN  {n \in Cuts \cup {most} : 0 < n /\ n <= most}

Garbled(p, symbol) == [peer |-> p, n |-> 0, symbol |-> symbol]

(***************************************************************************)
(* The orders that the parser may make of the n bytes in the buffer.  If   *)
(* they start where a message starts it is that message, unless they are   *)
(* too few for its type.  Otherwise a field, or the type itself, is read   *)
(* from bytes of another field or message, and the outcome is anything.    *)
(***************************************************************************)
Decode(p, n) ==
    LET first == {sent[p][i] : i \in {j \in 1..Len(sent[p]) : sent[p][j].at = bytesRead[p]}}
    IN  IF \E m \in first : MinLen(m.type) <= m.len \/ n < MinLen(m.type)
          THEN {m \in first : MinLen(m.type) <= n}
          ELSE {Garbled(p, s) : s \in Symbols}

\* A read that fills the buffer: the exchange gets it, and the next read
\* begins.  The exchange's part is NetExchange.
ReadFull(p) ==
    /\ conn[p] = "reading"
    /\ FULL_MSG_LEN \in ReadLengths(p)
    /\ bytesRead' = [bytesRead EXCEPT ![p] = @ + FULL_MSG_LEN]
    /\ UNCHANGED <<srvRunning, acceptorOpen, accepting, errors, conn, sent>>

\* Mutant: the session goes on after a short read.
ReadShort_GoesOn(p) ==
    /\ conn[p] = "reading"
    /\ \E n \in ReadLengths(p) \ {FULL_MSG_LEN} :
          bytesRead' = [bytesRead EXCEPT ![p] = @ + n]
    /\ UNCHANGED <<srvRunning, acceptorOpen, accepting, errors, conn, sent>>

\* A shorter read ends the session, and with it the socket.
ReadShort(p) ==
    /\ conn[p] = "reading"
    /\ \E n \in ReadLengths(p) \ {FULL_MSG_LEN} :
          bytesRead' = [bytesRead EXCEPT ![p] = @ + n]
    /\ conn' = [conn EXCEPT ![p] = "closed"]
    /\ UNCHANGED <<srvRunning, acceptorOpen, accepting, errors, sent>>

\* The peer has closed the connection, or it failed with bytes unread.
ReadEnd(p) ==
    /\ conn[p] = "reading"
    /\ conn' = [conn EXCEPT ![p] = "closed"]
    /\ UNCHANGED <<srvRunning, acceptorOpen, accepting, errors, sent, bytesRead>>
=============================================================================
