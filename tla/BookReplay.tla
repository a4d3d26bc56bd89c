----------------------------- MODULE BookReplay -----------------------------
(***************************************************************************)
(* An order book and a reader of its log.  The reader keeps a map of the   *)
(* resting orders, built only from the events that add(), modify(),        *)
(* cancel() and execute() hand to the logger: the use of the log that the  *)
(* repository's README calls traceability.                                 *)
(***************************************************************************)
EXTENDS OrderBook

VARIABLE mirror     \* the resting orders as the log tells them

replayVars == <<vars, mirror>>

Keep(m, ids) == [id \in DOMAIN m \cap ids |-> m[id]]

PutOrder(m, o) ==
    [id \in DOMAIN m \cup {o.order_id} |-> IF id = o.order_id THEN o ELSE m[id]]

\* Both parties of a trade lose its quantity, and an order with nothing left
\* is done.
AfterTrade(m, ev) ==
    LET parties == {ev.buy, ev.sell}
        left == [id \in DOMAIN m |->
                    IF id \in parties THEN [m[id] EXCEPT !.qty = @ - ev.qty]
                                      ELSE m[id]]
    IN  Keep(left, {id \in DOMAIN m : id \notin parties \/ left[id].qty # 0})

Read(m, ev) ==
    CASE ev.kind = "none" -> m
      [] ev.kind = "price_level_update" -> PutOrder(m, ev.order)
      [] ev.kind = "modify" -> PutOrder(m, ev.order)
      [] ev.kind = "cancel" -> Keep(m, DOMAIN m \ {ev.order.order_id})
      [] ev.kind = "trade_report" -> AfterTrade(m, ev)

ReplayInit == Init /\ mirror = <<>>
ReplayNext == Next /\ mirror' = Read(mirror, logged')
ReplaySpec == ReplayInit /\ [][ReplayNext]_replayVars

-----------------------------------------------------------------------------
\* Every order resting in the book is in the reader's map, with its side, its
\* price and the quantity it has left: add, modify and trade events together
\* tell all that happened to an order while it lives.
RestingOrdersTraced ==
    \A id \in DOMAIN lookup : id \in DOMAIN mirror /\ mirror[id] = BookOf[id]

\* What an event says of an order that is already in the book is what the log
\* has told of it: the order of a cancel, the old order of a modify, and the
\* parties of a trade.
Agrees(m, ev) ==
    CASE ev.kind = "cancel" -> ev.order \in Range(m)
      [] ev.kind = "modify" -> ev.old = m[ev.order.order_id]
      [] ev.kind = "trade_report" -> {ev.buy, ev.sell} \subseteq DOMAIN m
      [] OTHER -> TRUE

\* Every event agrees with the events before it, so that a reader can follow
\* each order through the log.  "This logging provides traceability"
\* (README.md).
LogTracesBook == [][Agrees(mirror, logged')]_replayVars
=============================================================================
