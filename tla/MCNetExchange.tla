--------------------------- MODULE MCNetExchange ----------------------------
(***************************************************************************)
(* NetExchange for TLC.                                                    *)
(***************************************************************************)
EXTENDS NetExchange

\* A new order, as long as the buffer (send_order.py sends every message so),
\* and an update of the parser's layout, a byte longer.
BuysAndUpdates ==
    {<<TYPE_LIMIT_BUY, FULL_MSG_LEN>>, <<TYPE_UPDATE, MinLen(TYPE_UPDATE)>>}
=============================================================================
