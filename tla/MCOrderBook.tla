---------------------------- MODULE MCOrderBook -----------------------------
(***************************************************************************)
(* OrderBook for TLC.                                                      *)
(***************************************************************************)
EXTENDS OrderBook

\* No action reads ret or logged: states that differ only there have the same
\* successors.
BookView == <<levels, lookup, executing>>
=============================================================================
