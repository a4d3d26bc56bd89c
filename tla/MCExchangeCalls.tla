-------------------------- MODULE MCExchangeCalls ---------------------------
(***************************************************************************)
(* ExchangeCalls for TLC.                                                  *)
(***************************************************************************)
EXTENDS ExchangeCalls

\* Tickers EA.. and eb.., which share a bucket, and SF...
EA == <<69, 65>>
eb == <<101, 98>>
SF == <<83, 70>>

Tickers == {EA, eb, SF}
Added == {EA}
=============================================================================
