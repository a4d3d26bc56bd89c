-------------------------- MODULE MCLocalExchange ---------------------------
(***************************************************************************)
(* LocalExchange for TLC.                                                  *)
(***************************************************************************)
EXTENDS LocalExchange

\* Tickers EA.., eb.. (one bucket), SF.. and 1A.., which has no bucket.
EA == <<69, 65>>
eb == <<101, 98>>
SF == <<83, 70>>
DigitA == <<49, 65>>

OneBucket == {EA, eb}
AllTickers == {EA, eb, SF, DigitA}
=============================================================================
