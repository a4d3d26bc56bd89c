---------------------------- MODULE MCBookReplay ----------------------------
(***************************************************************************)
(* BookReplay for TLC.                                                     *)
(***************************************************************************)
EXTENDS BookReplay

\* Order ids are interchangeable.
IdSymmetry == Permutations(OrderIds)

\* No action reads ret or logged.
ReplayView == <<levels, lookup, executing, mirror>>
=============================================================================
