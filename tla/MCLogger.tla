------------------------------ MODULE MCLogger ------------------------------
(***************************************************************************)
(* Logger for TLC; the configuration names its constants as model values. *)
(***************************************************************************)
EXTENDS Logger

=============================================================================
