------------------------------ MODULE MCLogger ------------------------------
(***************************************************************************)
(* Logger with three nodes in each stream.                                 *)
(***************************************************************************)
EXTENDS Logger
=============================================================================
