------------------------------ MODULE MCLogin ------------------------------
(***************************************************************************)
(* LoginControl with three accounts that come and go for ever, two stages  *)
(* between the limits, and a server below, between and beyond the limits.  *)
(***************************************************************************)
EXTENDS LoginControl
=============================================================================
