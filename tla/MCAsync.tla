------------------------------ MODULE MCAsync ------------------------------
(***************************************************************************)
(* AsyncThread with three tasks, which are enough for two to be linked     *)
(* while a third is in hand, and clients that keep one task or two in      *)
(* flight.                                                                 *)
(***************************************************************************)
EXTENDS AsyncThread
=============================================================================
