----------------------------- MODULE MCListener -----------------------------
(***************************************************************************)
(* NetListener with three connects, one incoming connection and three      *)
(* descriptors: descriptors run out, are reused and reused again, and the  *)
(* array is too small for all of them.                                     *)
(***************************************************************************)
EXTENDS NetListener
=============================================================================
