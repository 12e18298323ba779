------------------------------- MODULE MCNet -------------------------------
(***************************************************************************)
(* NetEngine with two connections and two descriptors, either of which may *)
(* be reused.                                                              *)
(***************************************************************************)
EXTENDS NetEngine
=============================================================================
