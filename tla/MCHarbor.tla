------------------------------ MODULE MCHarbor ------------------------------
(***************************************************************************)
(* Harbor with two client sessions and two connections: enough for a       *)
(* forced reconnection, for a second session of a known node and for a     *)
(* session that reconnects.                                                *)
(***************************************************************************)
EXTENDS Harbor
=============================================================================
