----------------------------- MODULE MCCluster -----------------------------
(***************************************************************************)
(* Cluster with two nodes and three connections to the master: one of each *)
(* and a second of either, or three of one.                                *)
(***************************************************************************)
EXTENDS Cluster
=============================================================================
