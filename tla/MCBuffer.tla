------------------------------ MODULE MCBuffer ------------------------------
(***************************************************************************)
(* CircularBuffer with eight bytes and counters of 16 values: every        *)
(* position of the two counters, and their wrap.                           *)
(***************************************************************************)
EXTENDS CircularBuffer
=============================================================================
