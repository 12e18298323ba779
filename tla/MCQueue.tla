------------------------------ MODULE MCQueue ------------------------------
(***************************************************************************)
(* CircularQueue with the four slots that a size of three is rounded up    *)
(* to, and counters that wrap after eight values.                          *)
(***************************************************************************)
EXTENDS CircularQueue
=============================================================================
