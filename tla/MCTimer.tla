------------------------------ MODULE MCTimer ------------------------------
(***************************************************************************)
(* TimerWheel with four root slots and two levels of two: it reaches 16    *)
(* jiffies.  The delays cover the past, the root, both levels, their       *)
(* borders and a timer beyond the reach.                                   *)
(***************************************************************************)
EXTENDS TimerWheel

MCSpan == [n \in 0 .. Levels |-> RootSize * NodeSize ^ n]
MCForever == -1
MCDelays == {-1, 3, 4, 15, 17}
MCIntervals == {0, 5}
MCCounts == {0, 1, MCForever}
=============================================================================
