----------------------------- MODULE LoginQueue -----------------------------
(***************************************************************************)
(* What LoginControl promises the accounts that log in: those that cannot  *)
(* enter at once wait in one line, nobody but a forced account leaves it   *)
(* before those in front, and nobody walks in while others wait.           *)
(***************************************************************************)
EXTENDS Naturals, Sequences

CONSTANT Accounts

VARIABLES
  waiting,     \* the line
  passed       \* the accounts the last step let in, in that order

vars == <<waiting, passed>>

Init == waiting = <<>> /\ passed = <<>>

Pass(a) == waiting = <<>> /\ passed' = <<a>> /\ UNCHANGED waiting

Wait(a) ==
  /\ \A i \in DOMAIN waiting : waiting[i] # a
  /\ waiting' = Append(waiting, a) /\ passed' = <<>>

Serve(n) ==
  /\ passed' = SubSeq(waiting, 1, n)
  /\ waiting' = SubSeq(waiting, n + 1, Len(waiting))

Force(i) ==
  /\ passed' = <<waiting[i]>>
  /\ waiting' = SubSeq(waiting, 1, i - 1) \o SubSeq(waiting, i + 1, Len(waiting))

Next == \/ \E a \in Accounts : Pass(a) \/ Wait(a)
        \/ \E n \in 0 .. Len(waiting) : Serve(n)
        \/ \E i \in DOMAIN waiting : Force(i)

Spec == Init /\ [][Next]_vars
=============================================================================
