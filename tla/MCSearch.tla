------------------------------ MODULE MCSearch ------------------------------
(***************************************************************************)
(* SearchUnit with four people, values in three of four cells, and sets of *)
(* three that may shrink to two.  The people are interchangeable.          *)
(***************************************************************************)
EXTENDS SearchUnit

SymPersons == Permutations(Persons)
=============================================================================
