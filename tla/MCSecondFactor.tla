---------------------------- MODULE MCSecondFactor ----------------------------
(* SecondFactor on small instances. *)
EXTENDS SecondFactor, TLC

Interchangeable ==
  Permutations(Job) \cup Permutations(Secret) \cup Permutations(Sheet) \cup Permutations(Position)
=============================================================================
