-------------------------- MODULE MCDisinfestation --------------------------
(* The disinfestation cycle on small sets.                                 *)
EXTENDS Disinfestation, TLC

(* Only safety properties are checked under this symmetry.                 *)
CycleSymmetry == Permutations(Requests) \cup Permutations(Docs)

=============================================================================
