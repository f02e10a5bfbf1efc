--------------------------- MODULE MCBoxLocation ---------------------------
(* Box locations on small sets.                                            *)
EXTENDS BoxLocation, TLC

(* Every property checked is a safety property. Boxes are left out: they   *)
(* differ in type.                                                         *)
DocSymmetry == Permutations(Docs)

=============================================================================
