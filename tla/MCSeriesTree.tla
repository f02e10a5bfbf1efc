---------------------------- MODULE MCSeriesTree ----------------------------
(* The hierarchy of series on small sets.                                  *)
EXTENDS SeriesWalk, TLC

(* Only safety properties are checked under this symmetry.                 *)
TreeSymmetry == Permutations(Series) \cup Permutations(Requests)

=============================================================================
