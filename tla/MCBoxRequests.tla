--------------------------- MODULE MCBoxRequests ---------------------------
(* Overlapping requests on small sets.                                     *)
EXTENDS BoxRequests, TLC

(* Only safety properties are checked under this symmetry. Barcodes are    *)
(* left out: Idle chooses one.                                             *)
RequestSymmetry == Permutations(Requests) \cup Permutations(Docs)

=============================================================================
