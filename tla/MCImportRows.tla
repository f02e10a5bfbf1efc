---------------------------- MODULE MCImportRows ----------------------------
(* Object ids are told apart by nothing but what is stashed under them.    *)
EXTENDS ImportRows, TLC

SlotSymmetry == Permutations(Slots)

=============================================================================
