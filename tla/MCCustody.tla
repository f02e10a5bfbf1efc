----------------------------- MODULE MCCustody -----------------------------
(* Custody on small sets of rows.                                          *)
EXTENDS CustodyPlacement, TLC

(* Boxes, documents and the batches of one kind are interchangeable; every *)
(* property checked under this symmetry is a safety property.              *)
RowSymmetry == Permutations(Boxes) \cup Permutations(Docs)

=============================================================================
