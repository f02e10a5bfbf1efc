-------------------------- MODULE CustodyPlacement --------------------------
(***************************************************************************)
(* The custody requests implement Placement.                               *)
(***************************************************************************)
EXTENDS Custody

CONSTANT Gone
ASSUME GoneAssumption == Gone \notin Boxes \cup {NoBox}

(* The refinement mapping: a document is where its current_box_id says, a  *)
(* stored box is in the inventory, and it is open when it is neither       *)
(* archived nor destroyed.                                                 *)
placeOf == [d \in Docs |-> IF Stored(documents[d]) THEN documents[d].box ELSE Gone]
storedBoxes == {b \in Boxes : Stored(boxes[b])}
openBoxes == {b \in Boxes : BoxOpen(b)}

P == INSTANCE Placement WITH place <- placeOf,
                             inventory <- storedBoxes,
                             open <- openBoxes

(* Every request places documents the way Placement allows: only into open *)
(* boxes, and no box goes while a document, archived or not, is in it.     *)
ImplementsPlacement == P!PlacementSpec

=============================================================================
