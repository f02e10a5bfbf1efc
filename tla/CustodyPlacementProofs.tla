----------------------- MODULE CustodyPlacementProofs -----------------------
(***************************************************************************)
(* Proof that Custody implements Placement, for every set of rows.         *)
(***************************************************************************)
EXTENDS CustodyPlacement, CustodyProofs

PlacementStep == [P!PlacementNext]_(P!placementVars)

-----------------------------------------------------------------------------
(* A request that touches one box row and moves no document is a step of   *)
(* that box in Placement, or a stutter.                                    *)
LEMMA BoxStepRefines ==
    ASSUME CustodyInv, CustodyInv', NEW b \in Boxes,
           \A c \in Boxes \ {b} : boxes'[c] = boxes[c],
           \A d \in Docs : /\ documents'[d].life = documents[d].life
                           /\ documents'[d].box = documents[d].box,
           ~Stored(boxes[b]) /\ Stored(boxes'[b]) => BoxOpen(b)'
    PROVE  PlacementStep
<1>1. placeOf' = placeOf
  BY DEF placeOf, Stored
<1>2. \A c \in Boxes \ {b} : /\ c \in storedBoxes' <=> c \in storedBoxes
                             /\ c \in openBoxes' <=> c \in openBoxes
  BY DEF storedBoxes, openBoxes, BoxOpen, Stored, Live
<1>3. storedBoxes \subseteq Boxes /\ openBoxes \subseteq Boxes
      /\ storedBoxes' \subseteq Boxes /\ openBoxes' \subseteq Boxes
  BY DEF storedBoxes, openBoxes
<1>4. b \in openBoxes => b \in storedBoxes
  BY DEF storedBoxes, openBoxes, BoxOpen, Live, Stored
<1>5. b \in openBoxes' => b \in storedBoxes'
  BY DEF storedBoxes, openBoxes, BoxOpen, Live, Stored
<1>6. CASE b \in storedBoxes /\ b \in storedBoxes'
  <2>1. storedBoxes' = storedBoxes
    BY <1>2, <1>3, <1>6
  <2>2. openBoxes' = openBoxes \/ openBoxes' = openBoxes \ {b}
        \/ openBoxes' = openBoxes \cup {b}
    BY <1>2, <1>3
  <2>3. CASE openBoxes' = openBoxes
    BY <1>1, <2>1, <2>3 DEF PlacementStep, P!placementVars
  <2>4. CASE openBoxes' = openBoxes \ {b}
    <3>1. P!Close(b)
      BY <1>1, <2>1, <2>4 DEF P!Close
    <3> QED
      BY <3>1 DEF PlacementStep, P!PlacementNext
  <2>5. CASE openBoxes' = openBoxes \cup {b}
    <3>1. P!Reopen(b)
      BY <1>1, <1>6, <2>1, <2>5 DEF P!Reopen
    <3> QED
      BY <3>1 DEF PlacementStep, P!PlacementNext
  <2> QED
    BY <2>2, <2>3, <2>4, <2>5
<1>7. CASE b \notin storedBoxes /\ b \in storedBoxes'
  <2>1. b \in openBoxes'
    BY <1>7 DEF storedBoxes, openBoxes, BoxOpen, Live, Stored
  <2>2. storedBoxes' = storedBoxes \cup {b} /\ openBoxes' = openBoxes \cup {b}
    BY <1>2, <1>3, <1>7, <2>1
  <2>3. P!AddBox(b)
    BY <1>1, <1>7, <2>2 DEF P!AddBox
  <2> QED
    BY <2>3 DEF PlacementStep, P!PlacementNext
<1>8. CASE b \in storedBoxes /\ b \notin storedBoxes'
  <2>1. storedBoxes' = storedBoxes \ {b} /\ openBoxes' = openBoxes \ {b}
    BY <1>2, <1>3, <1>5, <1>8
  <2>2. \A d \in Docs : placeOf[d] # b
    <3> SUFFICES ASSUME NEW d \in Docs, placeOf[d] = b
                 PROVE  FALSE
      OBVIOUS
    <3>1. Stored(documents[d]) /\ documents[d].box = b
      BY GoneAssumption DEF placeOf
    <3>2. Stored(documents'[d]) /\ documents'[d].box = b /\ b # NoBox
      BY <3>1, CustodyAssumption DEF Stored
    <3>3. Stored(boxes'[b])
      BY <3>2 DEF CustodyInv, NoDanglingBox, Stored
    <3> QED
      BY <1>8, <3>3 DEF storedBoxes, Stored
  <2>3. P!RemoveBox(b)
    BY <1>1, <2>1, <2>2 DEF P!RemoveBox
  <2> QED
    BY <2>3 DEF PlacementStep, P!PlacementNext
<1>9. CASE b \notin storedBoxes /\ b \notin storedBoxes'
  <2>1. storedBoxes' = storedBoxes /\ openBoxes' = openBoxes
    BY <1>2, <1>3, <1>4, <1>5, <1>9
  <2> QED
    BY <1>1, <2>1 DEF PlacementStep, P!placementVars
<1> QED
  BY <1>6, <1>7, <1>8, <1>9

(* A request that writes one document row and no box: the document stays,  *)
(* leaves, is withdrawn, or enters an open box.                            *)
LEMMA DocStepRefines ==
    ASSUME NEW d \in Docs, NEW row,
           documents \in [Docs -> DocRow],
           documents' = [documents EXCEPT ![d] = row],
           UNCHANGED boxes,
           \/ ~Stored(row)
           \/ Stored(row) /\ Stored(documents[d]) /\ row.box = documents[d].box
           \/ Stored(row) /\ row.box \in openBoxes \cup {NoBox}
    PROVE  PlacementStep
<1>1. storedBoxes' = storedBoxes /\ openBoxes' = openBoxes
  BY DEF storedBoxes, openBoxes, BoxOpen, Live, Stored
<1>2. placeOf' = [placeOf EXCEPT ![d] = IF Stored(row) THEN row.box ELSE Gone]
  BY DEF placeOf, Stored
<1>3. CASE ~Stored(row)
  <2>1. P!Withdraw(d)
    BY <1>1, <1>2, <1>3 DEF P!Withdraw
  <2> QED
    BY <2>1 DEF PlacementStep, P!PlacementNext
<1>4. CASE Stored(row) /\ Stored(documents[d]) /\ row.box = documents[d].box
  <2>1. placeOf' = placeOf
    BY <1>2, <1>4 DEF placeOf
  <2> QED
    BY <1>1, <2>1 DEF PlacementStep, P!placementVars
<1>5. CASE Stored(row) /\ row.box \in openBoxes \cup {NoBox}
  <2>1. row.box \in Boxes \cup {NoBox}
    BY <1>5 DEF openBoxes
  <2>2. CASE placeOf[d] = Gone
    <3>1. P!Register(d, row.box)
      BY <1>1, <1>2, <1>5, <2>2 DEF P!Register
    <3> QED
      BY <2>1, <3>1 DEF PlacementStep, P!PlacementNext
  <2>3. CASE placeOf[d] # Gone
    <3>1. P!Put(d, row.box)
      BY <1>1, <1>2, <1>5, <2>3 DEF P!Put
    <3> QED
      BY <2>1, <3>1 DEF PlacementStep, P!PlacementNext
  <2> QED
    BY <2>2, <2>3
<1> QED
  BY <1>3, <1>4, <1>5

-----------------------------------------------------------------------------
(* Every request of Custody is a step of Placement or a stutter.           *)

(* Saving a box moves no document and leaves the other boxes alone.        *)
LEMMA SaveBoxFrame ==
    ASSUME TypeOK, NEW b \in Boxes, NEW row, NEW newBarcode, SaveBox(b, row, newBarcode)
    PROVE  /\ \A c \in Boxes \ {b} : boxes'[c] = boxes[c]
           /\ boxes'[b] = row
           /\ \A d \in Docs : /\ documents'[d].life = documents[d].life
                              /\ documents'[d].box = documents[d].box
BY DEF SaveBox, Mirrored, TypeOK, DocRow

(* Every request on a box is a step of Placement, or none.                 *)
LEMMA BoxRequestRefines ==
    ASSUME CustodyInv, CustodyInv', NEW b \in Boxes, BoxRequest(b)
    PROVE  PlacementStep
<1>1. TypeOK
  BY DEF CustodyInv
<1>2. ASSUME NEW row, NEW newBarcode, SaveBox(b, row, newBarcode), Stored(boxes[b])
      PROVE  PlacementStep
  BY <1>1, <1>2, SaveBoxFrame, BoxStepRefines
<1>3. CASE \/ \E kind \in Kinds, status \in Statuses, batch \in AnyBatch,
                 destroyed, newBarcode \in BOOLEAN :
                EditBox(b, kind, status, batch, destroyed, newBarcode)
           \/ \E status \in Statuses : MarkBoxStatus(b, status)
           \/ RelocatePermOut(b)
           \/ SendBoxToDisinfestation(b)
           \/ \E toArchive \in BOOLEAN : FinishDisinfestation(b, toArchive)
  BY <1>2, <1>3 DEF EditBox, MarkBoxStatus, RelocatePermOut, SendBoxToDisinfestation,
                    FinishDisinfestation, Live, Stored
<1>4. ASSUME NEW batch \in Batches, ChangeBoxBatch(b, batch)
      PROVE  PlacementStep
  <2>1. \A d \in Docs : /\ documents'[d].life = documents[d].life
                        /\ documents'[d].box = documents[d].box
    BY <1>1, <1>4 DEF ChangeBoxBatch, TypeOK, DocRow
  <2>2. Stored(boxes[b]) /\ \A c \in Boxes \ {b} : boxes'[c] = boxes[c]
    BY <1>1, <1>4 DEF ChangeBoxBatch, Live, Stored, TypeOK
  <2> QED
    BY <2>1, <2>2, BoxStepRefines
<1>5. ASSUME NEW kind \in Kinds, NEW status \in Statuses, NEW batch \in AnyBatch,
             CreateBox(b, kind, status, batch)
      PROVE  PlacementStep
  <2>1. UNCHANGED documents /\ \A c \in Boxes \ {b} : boxes'[c] = boxes[c]
    BY <1>1, <1>5 DEF CreateBox, TypeOK
  <2>2. BoxOpen(b)'
    BY <1>1, <1>5 DEF CreateBox, BoxOpen, Live, TypeOK
  <2> QED
    BY <2>1, <2>2, BoxStepRefines
<1>6. CASE DestroyBox(b) \/ ArchiveBox(b) \/ RestoreBox(b)
  <2>1. /\ UNCHANGED documents
        /\ \A c \in Boxes \ {b} : boxes'[c] = boxes[c]
        /\ Stored(boxes[b])
    BY <1>1, <1>6 DEF DestroyBox, ArchiveBox, RestoreBox, Live, Stored, TypeOK
  <2> QED
    BY <2>1, BoxStepRefines
<1>7. CASE ForceDeleteBox(b)
  <2>1. /\ UNCHANGED documents
        /\ \A c \in Boxes \ {b} : boxes'[c] = boxes[c]
        /\ ~Stored(boxes'[b])
    BY <1>1, <1>7, ForceDeleteLeavesDocuments DEF ForceDeleteBox, NoBoxRow, Stored, TypeOK
  <2> QED
    BY <2>1, BoxStepRefines
<1> QED
  BY <1>3, <1>4, <1>5, <1>6, <1>7 DEF BoxRequest

(* Saving a document is a Put, a Withdraw, or no step of Placement.        *)
LEMMA SaveDocRefines ==
    ASSUME CustodyInv, NEW d \in Docs, NEW row \in DocRow, Stored(documents[d]),
           SaveDoc(d, row)
    PROVE  PlacementStep
<1>1. documents \in [Docs -> DocRow]
  BY DEF CustodyInv, TypeOK
<1>2. AfterSave(d, row).box = row.box
  BY DEF AfterSave, Synced, DocRow
<1>3. row.box = documents[d].box \/ row.box \in openBoxes \cup {NoBox}
  BY DEF SaveDoc, DocGuards, Moved, openBoxes, DocRow
<1>4. documents' = [documents EXCEPT ![d] = AfterSave(d, row)] /\ UNCHANGED boxes
  BY DEF SaveDoc
<1> QED
  BY <1>1, <1>2, <1>3, <1>4, DocStepRefines

(* Every request on a document is a step of Placement, or none.            *)
LEMMA DocRequestRefines ==
    ASSUME CustodyInv, CustodyInv', NEW d \in Docs, DocRequest(d)
    PROVE  PlacementStep
<1>1. TypeOK /\ documents[d] \in DocRow
  BY DEF CustodyInv, TypeOK
<1>2. ASSUME NEW row \in NewDocs, CreateDoc(d, row) \/ CreateDocHalfway(d, row)
      PROVE  PlacementStep
  <2>1. row \in DocRow
    BY DEF NewDocs, NewDoc, DocRow, Lives, Statuses, AnyBatch
  <2>2. Synced(row).box = row.box
    BY <2>1 DEF Synced, DocRow
  <2>3. row.box \in openBoxes \cup {NoBox}
    BY <1>2, <2>1 DEF CreateDoc, CreateDocHalfway, Insertable, openBoxes, DocRow
  <2>4. PICK written \in {row, Synced(row)} :
            documents' = [documents EXCEPT ![d] = written] /\ UNCHANGED boxes
    BY <1>2 DEF CreateDoc, CreateDocHalfway
  <2>5. written.box \in openBoxes \cup {NoBox}
    BY <2>2, <2>3, <2>4
  <2> QED
    BY <1>1, <2>4, <2>5, DocStepRefines DEF TypeOK
<1>3. ASSUME NEW wills \in BOOLEAN, NEW catalogued \in BOOLEAN,
             EditDoc(d, wills, catalogued)
      PROVE  PlacementStep
  <2>1. [documents[d] EXCEPT !.wills = wills, !.catalogued = catalogued] \in DocRow
    BY <1>1 DEF DocRow
  <2> QED
    BY <1>3, <2>1, SaveDocRefines DEF EditDoc
<1>4. ASSUME NEW b \in Boxes, MoveToBox(d, b)
      PROVE  PlacementStep
  <2>1. [documents[d] EXCEPT !.box = b,
            !.batch = IF boxes[b].batch = NoBatch THEN @ ELSE boxes[b].batch] \in DocRow
    BY <1>1 DEF TypeOK, DocRow, BoxRow
  <2> QED
    BY <1>4, <2>1, SaveDocRefines DEF MoveToBox
<1>5. CASE MoveOutOfBox(d)
  <2>1. [documents[d] EXCEPT !.box = NoBox] \in DocRow
    BY <1>1 DEF DocRow
  <2> QED
    BY <1>5, <2>1, SaveDocRefines DEF MoveOutOfBox
<1>6. CASE MoveToRepository(d)
  <2>1. [documents[d] EXCEPT !.box = NoBox, !.batch = NoBatch] \in DocRow
    BY <1>1 DEF DocRow
  <2> QED
    BY <1>6, <2>1, SaveDocRefines DEF MoveToRepository
<1>7. CASE SendDocToDisinfestation(d) \/ MarkDisinfested(d)
  <2>1. PICK status \in Statuses : Stored(documents[d]) /\ ApplyBarcodeStatus(d, status)
    BY <1>7 DEF SendDocToDisinfestation, MarkDisinfested, Statuses
  <2>2. CASE BoxOnScreen(d)
    <3>1. documents[d].box \in Boxes /\ Stored(boxes[documents[d].box])
      BY <1>1, <2>2 DEF BoxOnScreen, DocRow, Live, Stored
    <3>2. SaveBox(documents[d].box,
                  [boxes[documents[d].box] EXCEPT !.status = status], FALSE)
      BY <2>1, <2>2 DEF ApplyBarcodeStatus
    <3> QED
      BY <1>1, <3>1, <3>2, SaveBoxFrame, BoxStepRefines
  <2>3. CASE ~BoxOnScreen(d)
    <3> DEFINE row == [documents[d] EXCEPT !.status = status]
    <3>1. documents' = [documents EXCEPT ![d] = row] /\ UNCHANGED boxes
      BY <2>1, <2>3 DEF ApplyBarcodeStatus
    <3>2. Stored(row) /\ row.box = documents[d].box
      BY <1>1, <2>1 DEF DocRow, Stored
    <3> HIDE DEF row
    <3> QED
      BY <1>1, <2>1, <3>1, <3>2, DocStepRefines DEF TypeOK
  <2> QED
    BY <2>2, <2>3
<1>8. CASE ArchiveDoc(d) \/ RestoreDoc(d)
  <2>1. PICK life \in {"live", "archived"} :
            documents' = [documents EXCEPT ![d].life = life] /\ UNCHANGED boxes
    BY <1>8 DEF ArchiveDoc, RestoreDoc
  <2> DEFINE row == [documents[d] EXCEPT !.life = life]
  <2>2. /\ Stored(documents[d]) /\ Stored(row) /\ row.box = documents[d].box
        /\ documents' = [documents EXCEPT ![d] = row]
    BY <1>1, <1>8, <2>1 DEF ArchiveDoc, RestoreDoc, Live, Stored, DocRow
  <2> HIDE DEF row
  <2> QED
    BY <1>1, <2>1, <2>2, DocStepRefines DEF TypeOK
<1>9. CASE ForceDeleteDoc(d)
  <2>1. ~Stored(NoDocRow)
    BY DEF NoDocRow, Stored
  <2> QED
    BY <1>1, <1>9, <2>1, DocStepRefines DEF ForceDeleteDoc, TypeOK
<1> QED
  BY <1>2, <1>3, <1>4, <1>5, <1>6, <1>7, <1>8, <1>9 DEF DocRequest

(* Every step of Custody, stuttering included, is a step of Placement or   *)
(* none.                                                                   *)
LEMMA CustodyStepRefines ==
    CustodyInv /\ CustodyInv' /\ [Next]_vars => [P!PlacementNext]_(P!placementVars)
<1> SUFFICES ASSUME CustodyInv, CustodyInv', [Next]_vars PROVE PlacementStep
  BY DEF PlacementStep
<1>1. CASE UNCHANGED vars
  BY <1>1 DEF vars, PlacementStep, P!placementVars, placeOf, storedBoxes, openBoxes,
              BoxOpen, Live, Stored
<1>2. CASE Next
  BY <1>2, BoxRequestRefines, DocRequestRefines DEF Next
<1> QED
  BY <1>1, <1>2

(* The empty tables map to the initial state of Placement.                 *)
LEMMA CustodyInitRefines == Init => P!PlacementInit
<1> SUFFICES ASSUME Init PROVE P!PlacementInit
  OBVIOUS
<1>1. placeOf = [d \in Docs |-> Gone]
  BY DEF Init, placeOf, Stored, NoDocRow
<1>2. storedBoxes = {} /\ openBoxes = {}
  BY DEF Init, storedBoxes, openBoxes, BoxOpen, Live, Stored, NoBoxRow
<1> QED
  BY <1>1, <1>2 DEF P!PlacementInit

(* The custody requests implement Placement.                               *)
THEOREM CustodyImplementsPlacement == Spec => ImplementsPlacement
<1>1. Spec => P!PlacementSpec
  BY CustodyInitRefines, CustodyStepRefines, CustodyInvariant, PTL
     DEF Spec, P!PlacementSpec
<1> QED
  BY <1>1 DEF ImplementsPlacement

=============================================================================
