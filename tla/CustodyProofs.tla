--------------------------- MODULE CustodyProofs ---------------------------
(***************************************************************************)
(* Proofs about Custody, for every set of boxes, documents and batches.    *)
(***************************************************************************)
EXTENDS Custody, TLAPS

-----------------------------------------------------------------------------
(* Typing                                                                  *)

(* Whatever valid row a box is saved with, the tables stay well typed.     *)
LEMMA SaveBoxTypes ==
    ASSUME TypeOK, NEW b \in Boxes, NEW row \in BoxRow, NEW newBarcode \in BOOLEAN,
           SaveBox(b, row, newBarcode)
    PROVE  TypeOK'
<1>1. boxes' \in [Boxes -> BoxRow]
  BY DEF SaveBox, TypeOK
<1>2. Mirrored(b, row.status) \in [Docs -> DocRow]
  <2>1. row.status \in Statuses
    BY DEF BoxRow
  <2> QED
    BY <2>1 DEF Mirrored, TypeOK, DocRow
<1>3. documents' \in [Docs -> DocRow]
  BY <1>2 DEF SaveBox, TypeOK
<1>4. past' \in Pasts
  BY DEF SaveBox, TypeOK, Pasts
<1> QED
  BY <1>1, <1>3, <1>4 DEF TypeOK

(* A re-mirrored row is a document row.                                    *)
LEMMA SyncedTypes ==
    ASSUME TypeOK, NEW row \in DocRow
    PROVE  Synced(row) \in DocRow
<1>1. CASE row.box = NoBox
  BY <1>1 DEF Synced
<1>2. CASE row.box # NoBox
  <2>1. boxes[row.box] \in BoxRow
    BY <1>2 DEF TypeOK, DocRow
  <2> QED
    BY <2>1, <1>2 DEF Synced, DocRow, BoxRow
<1> QED
  BY <1>1, <1>2

(* Saving a document keeps the tables and the histories well typed,        *)
(* whatever legal row is saved.                                            *)
LEMMA SaveDocTypes ==
    ASSUME TypeOK, NEW d \in Docs, NEW row \in DocRow, SaveDoc(d, row)
    PROVE  TypeOK'
<1>1. AfterSave(d, row) \in DocRow
  BY SyncedTypes DEF AfterSave
<1>2. documents' \in [Docs -> DocRow]
  BY <1>1 DEF SaveDoc, TypeOK
<1>3. past' \in Pasts
  BY DEF SaveDoc, TypeOK, Pasts
<1> QED
  BY <1>2, <1>3 DEF SaveDoc, TypeOK

-----------------------------------------------------------------------------
(* The inductive invariant. The mirror invariants need to know that an     *)
(* archived row is noted in its history: it is what lets a request write   *)
(* the status of a document without the box, or move it into the wills     *)
(* batch unchecked.                                                        *)
ArchivalNoted ==
    /\ \A b \in Boxes : boxes[b].life = "archived" => b \in past.archivedBoxes
    /\ \A d \in Docs : documents[d].life = "archived" => d \in past.archivedDocs

CustodyInv == /\ TypeOK
              /\ NoDanglingBox
              /\ StatusMirror
              /\ BatchMirror
              /\ WillsReserve
              /\ ArchivalNoted

(* Saving a stored box keeps the invariant: a changed status reaches every *)
(* document of the box, and a changed batch is noted.                      *)
LEMMA SaveBoxKeeps ==
    ASSUME CustodyInv, NEW b \in Boxes, NEW row \in BoxRow, NEW newBarcode \in BOOLEAN,
           Stored(boxes[b]), row.life = boxes[b].life, SaveBox(b, row, newBarcode)
    PROVE  CustodyInv'
<1>1. TypeOK'
  BY SaveBoxTypes DEF CustodyInv
<1>2. \A c \in Boxes : boxes'[c] = IF c = b THEN row ELSE boxes[c]
  BY DEF SaveBox, CustodyInv, TypeOK
<1>3. \A d \in Docs : /\ documents'[d].life = documents[d].life
                      /\ documents'[d].box = documents[d].box
                      /\ documents'[d].batch = documents[d].batch
                      /\ documents'[d].wills = documents[d].wills
  BY DEF SaveBox, Mirrored, CustodyInv, TypeOK, DocRow
<1>4. \A d \in Docs : documents'[d].status =
          IF d \in Inside(b) /\ row.status # boxes[b].status THEN row.status
                                                            ELSE documents[d].status
  BY DEF SaveBox, Mirrored, CustodyInv, TypeOK, DocRow
<1>5. /\ past'.halfCreated = past.halfCreated
      /\ past'.archivedDocs = past.archivedDocs
      /\ past'.archivedBoxes = IF Live(row) /\ row.status # boxes[b].status
                               THEN past.archivedBoxes \ {b} ELSE past.archivedBoxes
      /\ past'.rebatchedBoxes = IF row.batch # boxes[b].batch
                                THEN past.rebatchedBoxes \cup {b} ELSE past.rebatchedBoxes
  BY DEF SaveBox, CustodyInv, TypeOK, Pasts
<1>6. \A c \in Boxes : Inside(c)' = Inside(c)
  BY <1>3 DEF Inside, Stored
<1>7. NoDanglingBox'
  <2>1. \A d \in Docs : documents[d].box \in Boxes \cup {NoBox}
    BY DEF CustodyInv, TypeOK, DocRow
  <2> QED
    BY <2>1, <1>2, <1>3 DEF NoDanglingBox, Stored, CustodyInv
<1>8. StatusMirror'
  <2> SUFFICES ASSUME NEW d \in Docs, NEW c \in Boxes, d \in Inside(c),
                      c \notin past'.archivedBoxes, d \notin past.halfCreated
               PROVE  documents'[d].status = boxes'[c].status
    BY <1>5, <1>6 DEF StatusMirror
  <2>1. CASE c = b /\ row.status # boxes[b].status
    BY <2>1, <1>2, <1>4
  <2>2. CASE c = b /\ row.status = boxes[b].status
    BY <2>2, <1>2, <1>4, <1>5 DEF CustodyInv, StatusMirror
  <2>3. CASE c # b
    <3>1. d \notin Inside(b)
      BY <2>3 DEF Inside
    <3> QED
      BY <3>1, <2>3, <1>2, <1>4, <1>5 DEF CustodyInv, StatusMirror
  <2> QED
    BY <2>1, <2>2, <2>3
<1>9. BatchMirror'
  BY <1>2, <1>3, <1>5, <1>6 DEF BatchMirror, CustodyInv
<1>10. WillsReserve'
  BY <1>3, <1>5 DEF WillsReserve, WillsAllowed, Stored, CustodyInv
<1>11. ArchivalNoted'
  BY <1>2, <1>3, <1>5 DEF ArchivalNoted, Live, CustodyInv
<1> QED
  BY <1>1, <1>7, <1>8, <1>9, <1>10, <1>11 DEF CustodyInv

(* Saving a stored document keeps the invariant, whatever it moves to,     *)
(* provided the request leaves its status alone and gives it no batch but  *)
(* its own, its box's, or none together with no box.                       *)
LEMMA SaveDocKeeps ==
    ASSUME CustodyInv, NEW d \in Docs, NEW row \in DocRow,
           Stored(documents[d]), row.life = documents[d].life,
           row.status = documents[d].status,
           \/ row.box = NoBox
           \/ row.batch = documents[d].batch
           \/ row.batch = boxes[row.box].batch,
           SaveDoc(d, row)
    PROVE  CustodyInv'
<1> DEFINE after == AfterSave(d, row)
<1>1. TypeOK'
  BY SaveDocTypes DEF CustodyInv
<1>2. /\ after \in DocRow
      /\ after.life = documents[d].life
      /\ after.box = row.box
      /\ after.wills = row.wills
  BY SyncedTypes DEF AfterSave, Synced, CustodyInv, DocRow
<1>3. \A e \in Docs : documents'[e] = IF e = d THEN after ELSE documents[e]
  BY DEF SaveDoc, CustodyInv, TypeOK
<1>4. boxes' = boxes
  BY DEF SaveDoc
<1>5. /\ past'.archivedBoxes = past.archivedBoxes
      /\ past'.rebatchedBoxes = past.rebatchedBoxes
      /\ past'.halfCreated = IF Moved(d, row) THEN past.halfCreated \ {d}
                                             ELSE past.halfCreated
      /\ past'.archivedDocs = IF /\ Live(row)
                                 /\ Reclassified(d, row) \/ after # row
                              THEN past.archivedDocs \ {d} ELSE past.archivedDocs
  BY DEF SaveDoc, CustodyInv, TypeOK, Pasts
<1>6. \A e \in Docs, c \in Boxes : e # d => (e \in Inside(c)' <=> e \in Inside(c))
  BY <1>3 DEF Inside
<1>7. \A c \in Boxes : d \in Inside(c)' <=> row.box = c
  BY <1>2, <1>3 DEF Inside, Stored
<1>8. \A c \in Boxes : ~Moved(d, row) => (d \in Inside(c) <=> row.box = c)
  BY DEF Inside, Moved
<1>9. Moved(d, row) /\ row.box # NoBox => BoxOpen(row.box)
  BY DEF SaveDoc, DocGuards
<1>10. NoDanglingBox'
  <2> SUFFICES ASSUME NEW e \in Docs, Stored(documents'[e]), documents'[e].box # NoBox
               PROVE  Stored(boxes[documents'[e].box])
    BY <1>4 DEF NoDanglingBox, Stored
  <2>1. CASE e # d
    BY <2>1, <1>3 DEF NoDanglingBox, CustodyInv
  <2>2. CASE e = d /\ Moved(d, row)
    BY <2>2, <1>2, <1>3, <1>9 DEF BoxOpen, Live, Stored
  <2>3. CASE e = d /\ ~Moved(d, row)
    BY <2>3, <1>2, <1>3 DEF Moved, NoDanglingBox, CustodyInv
  <2> QED
    BY <2>1, <2>2, <2>3
<1>11. StatusMirror'
  <2> SUFFICES ASSUME NEW e \in Docs, NEW c \in Boxes, e \in Inside(c)',
                      c \notin past.archivedBoxes, e \notin past'.halfCreated
               PROVE  documents'[e].status = boxes[c].status
    BY <1>4, <1>5 DEF StatusMirror
  <2>1. CASE e # d
    BY <2>1, <1>3, <1>5, <1>6 DEF StatusMirror, CustodyInv
  <2>2. CASE e = d /\ Moved(d, row)
    <3>1. row.box = c /\ c # NoBox
      BY <2>2, <1>7, CustodyAssumption
    <3>2. after.status = boxes[c].status
      BY <2>2, <3>1 DEF AfterSave, Synced, DocRow
    <3> QED
      BY <2>2, <3>2, <1>3
  <2>3. CASE e = d /\ ~Moved(d, row)
    <3>1. after = row
      BY <2>3 DEF AfterSave
    <3>2. d \in Inside(c) /\ d \notin past.halfCreated
      BY <2>3, <1>5, <1>7, <1>8
    <3> QED
      BY <2>3, <3>1, <3>2, <1>3 DEF StatusMirror, CustodyInv
  <2> QED
    BY <2>1, <2>2, <2>3
<1>12. BatchMirror'
  <2> SUFFICES ASSUME NEW e \in Docs, NEW c \in Boxes, e \in Inside(c)',
                      boxes[c].batch # NoBatch,
                      c \notin past.rebatchedBoxes, e \notin past'.halfCreated
               PROVE  documents'[e].batch = boxes[c].batch
    BY <1>4, <1>5 DEF BatchMirror
  <2>1. CASE e # d
    BY <2>1, <1>3, <1>5, <1>6 DEF BatchMirror, CustodyInv
  <2>2. CASE e = d /\ Moved(d, row)
    <3>1. row.box = c /\ c # NoBox
      BY <2>2, <1>7, CustodyAssumption
    <3>2. after.batch = boxes[c].batch
      BY <2>2, <3>1 DEF AfterSave, Synced, DocRow
    <3> QED
      BY <2>2, <3>2, <1>3
  <2>3. CASE e = d /\ ~Moved(d, row)
    <3>1. after = row
      BY <2>3 DEF AfterSave
    <3>2. d \in Inside(c) /\ d \notin past.halfCreated /\ row.box = c
      BY <2>3, <1>5, <1>7, <1>8
    <3>3. documents[d].batch = boxes[c].batch
      BY <3>2 DEF BatchMirror, CustodyInv
    <3> QED
      BY <2>3, <3>1, <3>2, <3>3, <1>3, CustodyAssumption
  <2> QED
    BY <2>1, <2>2, <2>3
<1>13. WillsReserve'
  <2> SUFFICES ASSUME NEW e \in Docs, Stored(documents'[e]), e \notin past'.archivedDocs
               PROVE  WillsAllowed(documents'[e])
    BY DEF WillsReserve, Stored, WillsAllowed
  <2>1. CASE e # d
    BY <2>1, <1>3, <1>5 DEF WillsReserve, CustodyInv
  <2>2. CASE e = d /\ after # row
    BY <2>2, <1>3 DEF SaveDoc
  <2>3. CASE e = d /\ after = row /\ Reclassified(d, row)
    BY <2>3, <1>3 DEF SaveDoc, DocGuards
  <2>4. CASE e = d /\ after = row /\ ~Reclassified(d, row)
    <3>1. d \notin past.archivedDocs
      BY <2>4, <1>5
    <3>2. WillsAllowed(documents[d])
      BY <3>1 DEF WillsReserve, CustodyInv
    <3> QED
      BY <2>4, <3>2, <1>3 DEF WillsAllowed, Reclassified
  <2> QED
    BY <2>1, <2>2, <2>3, <2>4
<1>14. ArchivalNoted'
  BY <1>2, <1>3, <1>4, <1>5 DEF ArchivalNoted, Live, CustodyInv
<1> QED
  BY <1>1, <1>10, <1>11, <1>12, <1>13, <1>14 DEF CustodyInv

-----------------------------------------------------------------------------
(* A status that reaches a document through applyBarcodeStatus, by its box *)
(* or, when the box is archived or there is none, directly.                *)
LEMMA ApplyBarcodeStatusKeeps ==
    ASSUME CustodyInv, NEW d \in Docs, NEW status \in Statuses,
           Stored(documents[d]), ApplyBarcodeStatus(d, status)
    PROVE  CustodyInv'
<1>1. documents[d] \in DocRow
  BY DEF CustodyInv, TypeOK
<1>2. CASE BoxOnScreen(d)
  <2> DEFINE b == documents[d].box
  <2>1. b \in Boxes /\ Stored(boxes[b])
    BY <1>1, <1>2 DEF BoxOnScreen, DocRow, Live, Stored
  <2>2. boxes[b] \in BoxRow
    BY <2>1 DEF CustodyInv, TypeOK
  <2> DEFINE row == [boxes[b] EXCEPT !.status = status]
  <2>3. row \in BoxRow /\ row.life = boxes[b].life
    BY <2>2 DEF BoxRow
  <2>4. SaveBox(b, row, FALSE)
    BY <1>2 DEF ApplyBarcodeStatus
  <2> QED
    BY <2>1, <2>3, <2>4, SaveBoxKeeps
<1>3. CASE ~BoxOnScreen(d)
  <2> DEFINE row == [documents[d] EXCEPT !.status = status]
  <2>1. documents' = [documents EXCEPT ![d] = row] /\ UNCHANGED <<boxes, past>>
    BY <1>3 DEF ApplyBarcodeStatus
  <2>2. row \in DocRow
    BY <1>1 DEF DocRow
  <2>3. \A e \in Docs : documents'[e] = IF e = d THEN row ELSE documents[e]
    BY <2>1 DEF CustodyInv, TypeOK
  <2>4. TypeOK'
    BY <2>1, <2>2 DEF CustodyInv, TypeOK
  <2>5. \A e \in Docs : /\ documents'[e].life = documents[e].life
                        /\ documents'[e].box = documents[e].box
                        /\ documents'[e].batch = documents[e].batch
                        /\ documents'[e].wills = documents[e].wills
    BY <1>1, <2>3 DEF DocRow
  <2>6. \A c \in Boxes : Inside(c)' = Inside(c)
    BY <2>5 DEF Inside, Stored
  <2>7. NoDanglingBox' /\ BatchMirror' /\ WillsReserve' /\ ArchivalNoted'
    BY <2>1, <2>5, <2>6 DEF NoDanglingBox, BatchMirror, WillsReserve, ArchivalNoted,
                            WillsAllowed, Stored, CustodyInv
  <2>8. StatusMirror'
    <3> SUFFICES ASSUME NEW e \in Docs, NEW c \in Boxes, e \in Inside(c),
                        c \notin past.archivedBoxes, e \notin past.halfCreated
                 PROVE  documents'[e].status = boxes[c].status
      BY <2>1, <2>6 DEF StatusMirror
    <3>1. CASE e # d
      BY <3>1, <2>3 DEF StatusMirror, CustodyInv
    <3>2. CASE e = d
      <4>1. documents[d].box = c /\ c # NoBox
        BY <3>2, CustodyAssumption DEF Inside
      <4>2. Stored(boxes[c])
        BY <4>1 DEF NoDanglingBox, CustodyInv
      <4>3. boxes[c].life \in Lives
        BY DEF CustodyInv, TypeOK, BoxRow
      <4>4. boxes[c].life = "archived"
        BY <4>1, <4>2, <4>3, <1>3 DEF BoxOnScreen, Live, Stored, Lives
      <4> QED
        BY <4>4 DEF ArchivalNoted, CustodyInv
    <3> QED
      BY <3>1, <3>2
  <2> QED
    BY <2>4, <2>7, <2>8 DEF CustodyInv
<1> QED
  BY <1>2, <1>3

-----------------------------------------------------------------------------
(* The requests that do not go through a save of one row.                  *)

(* Replacing a box row without touching the documents: either the row      *)
(* keeps what its documents copy from it, or nothing is in the box.        *)
LEMMA ReplaceBoxKeeps ==
    ASSUME CustodyInv, NEW b \in Boxes, NEW row \in BoxRow,
           boxes' = [boxes EXCEPT ![b] = row],
           UNCHANGED documents,
           past' \in Pasts,
           past'.halfCreated = past.halfCreated,
           past'.archivedDocs = past.archivedDocs,
           \A c \in Boxes \ {b} :
               /\ c \in past'.archivedBoxes <=> c \in past.archivedBoxes
               /\ c \in past'.rebatchedBoxes <=> c \in past.rebatchedBoxes,
           \/ Inside(b) = {}
           \/ /\ Stored(row)
              /\ row.status = boxes[b].status
              /\ row.batch = boxes[b].batch
              /\ b \in past.archivedBoxes => b \in past'.archivedBoxes
              /\ b \in past.rebatchedBoxes => b \in past'.rebatchedBoxes,
           row.life = "archived" => b \in past'.archivedBoxes
    PROVE  CustodyInv'
<1>1. \A c \in Boxes : boxes'[c] = IF c = b THEN row ELSE boxes[c]
  BY DEF CustodyInv, TypeOK
<1>2. TypeOK'
  BY DEF CustodyInv, TypeOK
<1>3. \A c \in Boxes : Inside(c)' = Inside(c)
  BY DEF Inside, Stored
<1>4. \A d \in Docs : documents[d].box \in Boxes \cup {NoBox}
  BY DEF CustodyInv, TypeOK, DocRow
<1>5. NoDanglingBox'
  <2> SUFFICES ASSUME NEW d \in Docs, Stored(documents[d]), documents[d].box # NoBox
               PROVE  Stored(boxes'[documents[d].box])
    BY DEF NoDanglingBox, Stored
  <2>1. CASE documents[d].box = b
    <3>1. d \in Inside(b)
      BY <2>1 DEF Inside
    <3> QED
      BY <2>1, <3>1, <1>1
  <2>2. CASE documents[d].box # b
    BY <2>2, <1>1, <1>4 DEF NoDanglingBox, CustodyInv
  <2> QED
    BY <2>1, <2>2
<1>6. StatusMirror'
  <2> SUFFICES ASSUME NEW d \in Docs, NEW c \in Boxes, d \in Inside(c),
                      c \notin past'.archivedBoxes, d \notin past.halfCreated
               PROVE  documents[d].status = boxes'[c].status
    BY <1>3 DEF StatusMirror
  <2> QED
    BY <1>1 DEF StatusMirror, CustodyInv
<1>7. BatchMirror'
  <2> SUFFICES ASSUME NEW d \in Docs, NEW c \in Boxes, d \in Inside(c),
                      boxes'[c].batch # NoBatch,
                      c \notin past'.rebatchedBoxes, d \notin past.halfCreated
               PROVE  documents[d].batch = boxes'[c].batch
    BY <1>3 DEF BatchMirror
  <2> QED
    BY <1>1 DEF BatchMirror, CustodyInv
<1>8. WillsReserve'
  BY DEF WillsReserve, WillsAllowed, Stored, CustodyInv
<1>9. ArchivalNoted'
  BY <1>1 DEF ArchivalNoted, CustodyInv
<1> QED
  BY <1>2, <1>5, <1>6, <1>7, <1>8, <1>9 DEF CustodyInv

(* A box that is deleted for good holds nothing, so the foreign key has    *)
(* nothing to clear.                                                       *)
LEMMA ForceDeleteLeavesDocuments ==
    ASSUME TypeOK, NEW b \in Boxes, ForceDeleteBox(b)
    PROVE  UNCHANGED documents
<1>1. documents = [d \in Docs |-> documents[d]]
  BY DEF TypeOK
<1>2. documents' = [d \in Docs |-> documents[d]]
  BY DEF ForceDeleteBox, Unboxed
<1> QED
  BY <1>1, <1>2

(* Creating, archiving, restoring and deleting a box keep the invariant:   *)
(* the mirror is excused before it can break, and no document loses its    *)
(* box.                                                                    *)
LEMMA BoxLifecycleKeeps ==
    ASSUME CustodyInv, NEW b \in Boxes,
           \/ \E kind \in Kinds, status \in Statuses, batch \in AnyBatch :
                  CreateBox(b, kind, status, batch)
           \/ DestroyBox(b)
           \/ ArchiveBox(b)
           \/ RestoreBox(b)
           \/ ForceDeleteBox(b)
    PROVE  CustodyInv'
<1>1. boxes[b] \in BoxRow /\ past \in Pasts
  BY DEF CustodyInv, TypeOK
<1>2. ASSUME NEW kind \in Kinds, NEW status \in Statuses, NEW batch \in AnyBatch,
             CreateBox(b, kind, status, batch)
      PROVE  CustodyInv'
  <2> DEFINE row == [life |-> "live", kind |-> kind, status |-> status,
                     batch |-> batch, destroyed |-> FALSE]
  <2>1. row \in BoxRow
    BY CustodyAssumption DEF BoxRow, Lives, AnyBatch
  <2>2. Inside(b) = {}
    BY <1>2, CustodyAssumption DEF CreateBox, Inside, NoDanglingBox, CustodyInv
  <2> QED
    BY <1>1, <1>2, <2>1, <2>2, ReplaceBoxKeeps DEF CreateBox
<1>3. CASE DestroyBox(b)
  <2> DEFINE row == [boxes[b] EXCEPT !.destroyed = TRUE]
  <2>1. /\ row \in BoxRow /\ Stored(row)
        /\ row.status = boxes[b].status /\ row.batch = boxes[b].batch
        /\ row.life # "archived"
    BY <1>1, <1>3 DEF BoxRow, Stored, DestroyBox, Live
  <2> QED
    BY <1>1, <1>3, <2>1, ReplaceBoxKeeps DEF DestroyBox
<1>4. CASE ArchiveBox(b)
  <2> DEFINE row == [boxes[b] EXCEPT !.life = "archived"]
  <2>1. /\ row \in BoxRow /\ Stored(row)
        /\ row.status = boxes[b].status /\ row.batch = boxes[b].batch
    BY <1>1 DEF BoxRow, Stored, Lives
  <2>2. /\ past' \in Pasts
        /\ past'.archivedBoxes = past.archivedBoxes \cup {b}
        /\ past'.rebatchedBoxes = past.rebatchedBoxes
        /\ past'.halfCreated = past.halfCreated
        /\ past'.archivedDocs = past.archivedDocs
    BY <1>1, <1>4 DEF ArchiveBox, Pasts
  <2> QED
    BY <1>4, <2>1, <2>2, ReplaceBoxKeeps DEF ArchiveBox
<1>5. CASE RestoreBox(b)
  <2> DEFINE row == [boxes[b] EXCEPT !.life = "live"]
  <2>1. /\ row \in BoxRow /\ Stored(row)
        /\ row.status = boxes[b].status /\ row.batch = boxes[b].batch
        /\ row.life # "archived"
    BY <1>1 DEF BoxRow, Stored, Lives
  <2> QED
    BY <1>1, <1>5, <2>1, ReplaceBoxKeeps DEF RestoreBox
<1>6. CASE ForceDeleteBox(b)
  <2>1. NoBoxRow \in BoxRow /\ NoBoxRow.life # "archived"
    BY DEF NoBoxRow, BoxRow, Lives, Statuses
  <2>2. /\ past' \in Pasts
        /\ past'.archivedBoxes = past.archivedBoxes \ {b}
        /\ past'.rebatchedBoxes = past.rebatchedBoxes \ {b}
        /\ past'.halfCreated = past.halfCreated
        /\ past'.archivedDocs = past.archivedDocs
    BY <1>1, <1>6 DEF ForceDeleteBox, Pasts
  <2> QED
    BY <1>6, <2>1, <2>2, ReplaceBoxKeeps, ForceDeleteLeavesDocuments
    DEF ForceDeleteBox, CustodyInv
<1> QED
  BY <1>2, <1>3, <1>4, <1>5, <1>6

(* Moving a box with its documents to another batch keeps the invariant;   *)
(* the wills rule of the archived documents is excused by archivedDocs.    *)
LEMMA ChangeBoxBatchKeeps ==
    ASSUME CustodyInv, NEW b \in Boxes, NEW batch \in Batches, ChangeBoxBatch(b, batch)
    PROVE  CustodyInv'
<1>1. \A d \in Docs : documents'[d] =
          IF d \in Inside(b) THEN [documents[d] EXCEPT !.batch = batch] ELSE documents[d]
  BY DEF ChangeBoxBatch
<1>2. \A d \in Docs : documents[d] \in DocRow
  BY DEF CustodyInv, TypeOK
<1>3. \A d \in Docs : /\ documents'[d].life = documents[d].life
                      /\ documents'[d].box = documents[d].box
                      /\ documents'[d].status = documents[d].status
                      /\ documents'[d].wills = documents[d].wills
                      /\ documents'[d].batch = IF d \in Inside(b) THEN batch
                                                            ELSE documents[d].batch
  BY <1>1, <1>2 DEF DocRow
<1>4. \A c \in Boxes : /\ boxes'[c].life = boxes[c].life
                       /\ boxes'[c].status = boxes[c].status
                       /\ boxes'[c].batch = IF c = b THEN batch ELSE boxes[c].batch
  BY DEF ChangeBoxBatch, CustodyInv, TypeOK, BoxRow
<1>5. /\ past'.archivedBoxes = past.archivedBoxes
      /\ past'.rebatchedBoxes = past.rebatchedBoxes \ {b}
      /\ past'.halfCreated = past.halfCreated
      /\ past'.archivedDocs = past.archivedDocs
  BY DEF ChangeBoxBatch, CustodyInv, TypeOK, Pasts
<1>6. \A c \in Boxes : Inside(c)' = Inside(c)
  BY <1>3 DEF Inside, Stored
<1>7. TypeOK'
  <2>1. boxes' \in [Boxes -> BoxRow]
    BY DEF ChangeBoxBatch, CustodyInv, TypeOK, BoxRow
  <2>2. documents' \in [Docs -> DocRow]
    BY <1>2 DEF ChangeBoxBatch, DocRow
  <2>3. past' \in Pasts
    BY DEF ChangeBoxBatch, CustodyInv, TypeOK, Pasts
  <2> QED
    BY <2>1, <2>2, <2>3 DEF TypeOK
<1>8. NoDanglingBox'
  BY <1>2, <1>3, <1>4 DEF NoDanglingBox, Stored, CustodyInv, DocRow
<1>9. StatusMirror'
  BY <1>3, <1>4, <1>5, <1>6 DEF StatusMirror, CustodyInv
<1>10. BatchMirror'
  <2> SUFFICES ASSUME NEW d \in Docs, NEW c \in Boxes, d \in Inside(c),
                      boxes'[c].batch # NoBatch,
                      c \notin past'.rebatchedBoxes, d \notin past.halfCreated
               PROVE  documents'[d].batch = boxes'[c].batch
    BY <1>5, <1>6 DEF BatchMirror
  <2>1. CASE c = b
    BY <2>1, <1>3, <1>4
  <2>2. CASE c # b
    <3>1. d \notin Inside(b)
      BY <2>2 DEF Inside
    <3> QED
      BY <2>2, <3>1, <1>3, <1>4, <1>5 DEF BatchMirror, CustodyInv
  <2> QED
    BY <2>1, <2>2
<1>11. WillsReserve'
  <2> SUFFICES ASSUME NEW d \in Docs, Stored(documents[d]), d \notin past.archivedDocs,
                      documents'[d].batch \in WillsBatches
               PROVE  documents[d].wills
    BY <1>3, <1>5 DEF WillsReserve, WillsAllowed, Stored
  <2>1. CASE d \in Inside(b)
    <3>1. Live(documents[d])
      BY <1>2 DEF ArchivalNoted, CustodyInv, Stored, Live, DocRow, Lives
    <3> QED
      BY <2>1, <3>1, <1>3 DEF ChangeBoxBatch, DocsCheckedForWills
  <2>2. CASE d \notin Inside(b)
    BY <2>2, <1>3 DEF WillsReserve, WillsAllowed, CustodyInv
  <2> QED
    BY <2>1, <2>2
<1>12. ArchivalNoted'
  BY <1>3, <1>4, <1>5 DEF ArchivalNoted, CustodyInv
<1> QED
  BY <1>7, <1>8, <1>9, <1>10, <1>11, <1>12 DEF CustodyInv

(* Writing the row of one document, without touching the boxes: the row    *)
(* must satisfy for itself what the invariant says of a document.          *)
LEMMA WriteDocKeeps ==
    ASSUME CustodyInv, NEW d \in Docs, NEW row \in DocRow,
           documents' = [documents EXCEPT ![d] = row],
           UNCHANGED boxes,
           past' \in Pasts,
           past'.archivedBoxes = past.archivedBoxes,
           past'.rebatchedBoxes = past.rebatchedBoxes,
           \A e \in Docs \ {d} :
               /\ e \in past'.archivedDocs <=> e \in past.archivedDocs
               /\ e \in past'.halfCreated <=> e \in past.halfCreated,
           Stored(row) /\ row.box # NoBox => Stored(boxes[row.box]),
           Stored(row) /\ row.box # NoBox /\ d \notin past'.halfCreated =>
               /\ row.box \notin past.archivedBoxes => row.status = boxes[row.box].status
               /\ boxes[row.box].batch # NoBatch /\ row.box \notin past.rebatchedBoxes
                      => row.batch = boxes[row.box].batch,
           Stored(row) /\ d \notin past'.archivedDocs => WillsAllowed(row),
           row.life = "archived" => d \in past'.archivedDocs
    PROVE  CustodyInv'
<1>1. \A e \in Docs : documents'[e] = IF e = d THEN row ELSE documents[e]
  BY DEF CustodyInv, TypeOK
<1>2. TypeOK'
  BY DEF CustodyInv, TypeOK
<1>3. \A c \in Boxes : c # NoBox
  BY CustodyAssumption
<1>4. NoDanglingBox'
  BY <1>1 DEF NoDanglingBox, Stored, CustodyInv
<1>5. StatusMirror'
  BY <1>1, <1>3 DEF StatusMirror, Inside, CustodyInv
<1>6. BatchMirror'
  BY <1>1, <1>3 DEF BatchMirror, Inside, CustodyInv
<1>7. WillsReserve'
  BY <1>1 DEF WillsReserve, Stored, WillsAllowed, CustodyInv
<1>8. ArchivalNoted'
  BY <1>1 DEF ArchivalNoted, CustodyInv
<1> QED
  BY <1>2, <1>4, <1>5, <1>6, <1>7, <1>8 DEF CustodyInv

(* A new document, created whole or half way, keeps the invariant.         *)
LEMMA CreateDocKeeps ==
    ASSUME CustodyInv, NEW d \in Docs, NEW row \in NewDocs,
           CreateDoc(d, row) \/ CreateDocHalfway(d, row)
    PROVE  CustodyInv'
<1>1. row \in DocRow /\ row.life = "live"
  BY DEF NewDocs, NewDoc, DocRow, Lives, Statuses, AnyBatch
<1>2. Insertable(d, row)
  BY DEF CreateDoc, CreateDocHalfway
<1>3. row.box # NoBox => Stored(boxes[row.box])
  BY <1>2 DEF Insertable, BoxOpen, Live, Stored
<1>4. past \in Pasts
  BY DEF CustodyInv, TypeOK
<1>5. CASE CreateDoc(d, row)
  <2> DEFINE synced == Synced(row)
  <2>1. synced \in DocRow
    BY <1>1, SyncedTypes DEF CustodyInv
  <2>2. /\ synced.life = "live"
        /\ synced.box = row.box
        /\ synced.box # NoBox =>
              /\ synced.status = boxes[row.box].status
              /\ boxes[row.box].batch # NoBatch => synced.batch = boxes[row.box].batch
    BY <1>1 DEF Synced, DocRow
  <2>3. WillsAllowed(synced) /\ documents' = [documents EXCEPT ![d] = synced]
        /\ UNCHANGED <<boxes, past>>
    BY <1>5 DEF CreateDoc
  <2> HIDE DEF synced
  <2> QED
    BY <1>3, <1>4, <2>1, <2>2, <2>3, WriteDocKeeps
<1>6. CASE CreateDocHalfway(d, row)
  <2>1. /\ past' \in Pasts
        /\ past'.archivedBoxes = past.archivedBoxes
        /\ past'.rebatchedBoxes = past.rebatchedBoxes
        /\ past'.archivedDocs = past.archivedDocs
        /\ past'.halfCreated = past.halfCreated \cup {d}
    BY <1>4, <1>6 DEF CreateDocHalfway, Pasts
  <2>2. WillsAllowed(row)
    BY <1>2 DEF Insertable
  <2> QED
    BY <1>1, <1>3, <1>6, <2>1, <2>2, WriteDocKeeps DEF CreateDocHalfway
<1> QED
  BY <1>5, <1>6

(* Archiving, restoring and deleting a document keep the invariant.        *)
LEMMA DocLifecycleKeeps ==
    ASSUME CustodyInv, NEW d \in Docs,
           ArchiveDoc(d) \/ RestoreDoc(d) \/ ForceDeleteDoc(d)
    PROVE  CustodyInv'
<1>1. documents[d] \in DocRow /\ past \in Pasts
  BY DEF CustodyInv, TypeOK
<1>2. Stored(documents[d]) =>
         /\ documents[d].box # NoBox =>
               /\ Stored(boxes[documents[d].box])
               /\ documents[d].box \in Boxes
               /\ d \in Inside(documents[d].box)
         /\ documents[d].box # NoBox /\ d \notin past.halfCreated =>
               /\ documents[d].box \notin past.archivedBoxes
                     => documents[d].status = boxes[documents[d].box].status
               /\ boxes[documents[d].box].batch # NoBatch
                     => \/ documents[d].box \in past.rebatchedBoxes
                        \/ documents[d].batch = boxes[documents[d].box].batch
         /\ d \notin past.archivedDocs => WillsAllowed(documents[d])
  BY <1>1 DEF NoDanglingBox, StatusMirror, BatchMirror, WillsReserve, CustodyInv,
              Inside, DocRow
<1>3. CASE ArchiveDoc(d)
  <2> DEFINE row == [documents[d] EXCEPT !.life = "archived"]
  <2>1. /\ row \in DocRow /\ row.box = documents[d].box
        /\ row.status = documents[d].status /\ row.batch = documents[d].batch
    BY <1>1 DEF DocRow, Lives
  <2>2. /\ past' \in Pasts
        /\ past'.archivedBoxes = past.archivedBoxes
        /\ past'.rebatchedBoxes = past.rebatchedBoxes
        /\ past'.archivedDocs = past.archivedDocs \cup {d}
        /\ past'.halfCreated = past.halfCreated
    BY <1>1, <1>3 DEF ArchiveDoc, Pasts
  <2>3. /\ Stored(documents[d])
        /\ documents' = [documents EXCEPT ![d] = row]
        /\ boxes' = boxes
    BY <1>3 DEF ArchiveDoc, Live, Stored
  <2> HIDE DEF row
  <2> QED
    BY <1>2, <2>1, <2>2, <2>3, WriteDocKeeps
<1>4. CASE RestoreDoc(d)
  <2> DEFINE row == [documents[d] EXCEPT !.life = "live"]
  <2>1. /\ row \in DocRow /\ row.box = documents[d].box /\ row.life = "live"
        /\ row.status = documents[d].status /\ row.batch = documents[d].batch
    BY <1>1 DEF DocRow, Lives
  <2>2. /\ Stored(documents[d]) /\ d \in past.archivedDocs
        /\ documents' = [documents EXCEPT ![d] = row]
        /\ UNCHANGED <<boxes, past>>
    BY <1>4 DEF RestoreDoc, Stored, ArchivalNoted, CustodyInv
  <2> HIDE DEF row
  <2> QED
    BY <1>1, <1>2, <2>1, <2>2, WriteDocKeeps
<1>5. CASE ForceDeleteDoc(d)
  <2>1. NoDocRow \in DocRow /\ ~Stored(NoDocRow) /\ NoDocRow.life # "archived"
    BY DEF NoDocRow, DocRow, Lives, Statuses, Stored
  <2>2. /\ past' \in Pasts
        /\ past'.archivedBoxes = past.archivedBoxes
        /\ past'.rebatchedBoxes = past.rebatchedBoxes
        /\ past'.archivedDocs = past.archivedDocs \ {d}
        /\ past'.halfCreated = past.halfCreated \ {d}
    BY <1>1, <1>5 DEF ForceDeleteDoc, Pasts
  <2>3. documents' = [documents EXCEPT ![d] = NoDocRow] /\ boxes' = boxes
    BY <1>5 DEF ForceDeleteDoc
  <2> HIDE DEF NoDocRow
  <2> QED
    BY <2>1, <2>2, <2>3, WriteDocKeeps
<1> QED
  BY <1>3, <1>4, <1>5

-----------------------------------------------------------------------------
(* Every request keeps the invariant.                                      *)

(* Every request on a box keeps the invariant.                             *)
LEMMA BoxRequestKeeps ==
    ASSUME CustodyInv, NEW b \in Boxes, BoxRequest(b)
    PROVE  CustodyInv'
<1>1. boxes[b] \in BoxRow
  BY DEF CustodyInv, TypeOK
<1>2. ASSUME NEW kind \in Kinds, NEW status \in Statuses, NEW batch \in AnyBatch,
             NEW destroyed \in BOOLEAN, NEW newBarcode \in BOOLEAN,
             EditBox(b, kind, status, batch, destroyed, newBarcode)
      PROVE  CustodyInv'
  <2> DEFINE row == [boxes[b] EXCEPT !.kind = kind, !.status = status,
                         !.batch = batch, !.destroyed = destroyed]
  <2>1. row \in BoxRow /\ row.life = boxes[b].life
    BY <1>1, CustodyAssumption DEF BoxRow, AnyBatch
  <2>2. Stored(boxes[b]) /\ SaveBox(b, row, newBarcode)
    BY <1>2 DEF EditBox
  <2> HIDE DEF row
  <2> QED
    BY <2>1, <2>2, SaveBoxKeeps
<1>3. ASSUME NEW status \in Statuses, Stored(boxes[b]),
             SaveBox(b, [boxes[b] EXCEPT !.status = status], FALSE)
      PROVE  CustodyInv'
  <2> DEFINE row == [boxes[b] EXCEPT !.status = status]
  <2>1. row \in BoxRow /\ row.life = boxes[b].life
    BY <1>1 DEF BoxRow
  <2> HIDE DEF row
  <2> QED
    BY <2>1, <1>3, SaveBoxKeeps DEF row
<1>4. ASSUME NEW status \in Statuses, MarkBoxStatus(b, status)
      PROVE  CustodyInv'
  BY <1>3, <1>4 DEF MarkBoxStatus, Live, Stored
<1>5. CASE RelocatePermOut(b)
  BY <1>3, <1>5 DEF RelocatePermOut, Statuses
<1>6. CASE SendBoxToDisinfestation(b)
  BY <1>3, <1>6 DEF SendBoxToDisinfestation, Live, Stored, Statuses
<1>7. ASSUME NEW toArchive \in BOOLEAN, FinishDisinfestation(b, toArchive)
      PROVE  CustodyInv'
  <2>1. (IF toArchive THEN "PERM_OUT" ELSE "IN") \in Statuses
    BY DEF Statuses
  <2> QED
    BY <1>3, <1>7, <2>1 DEF FinishDisinfestation, Live, Stored
<1> QED
  BY <1>2, <1>4, <1>5, <1>6, <1>7, ChangeBoxBatchKeeps, BoxLifecycleKeeps DEF BoxRequest

(* Every request on a document keeps the invariant.                        *)
LEMMA DocRequestKeeps ==
    ASSUME CustodyInv, NEW d \in Docs, DocRequest(d)
    PROVE  CustodyInv'
<1>1. documents[d] \in DocRow
  BY DEF CustodyInv, TypeOK
<1>2. ASSUME NEW wills \in BOOLEAN, NEW catalogued \in BOOLEAN,
             EditDoc(d, wills, catalogued)
      PROVE  CustodyInv'
  <2> DEFINE row == [documents[d] EXCEPT !.wills = wills, !.catalogued = catalogued]
  <2>1. /\ row \in DocRow /\ row.life = documents[d].life
        /\ row.status = documents[d].status /\ row.batch = documents[d].batch
    BY <1>1 DEF DocRow
  <2>2. Stored(documents[d]) /\ SaveDoc(d, row)
    BY <1>2 DEF EditDoc
  <2> HIDE DEF row
  <2> QED
    BY <2>1, <2>2, SaveDocKeeps
<1>3. ASSUME NEW b \in Boxes, MoveToBox(d, b)
      PROVE  CustodyInv'
  <2> DEFINE row == [documents[d] EXCEPT !.box = b,
                        !.batch = IF boxes[b].batch = NoBatch THEN @
                                                    ELSE boxes[b].batch]
  <2>1. boxes[b] \in BoxRow
    BY DEF CustodyInv, TypeOK
  <2>2. /\ row \in DocRow /\ row.life = documents[d].life
        /\ row.status = documents[d].status
        /\ row.batch = documents[d].batch \/ row.batch = boxes[row.box].batch
    BY <1>1, <2>1 DEF DocRow, BoxRow
  <2>3. Stored(documents[d]) /\ SaveDoc(d, row)
    BY <1>3 DEF MoveToBox
  <2> HIDE DEF row
  <2> QED
    BY <2>2, <2>3, SaveDocKeeps
<1>4. CASE MoveOutOfBox(d)
  <2> DEFINE row == [documents[d] EXCEPT !.box = NoBox]
  <2>1. /\ row \in DocRow /\ row.life = documents[d].life
        /\ row.status = documents[d].status /\ row.box = NoBox
    BY <1>1 DEF DocRow
  <2>2. Stored(documents[d]) /\ SaveDoc(d, row)
    BY <1>4 DEF MoveOutOfBox
  <2> HIDE DEF row
  <2> QED
    BY <2>1, <2>2, SaveDocKeeps
<1>5. CASE MoveToRepository(d)
  <2> DEFINE row == [documents[d] EXCEPT !.box = NoBox, !.batch = NoBatch]
  <2>1. /\ row \in DocRow /\ row.life = documents[d].life
        /\ row.status = documents[d].status /\ row.box = NoBox
    BY <1>1 DEF DocRow
  <2>2. Stored(documents[d]) /\ SaveDoc(d, row)
    BY <1>5 DEF MoveToRepository
  <2> HIDE DEF row
  <2> QED
    BY <2>1, <2>2, SaveDocKeeps
<1>6. CASE SendDocToDisinfestation(d)
  BY <1>6, ApplyBarcodeStatusKeeps DEF SendDocToDisinfestation, Statuses
<1>7. CASE MarkDisinfested(d)
  BY <1>7, ApplyBarcodeStatusKeeps DEF MarkDisinfested, Statuses
<1> QED
  BY <1>2, <1>3, <1>4, <1>5, <1>6, <1>7, CreateDocKeeps, DocLifecycleKeeps DEF DocRequest

(* The empty tables satisfy the invariant.                                 *)
LEMMA CustodyInit == Init => CustodyInv
<1> SUFFICES ASSUME Init PROVE CustodyInv
  OBVIOUS
<1>1. TypeOK
  BY DEF Init, TypeOK, BoxRow, DocRow, NoBoxRow, NoDocRow, Pasts, Lives, Statuses
<1>2. \A d \in Docs : ~Stored(documents[d])
  BY DEF Init, NoDocRow, Stored
<1>3. ArchivalNoted
  BY DEF Init, NoDocRow, NoBoxRow, ArchivalNoted
<1> QED
  BY <1>1, <1>2, <1>3 DEF CustodyInv, NoDanglingBox, StatusMirror, BatchMirror,
                          WillsReserve, Inside

(* The invariant is inductive.                                             *)
LEMMA CustodyStep == CustodyInv /\ [Next]_vars => CustodyInv'
<1> SUFFICES ASSUME CustodyInv, [Next]_vars PROVE CustodyInv'
  OBVIOUS
<1>1. CASE UNCHANGED vars
  BY <1>1 DEF vars, CustodyInv, TypeOK, NoDanglingBox, StatusMirror, BatchMirror,
              WillsReserve, ArchivalNoted, Inside, Stored, WillsAllowed
<1>2. CASE Next
  BY <1>2, BoxRequestKeeps, DocRequestKeeps DEF Next
<1> QED
  BY <1>1, <1>2

(* The inductive invariant holds in every reachable state.                 *)
THEOREM CustodyInvariant == Spec => []CustodyInv
BY CustodyInit, CustodyStep, PTL DEF Spec

(* Type correctness of the three tables, for any rows and any batches.     *)
THEOREM CustodyTypes == Spec => []TypeOK
BY CustodyInvariant, PTL DEF CustodyInv

(* No stored document ever points at a box that was deleted for good.      *)
THEOREM CustodyNoDanglingBox == Spec => []NoDanglingBox
BY CustodyInvariant, PTL DEF CustodyInv

(* A document shows the barcode status of its box, but for the two cases   *)
(* the histories name: the mirror on every path of the code.               *)
THEOREM CustodyStatusMirror == Spec => []StatusMirror
BY CustodyInvariant, PTL DEF CustodyInv

(* A document is in the batch of its box, but for an edited batch or a     *)
(* half-failed creation.                                                   *)
THEOREM CustodyBatchMirror == Spec => []BatchMirror
BY CustodyInvariant, PTL DEF CustodyInv

(* The wills batch holds wills only, on every path that never archived the *)
(* document.                                                               *)
THEOREM CustodyWillsReserve == Spec => []WillsReserve
BY CustodyInvariant, PTL DEF CustodyInv

-----------------------------------------------------------------------------
(* What a step may never do                                                *)

(* A save of a box leaves PERM_OUT for IN only.                            *)
LEMMA SaveBoxStatus ==
    ASSUME TypeOK, NEW b \in Boxes, NEW row, NEW newBarcode, SaveBox(b, row, newBarcode),
           NEW c \in Boxes, boxes[c].status = "PERM_OUT"
    PROVE  boxes'[c].status \in {"PERM_OUT", "IN"}
BY DEF SaveBox, StatusMayBecome, TypeOK

(* The status action of a document takes no box out of PERM_OUT except to  *)
(* IN.                                                                     *)
LEMMA ApplyBarcodeStatusLeavesPermOut ==
    ASSUME TypeOK, NEW d \in Docs, NEW status, ApplyBarcodeStatus(d, status),
           NEW c \in Boxes, boxes[c].status = "PERM_OUT"
    PROVE  boxes'[c].status \in {"PERM_OUT", "IN"}
<1>1. CASE BoxOnScreen(d)
  <2>1. documents[d].box \in Boxes
    BY <1>1 DEF BoxOnScreen, TypeOK, DocRow
  <2> QED
    BY <1>1, <2>1, SaveBoxStatus DEF ApplyBarcodeStatus
<1>2. CASE ~BoxOnScreen(d)
  BY <1>2 DEF ApplyBarcodeStatus
<1> QED
  BY <1>1, <1>2

(* No step takes a box out of PERM_OUT except to IN.                       *)
LEMMA StepLeavesPermOut ==
    ASSUME TypeOK, [Next]_vars, NEW c \in Boxes, boxes[c].status = "PERM_OUT",
           Stored(boxes[c]), Stored(boxes'[c])
    PROVE  boxes'[c].status \in {"PERM_OUT", "IN"}
<1>1. CASE UNCHANGED vars
  BY <1>1 DEF vars
<1>2. ASSUME NEW b \in Boxes, BoxRequest(b)
      PROVE  boxes'[c].status \in {"PERM_OUT", "IN"}
  <2>1. CASE \/ \E kind \in Kinds, status \in Statuses, batch \in AnyBatch :
                  CreateBox(b, kind, status, batch)
             \/ ForceDeleteBox(b)
    <3>1. CASE b = c
      <4>1. NoBoxRow.life = "absent"
        BY DEF NoBoxRow
      <4> QED
        BY <2>1, <3>1, <4>1, <1>2 DEF CreateBox, ForceDeleteBox, TypeOK, Stored
    <3>2. CASE b # c
      BY <2>1, <3>2 DEF CreateBox, ForceDeleteBox, TypeOK
    <3> QED
      BY <3>1, <3>2
  <2>2. CASE \/ \E batch \in Batches : ChangeBoxBatch(b, batch)
             \/ DestroyBox(b) \/ ArchiveBox(b) \/ RestoreBox(b)
    <3>1. boxes'[c].status = boxes[c].status
      BY <2>2 DEF ChangeBoxBatch, DestroyBox, ArchiveBox, RestoreBox, TypeOK, BoxRow
    <3> QED
      BY <3>1
  <2>3. CASE \/ \E kind \in Kinds, status \in Statuses, batch \in AnyBatch,
                   destroyed, newBarcode \in BOOLEAN :
                  EditBox(b, kind, status, batch, destroyed, newBarcode)
             \/ \E status \in Statuses : MarkBoxStatus(b, status)
             \/ RelocatePermOut(b)
             \/ SendBoxToDisinfestation(b)
             \/ \E toArchive \in BOOLEAN : FinishDisinfestation(b, toArchive)
    BY <2>3, SaveBoxStatus DEF EditBox, MarkBoxStatus, RelocatePermOut,
                               SendBoxToDisinfestation, FinishDisinfestation
  <2> QED
    BY <1>2, <2>1, <2>2, <2>3 DEF BoxRequest
<1>3. ASSUME NEW d \in Docs, DocRequest(d)
      PROVE  boxes'[c].status \in {"PERM_OUT", "IN"}
  <2>1. CASE SendDocToDisinfestation(d) \/ MarkDisinfested(d)
    BY <2>1, ApplyBarcodeStatusLeavesPermOut DEF SendDocToDisinfestation, MarkDisinfested
  <2>2. CASE ~(SendDocToDisinfestation(d) \/ MarkDisinfested(d))
    BY <1>3, <2>2 DEF DocRequest, CreateDoc, CreateDocHalfway, EditDoc, MoveToBox,
                      MoveOutOfBox, MoveToRepository, SaveDoc, ArchiveDoc, RestoreDoc,
                      ForceDeleteDoc
  <2> QED
    BY <2>1, <2>2
<1> QED
  BY <1>1, <1>2, <1>3 DEF Next

(* No request, on a box or on one of its documents, takes a box from       *)
(* PERM OUT to OUT.                                                        *)
THEOREM CustodyPermOut == Spec => PermOutIsLeftForInOnly
<1>1. TypeOK /\ [Next]_vars
         => [\A b \in Boxes :
               Stored(boxes[b]) /\ boxes[b].status = "PERM_OUT" /\ Stored(boxes'[b])
                => boxes'[b].status \in {"PERM_OUT", "IN"}]_vars
  BY StepLeavesPermOut
<1> QED
  BY <1>1, CustodyTypes, PTL DEF Spec, PermOutIsLeftForInOnly

(* No request puts a document into an archived or destroyed box.           *)
LEMMA StepEntersOpenBoxes ==
    ASSUME TypeOK, [Next]_vars, NEW d \in Docs, NEW b \in Boxes,
           documents[d].box # b, documents'[d].box = b
    PROVE  BoxOpen(b)
<1>1. b # NoBox
  BY CustodyAssumption
<1>2. ASSUME NEW e \in Docs, NEW row \in DocRow, SaveDoc(e, row)
      PROVE  BoxOpen(b)
  <2>1. e = d
    BY <1>2 DEF SaveDoc, TypeOK
  <2>2. documents'[d].box = row.box
    BY <1>2, <2>1 DEF SaveDoc, AfterSave, Synced, TypeOK, DocRow
  <2> QED
    BY <1>1, <1>2, <2>1, <2>2 DEF SaveDoc, DocGuards, Moved
<1>3. \A c \in Boxes : \A row, newBarcode :
          SaveBox(c, row, newBarcode) => documents'[d].box = documents[d].box
  BY DEF SaveBox, Mirrored, TypeOK, DocRow
<1>4. CASE UNCHANGED vars
  BY <1>4 DEF vars
<1>5. ASSUME NEW c \in Boxes, BoxRequest(c)
      PROVE  BoxOpen(b)
  <2>1. CASE \E batch \in Batches : ChangeBoxBatch(c, batch)
    <3>1. documents'[d].box = documents[d].box
      BY <2>1 DEF ChangeBoxBatch, TypeOK, DocRow
    <3> QED
      BY <3>1
  <2>2. CASE ~\E batch \in Batches : ChangeBoxBatch(c, batch)
    <3>1. documents'[d].box = documents[d].box
      BY <1>3, <1>5, <2>2, ForceDeleteLeavesDocuments DEF BoxRequest, CreateBox, EditBox, MarkBoxStatus,
             RelocatePermOut, SendBoxToDisinfestation, FinishDisinfestation,
             DestroyBox, ArchiveBox, RestoreBox
    <3> QED
      BY <3>1
  <2> QED
    BY <2>1, <2>2
<1>6. ASSUME NEW e \in Docs, DocRequest(e)
      PROVE  BoxOpen(b)
  <2>1. ASSUME NEW row \in NewDocs, CreateDoc(e, row) \/ CreateDocHalfway(e, row)
        PROVE  BoxOpen(b)
    <3>1. row \in DocRow
      BY DEF NewDocs, NewDoc, DocRow, Lives, Statuses, AnyBatch
    <3>2. e = d /\ documents'[d].box = row.box
      BY <2>1, <3>1 DEF CreateDoc, CreateDocHalfway, Synced, TypeOK, DocRow
    <3> QED
      BY <1>1, <2>1, <3>2 DEF CreateDoc, CreateDocHalfway, Insertable
  <2>2. ASSUME NEW wills \in BOOLEAN, NEW catalogued \in BOOLEAN,
               EditDoc(e, wills, catalogued)
        PROVE  BoxOpen(b)
    <3>1. [documents[e] EXCEPT !.wills = wills, !.catalogued = catalogued] \in DocRow
      BY DEF TypeOK, DocRow
    <3> QED
      BY <1>2, <2>2, <3>1 DEF EditDoc
  <2>3. ASSUME NEW c \in Boxes, MoveToBox(e, c)
        PROVE  BoxOpen(b)
    <3>1. [documents[e] EXCEPT !.box = c,
              !.batch = IF boxes[c].batch = NoBatch THEN @ ELSE boxes[c].batch] \in DocRow
      BY DEF TypeOK, DocRow, BoxRow
    <3> QED
      BY <1>2, <2>3, <3>1 DEF MoveToBox
  <2>4. CASE MoveOutOfBox(e)
    <3>1. [documents[e] EXCEPT !.box = NoBox] \in DocRow
      BY DEF TypeOK, DocRow
    <3> QED
      BY <1>2, <2>4, <3>1 DEF MoveOutOfBox
  <2>5. CASE MoveToRepository(e)
    <3>1. [documents[e] EXCEPT !.box = NoBox, !.batch = NoBatch] \in DocRow
      BY DEF TypeOK, DocRow
    <3> QED
      BY <1>2, <2>5, <3>1 DEF MoveToRepository
  <2>6. CASE SendDocToDisinfestation(e) \/ MarkDisinfested(e)
    <3>1. PICK status \in Statuses : ApplyBarcodeStatus(e, status)
      BY <2>6 DEF SendDocToDisinfestation, MarkDisinfested, Statuses
    <3>2. documents'[d].box = documents[d].box
      <4>1. CASE BoxOnScreen(e)
        <5>1. documents[e].box \in Boxes
          BY <4>1 DEF BoxOnScreen, TypeOK, DocRow
        <5> QED
          BY <1>3, <3>1, <4>1, <5>1 DEF ApplyBarcodeStatus
      <4>2. CASE ~BoxOnScreen(e)
        BY <3>1, <4>2 DEF ApplyBarcodeStatus, TypeOK, DocRow
      <4> QED
        BY <4>1, <4>2
    <3> QED
      BY <3>2
  <2>7. CASE ArchiveDoc(e) \/ RestoreDoc(e) \/ ForceDeleteDoc(e)
    <3>1. documents'[d].box \in {documents[d].box, NoBox}
      BY <2>7 DEF ArchiveDoc, RestoreDoc, ForceDeleteDoc, NoDocRow, TypeOK, DocRow
    <3> QED
      BY <1>1, <3>1
  <2> QED
    BY <1>6, <2>1, <2>2, <2>3, <2>4, <2>5, <2>6, <2>7 DEF DocRequest
<1> QED
  BY <1>4, <1>5, <1>6 DEF Next

(* No request puts a document into an archived or destroyed box            *)
(* (EntersOpenBoxes): the saving guard of Document and the target check    *)
(* of the move action hold on every path.                                  *)
THEOREM CustodyEntersOpenBoxes == Spec => EntersOpenBoxes
<1>1. TypeOK /\ [Next]_vars
         => [\A d \in Docs : \A b \in Boxes :
               documents[d].box # b /\ documents'[d].box = b => BoxOpen(b)]_vars
  BY StepEntersOpenBoxes
<1> QED
  BY <1>1, CustodyTypes, PTL DEF Spec, EntersOpenBoxes

=============================================================================
