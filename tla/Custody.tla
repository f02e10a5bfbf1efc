------------------------------ MODULE Custody ------------------------------
(***************************************************************************)
(* Boxes, the documents in them, and what a document copies from its box:  *)
(* the barcode status and the batch (app/Models/Box.php,                   *)
(* app/Models/Document.php, app/Filament/Actions/Boxes and .../Documents). *)
(*                                                                         *)
(* One action per operator request. A request runs alone: the row locks,   *)
(* the import queue and the races between two requests are other modules.  *)
(* A request that throws inside a transaction changes nothing, so it is    *)
(* the action not being enabled; the one request that throws AFTER a       *)
(* write, outside any transaction, is CreateDocHalfway.                    *)
(*                                                                         *)
(* Left out: the tenant scope (the operator is an admin), locations,       *)
(* barcode values (a request brings a new one or not), seals, dates, and   *)
(* the in-disinfestation flag (whether it lets a request through is a free *)
(* choice). The series of a document is the one bit the rules read: does   *)
(* it belong to a wills series.                                            *)
(***************************************************************************)

CONSTANTS
    Boxes,          \* box ids
    Docs,           \* document ids
    Batches,        \* batch ids
    WillsBatches,   \* the batches numbered Batch::WILLS_BATCH
    Kinds,          \* box types: "RAS", "LEGACY" (MAV, STVC), "OTHER"
    NoBox,          \* a NULL current_box_id
    NoBatch         \* a NULL batch_id

ASSUME CustodyAssumption ==
    /\ NoBox \notin Boxes
    /\ NoBatch \notin Batches
    /\ WillsBatches \subseteq Batches
    /\ Kinds \subseteq {"RAS", "LEGACY", "OTHER"}

VARIABLES
    boxes,      \* the boxes table
    documents,  \* the documents table
    past        \* what the audit trail tells of how a row came to be (below)

vars == <<boxes, documents, past>>

Statuses == {"IN", "OUT", "PERM_OUT"}
Lives == {"absent", "live", "archived"}     \* archived: deleted_at is set

BoxRow == [life : Lives, kind : {"RAS", "LEGACY", "OTHER"}, status : Statuses,
           batch : Batches \cup {NoBatch}, destroyed : BOOLEAN]
DocRow == [life : Lives, box : Boxes \cup {NoBox}, status : Statuses,
           batch : Batches \cup {NoBatch}, wills : BOOLEAN, catalogued : BOOLEAN]

NoBoxRow == [life |-> "absent", kind |-> "OTHER", status |-> "IN",
             batch |-> NoBatch, destroyed |-> FALSE]
NoDocRow == [life |-> "absent", box |-> NoBox, status |-> "IN",
             batch |-> NoBatch, wills |-> FALSE, catalogued |-> FALSE]

(***************************************************************************)
(* The histories. Each is cleared as soon as the code re-establishes what  *)
(* the event may have broken, so that a property excused by a history is   *)
(* excused for no longer than that.                                        *)
(*   archivedBoxes:  boxes archived since their status was last mirrored   *)
(*   rebatchedBoxes: boxes whose batch was set on the edit page since they *)
(*                   last moved to a batch with their documents            *)
(*   archivedDocs:   documents archived since their batch or series was    *)
(*                   last checked against the wills rule                   *)
(*   halfCreated:    documents whose creation threw after the INSERT and   *)
(*                   that were not moved since                             *)
(***************************************************************************)
Pasts == [archivedBoxes : SUBSET Boxes, rebatchedBoxes : SUBSET Boxes,
          archivedDocs : SUBSET Docs, halfCreated : SUBSET Docs]

Stored(row) == row.life # "absent"
Live(row) == row.life = "live"
Inside(b) == {d \in Docs : Stored(documents[d]) /\ documents[d].box = b}

(* The form and the guards treat MAV and STVC like RAS for the status.     *)
HasStatus(kind) == kind \in {"RAS", "LEGACY"}

-----------------------------------------------------------------------------
(* Saving a box: the guards of Box::booted(), then the mirror.             *)

(* Mutant: F4 missing, only the new barcode of C2.2 is asked for.          *)
StatusMayBecomeWithoutF4(old, new, newBarcode) ==
    old = "PERM_OUT" /\ new = "IN" => newBarcode

(* PERM_OUT is left for IN only, and only with a new barcode (F4, C2.2).   *)
StatusMayBecome(old, new, newBarcode) ==
    old = "PERM_OUT" => \/ new = "PERM_OUT"
                        \/ new = "IN" /\ newBarcode

(* Mutant: the mirror goes through the default scope, which hides archived *)
(* documents.                                                              *)
MirroredToLiveDocsOnly(b, status) ==
    [d \in Docs |-> IF d \in Inside(b) /\ Live(documents[d])
                    THEN [documents[d] EXCEPT !.status = status] ELSE documents[d]]

(* mirrorBarcodeStatusToDocuments: one UPDATE over every document whose    *)
(* current_box_id is the box, archived documents included.                 *)
Mirrored(b, status) ==
    [d \in Docs |-> IF d \in Inside(b) THEN [documents[d] EXCEPT !.status = status]
                                       ELSE documents[d]]

SaveBox(b, row, newBarcode) ==
    /\ StatusMayBecome(boxes[b].status, row.status, newBarcode)
    /\ boxes' = [boxes EXCEPT ![b] = row]
    /\ IF row.status # boxes[b].status
       THEN documents' = Mirrored(b, row.status)
       ELSE UNCHANGED documents
    /\ past' = [past EXCEPT
           !.archivedBoxes = IF Live(row) /\ row.status # boxes[b].status
                             THEN @ \ {b} ELSE @,
           !.rebatchedBoxes = IF row.batch # boxes[b].batch
                              THEN @ \cup {b} ELSE @]

-----------------------------------------------------------------------------
(* Saving a document: the saving guards, the write, and the re-mirror of   *)
(* the box it moved into.                                                  *)

(* assertWillsBatchInvariant                                               *)
WillsAllowed(row) == row.batch \in WillsBatches => row.wills

(* The target box is stored, not archived, not destroyed.                  *)
BoxOpen(b) == Live(boxes[b]) /\ ~boxes[b].destroyed

(* Mutants: the re-mirror forgets the batch, or the status.                *)
SyncedStatusOnly(row) ==
    IF row.box = NoBox THEN row ELSE [row EXCEPT !.status = boxes[row.box].status]
SyncedBatchOnly(row) ==
    IF row.box = NoBox \/ boxes[row.box].batch = NoBatch THEN row
    ELSE [row EXCEPT !.batch = boxes[row.box].batch]

(* syncCustodyFromCurrentBox, over all boxes whatever their state.         *)
Synced(row) ==
    IF row.box = NoBox THEN row
    ELSE [row EXCEPT !.status = boxes[row.box].status,
                     !.batch = IF boxes[row.box].batch = NoBatch THEN @
                                                   ELSE boxes[row.box].batch]

Moved(d, row) == row.box # documents[d].box
Reclassified(d, row) == \/ row.batch # documents[d].batch
                        \/ row.wills # documents[d].wills

(* Mutant: the wills rule is evaluated when the batch changes, not when    *)
(* the series does.                                                        *)
DocGuardsBatchOnly(d, row) ==
    /\ Moved(d, row) /\ row.box # NoBox => BoxOpen(row.box)
    /\ row.batch # documents[d].batch => WillsAllowed(row)

(* The guards of Document::saving on an update.                            *)
DocGuards(d, row) ==
    /\ Moved(d, row) /\ row.box # NoBox => BoxOpen(row.box)
    /\ Reclassified(d, row) => WillsAllowed(row)

(* What is written: the row, re-mirrored if the document changed box. The  *)
(* re-mirror asserts the wills rule again when it has something to write.  *)
AfterSave(d, row) == IF Moved(d, row) THEN Synced(row) ELSE row

SaveDoc(d, row) ==
    /\ DocGuards(d, row)
    /\ AfterSave(d, row) # row => WillsAllowed(AfterSave(d, row))
    /\ documents' = [documents EXCEPT ![d] = AfterSave(d, row)]
    /\ past' = [past EXCEPT
           !.halfCreated = IF Moved(d, row) THEN @ \ {d} ELSE @,
           !.archivedDocs = IF /\ Live(row)
                               /\ \/ Reclassified(d, row)
                                  \/ AfterSave(d, row) # row
                            THEN @ \ {d} ELSE @]
    /\ UNCHANGED boxes

-----------------------------------------------------------------------------
(* Box requests                                                            *)

(* CreateBox page. A new legacy box needs is_legacy, which the create form *)
(* does not show; RAS needs a batch; a box without a status on the form    *)
(* gets the column default IN; it cannot be created destroyed.             *)
CreateBox(b, kind, status, batch) ==
    /\ ~Stored(boxes[b])
    /\ kind # "LEGACY"
    /\ kind = "RAS" => batch # NoBatch
    /\ kind # "RAS" => status = "IN"
    /\ boxes' = [boxes EXCEPT ![b] = [life |-> "live", kind |-> kind,
                    status |-> status, batch |-> batch, destroyed |-> FALSE]]
    /\ UNCHANGED <<documents, past>>

(* EditBox page, also for an archived box. The status is written only if   *)
(* the form shows it; the batch moves without its documents; the destroy   *)
(* date is a plain field.                                                  *)
EditBox(b, kind, status, batch, destroyed, newBarcode) ==
    /\ Stored(boxes[b])
    /\ HasStatus(kind) => batch # NoBatch
    /\ ~HasStatus(kind) => status = boxes[b].status
    /\ SaveBox(b, [boxes[b] EXCEPT !.kind = kind, !.status = status,
                       !.batch = batch, !.destroyed = destroyed], newBarcode)

(* MarkBoxStatusAction, and the guard of BoxBulkSupport::run.              *)
MarkBoxStatus(b, status) ==
    /\ Live(boxes[b])
    /\ boxes[b].kind = "RAS"
    /\ ~boxes[b].destroyed
    /\ boxes[b].status # status
    /\ SaveBox(b, [boxes[b] EXCEPT !.status = status], FALSE)

(* The "relocate" bulk action with "Mark barcode as PERM OUT": every type, *)
(* archived and destroyed boxes too.                                       *)
RelocatePermOut(b) ==
    /\ Stored(boxes[b])
    /\ SaveBox(b, [boxes[b] EXCEPT !.status = "PERM_OUT"], FALSE)

(* SendBoxesToDisinfestationAction: a RAS box goes OUT.                    *)
SendBoxToDisinfestation(b) ==
    /\ Live(boxes[b])
    /\ ~boxes[b].destroyed
    /\ boxes[b].kind = "RAS"
    /\ boxes[b].status # "PERM_OUT"
    /\ SaveBox(b, [boxes[b] EXCEPT !.status = "OUT"], FALSE)

(* FinishDisinfestationAction: a RAS box goes IN, or PERM_OUT when its     *)
(* destination is an archive location.                                     *)
FinishDisinfestation(b, toArchive) ==
    /\ Live(boxes[b])
    /\ ~boxes[b].destroyed
    /\ boxes[b].kind = "RAS"
    /\ ~toArchive => boxes[b].status # "PERM_OUT"
    /\ SaveBox(b, [boxes[b] EXCEPT !.status = IF toArchive THEN "PERM_OUT"
                                                           ELSE "IN"], FALSE)

(* ChangeBoxBatchAction::moveBox. The wills rule looks at the documents    *)
(* that are not archived; the UPDATE then moves the archived ones as well. *)
DocsCheckedForWills(b) == {d \in Inside(b) : Live(documents[d])}

(* Mutant: archived documents stay in the old batch.                       *)
ChangeBoxBatchOfLiveDocs(b, batch) ==
    /\ Live(boxes[b])
    /\ boxes[b].batch # batch
    /\ batch \in WillsBatches =>
           \A d \in DocsCheckedForWills(b) : documents[d].wills
    /\ boxes' = [boxes EXCEPT ![b].batch = batch]
    /\ documents' = [d \in Docs |-> IF d \in DocsCheckedForWills(b)
                                    THEN [documents[d] EXCEPT !.batch = batch]
                                    ELSE documents[d]]
    /\ past' = [past EXCEPT !.rebatchedBoxes = @ \ {b}]

ChangeBoxBatch(b, batch) ==
    /\ Live(boxes[b])
    /\ boxes[b].batch # batch
    /\ batch \in WillsBatches =>
           \A d \in DocsCheckedForWills(b) : documents[d].wills
    /\ boxes' = [boxes EXCEPT ![b].batch = batch]
    /\ documents' = [d \in Docs |-> IF d \in Inside(b)
                                    THEN [documents[d] EXCEPT !.batch = batch]
                                    ELSE documents[d]]
    /\ past' = [past EXCEPT !.rebatchedBoxes = @ \ {b}]

(* canBeDestroyed: archived documents still count.                         *)
CanBeDestroyed(b) ==
    /\ ~boxes[b].destroyed
    /\ \A d \in Inside(b) : documents[d].catalogued

(* DestroyBoxAction, Box::markDestroyed                                    *)
DestroyBox(b) ==
    /\ Live(boxes[b])
    /\ CanBeDestroyed(b)
    /\ boxes' = [boxes EXCEPT ![b].destroyed = TRUE]
    /\ UNCHANGED <<documents, past>>

(* DeleteAction of the box pages: a soft delete, whatever is in the box.   *)
ArchiveBox(b) ==
    /\ Live(boxes[b])
    /\ boxes' = [boxes EXCEPT ![b].life = "archived"]
    /\ past' = [past EXCEPT !.archivedBoxes = @ \cup {b}]
    /\ UNCHANGED documents

RestoreBox(b) ==
    /\ boxes[b].life = "archived"
    /\ boxes' = [boxes EXCEPT ![b].life = "live"]
    /\ UNCHANGED <<documents, past>>

(* The foreign key sets current_box_id to NULL in whatever the box holds.   *)
Unboxed(b) ==
    [d \in Docs |-> IF d \in Inside(b) THEN [documents[d] EXCEPT !.box = NoBox]
                                       ELSE documents[d]]

(* Mutant: archived documents are not counted.                             *)
ForceDeleteBoxCountingLiveDocs(b) ==
    /\ boxes[b].life = "archived"
    /\ DocsCheckedForWills(b) = {}
    /\ boxes' = [boxes EXCEPT ![b] = NoBoxRow]
    /\ documents' = Unboxed(b)
    /\ past' = [past EXCEPT !.archivedBoxes = @ \ {b}, !.rebatchedBoxes = @ \ {b}]

(* ForceDeleteAction, refused while any document, archived or not, is in   *)
(* the box.                                                                *)
ForceDeleteBox(b) ==
    /\ boxes[b].life = "archived"
    /\ Inside(b) = {}
    /\ boxes' = [boxes EXCEPT ![b] = NoBoxRow]
    /\ documents' = Unboxed(b)
    /\ past' = [past EXCEPT !.archivedBoxes = @ \ {b}, !.rebatchedBoxes = @ \ {b}]

-----------------------------------------------------------------------------
(* Document requests                                                       *)

NewDoc(box, batch, wills, catalogued) ==
    [life |-> "live", box |-> box, status |-> "IN", batch |-> batch,
     wills |-> wills, catalogued |-> catalogued]

(* Mutant: the box of a new document is not looked at.                     *)
InsertableAnywhere(d, row) ==
    /\ ~Stored(documents[d])
    /\ WillsAllowed(row)

(* CreateDocument page: the INSERT passes the guards, then the created     *)
(* hook re-mirrors the box. In memory the status is still NULL, so the     *)
(* re-mirror always has something to write and always asserts.             *)
Insertable(d, row) ==
    /\ ~Stored(documents[d])
    /\ row.box # NoBox => BoxOpen(row.box)
    /\ WillsAllowed(row)

CreateDoc(d, row) ==
    /\ Insertable(d, row)
    /\ WillsAllowed(Synced(row))
    /\ documents' = [documents EXCEPT ![d] = Synced(row)]
    /\ UNCHANGED <<boxes, past>>

(* The re-mirror throws: the operator sees an error, the row stays, with   *)
(* nothing taken from the box.                                             *)
CreateDocHalfway(d, row) ==
    /\ Insertable(d, row)
    /\ ~WillsAllowed(Synced(row))
    /\ documents' = [documents EXCEPT ![d] = row]
    /\ past' = [past EXCEPT !.halfCreated = @ \cup {d}]
    /\ UNCHANGED boxes

(* EditDocument page: box and batch are locked. The series, here and in    *)
(* SetSeriesAction, and the catalogue identifier may change.               *)
EditDoc(d, wills, catalogued) ==
    /\ Stored(documents[d])
    /\ SaveDoc(d, [documents[d] EXCEPT !.wills = wills, !.catalogued = catalogued])

(* MoveToBoxAction                                                         *)
Assignable(b) == BoxOpen(b) /\ boxes[b].status # "PERM_OUT"

MoveToBox(d, b) ==
    /\ Stored(documents[d])
    /\ Assignable(b)
    /\ SaveDoc(d, [documents[d] EXCEPT !.box = b,
                      !.batch = IF boxes[b].batch = NoBatch THEN @
                                                  ELSE boxes[b].batch])

(* SetCustodyStatusAction ("Move out of box") and SetMuseumLocationAction: *)
(* the batch stays.                                                        *)
MoveOutOfBox(d) ==
    /\ Stored(documents[d])
    /\ SaveDoc(d, [documents[d] EXCEPT !.box = NoBox])

(* Mutant: the batch is cleared with the empty value of another column.    *)
MoveToRepositoryWrongColumn(d) ==
    /\ Stored(documents[d])
    /\ SaveDoc(d, [documents[d] EXCEPT !.box = NoBox, !.batch = NoBox])

(* MoveToRepositoryAction with "Clear box and batch".                      *)
MoveToRepository(d) ==
    /\ Stored(documents[d])
    /\ SaveDoc(d, [documents[d] EXCEPT !.box = NoBox, !.batch = NoBatch])

(* ActionSupport::applyBarcodeStatus: the status goes to the box and its   *)
(* mirror, except that an archived box is not found, and then, as without  *)
(* a box, it goes to the document alone.                                   *)
BoxOnScreen(d) == documents[d].box # NoBox /\ Live(boxes[documents[d].box])

ApplyBarcodeStatus(d, status) ==
    IF BoxOnScreen(d)
    THEN LET b == documents[d].box
         IN SaveBox(b, [boxes[b] EXCEPT !.status = status], FALSE)
    ELSE /\ documents' = [documents EXCEPT ![d].status = status]
         /\ UNCHANGED <<boxes, past>>

(* SendToDisinfestationAction, on a document not yet in disinfestation.    *)
SendDocToDisinfestation(d) ==
    /\ Stored(documents[d])
    /\ ApplyBarcodeStatus(d, "OUT")

(* MarkDisinfestedAction where it changes a status: not out of PERM_OUT,   *)
(* and no other document of the box still in disinfestation.               *)
AuthoritativeStatus(d) == IF BoxOnScreen(d) THEN boxes[documents[d].box].status
                                            ELSE documents[d].status
MarkDisinfested(d) ==
    /\ Stored(documents[d])
    /\ AuthoritativeStatus(d) # "PERM_OUT"
    /\ ApplyBarcodeStatus(d, "IN")

(* Delete (archive), restore and delete permanently a document.            *)
ArchiveDoc(d) ==
    /\ Live(documents[d])
    /\ documents' = [documents EXCEPT ![d].life = "archived"]
    /\ past' = [past EXCEPT !.archivedDocs = @ \cup {d}]
    /\ UNCHANGED boxes

RestoreDoc(d) ==
    /\ documents[d].life = "archived"
    /\ documents' = [documents EXCEPT ![d].life = "live"]
    /\ UNCHANGED <<boxes, past>>

ForceDeleteDoc(d) ==
    /\ documents[d].life = "archived"
    /\ documents' = [documents EXCEPT ![d] = NoDocRow]
    /\ past' = [past EXCEPT !.halfCreated = @ \ {d}, !.archivedDocs = @ \ {d}]
    /\ UNCHANGED boxes

-----------------------------------------------------------------------------
Init ==
    /\ boxes = [b \in Boxes |-> NoBoxRow]
    /\ documents = [d \in Docs |-> NoDocRow]
    /\ past = [archivedBoxes |-> {}, rebatchedBoxes |-> {},
               archivedDocs |-> {}, halfCreated |-> {}]

AnyBatch == Batches \cup {NoBatch}

BoxRequest(b) ==
    \/ \E kind \in Kinds, status \in Statuses, batch \in AnyBatch :
           CreateBox(b, kind, status, batch)
    \/ \E kind \in Kinds, status \in Statuses, batch \in AnyBatch,
          destroyed, newBarcode \in BOOLEAN :
           EditBox(b, kind, status, batch, destroyed, newBarcode)
    \/ \E status \in Statuses : MarkBoxStatus(b, status)
    \/ RelocatePermOut(b)
    \/ SendBoxToDisinfestation(b)
    \/ \E toArchive \in BOOLEAN : FinishDisinfestation(b, toArchive)
    \/ \E batch \in Batches : ChangeBoxBatch(b, batch)
    \/ DestroyBox(b)
    \/ ArchiveBox(b)
    \/ RestoreBox(b)
    \/ ForceDeleteBox(b)

NewDocs == {NewDoc(box, batch, wills, catalogued) :
               box \in Boxes \cup {NoBox}, batch \in AnyBatch,
               wills \in BOOLEAN, catalogued \in BOOLEAN}

DocRequest(d) ==
    \/ \E row \in NewDocs : CreateDoc(d, row) \/ CreateDocHalfway(d, row)
    \/ \E wills, catalogued \in BOOLEAN : EditDoc(d, wills, catalogued)
    \/ \E b \in Boxes : MoveToBox(d, b)
    \/ MoveOutOfBox(d)
    \/ MoveToRepository(d)
    \/ SendDocToDisinfestation(d)
    \/ MarkDisinfested(d)
    \/ ArchiveDoc(d)
    \/ RestoreDoc(d)
    \/ ForceDeleteDoc(d)

Next == \/ \E b \in Boxes : BoxRequest(b)
        \/ \E d \in Docs : DocRequest(d)

Spec == Init /\ [][Next]_vars

-----------------------------------------------------------------------------
(* Properties                                                              *)

(* Every row keeps the columns the schema gives it.                        *)
TypeOK ==
    /\ boxes \in [Boxes -> BoxRow]
    /\ documents \in [Docs -> DocRow]
    /\ past \in Pasts

(* No stored document points at a box that is gone.                        *)
NoDanglingBox ==
    \A d \in Docs : Stored(documents[d]) /\ documents[d].box # NoBox
                        => Stored(boxes[documents[d].box])

(* The box is authoritative for the barcode status: every document in it,  *)
(* archived or not, shows the box's value. It may differ only in a box     *)
(* that was archived and not mirrored since, and for a document whose      *)
(* creation failed half way.                                               *)
StatusMirror ==
    \A d \in Docs : \A b \in Boxes :
        /\ d \in Inside(b)
        /\ b \notin past.archivedBoxes
        /\ d \notin past.halfCreated
        => documents[d].status = boxes[b].status

(* A document in a box that has a batch is in that batch, unless the batch *)
(* was typed on the box's edit page since, or the creation failed half way.*)
BatchMirror ==
    \A d \in Docs : \A b \in Boxes :
        /\ d \in Inside(b)
        /\ boxes[b].batch # NoBatch
        /\ b \notin past.rebatchedBoxes
        /\ d \notin past.halfCreated
        => documents[d].batch = boxes[b].batch

(* The wills batch holds documents of wills series only, on every path     *)
(* (move, series change, box batch change, re-mirror), unless the document *)
(* was archived since the rule last saw it.                                *)
WillsReserve ==
    \A d \in Docs : Stored(documents[d]) /\ d \notin past.archivedDocs
                        => WillsAllowed(documents[d])

(* No request puts a document into an archived or destroyed box.           *)
EntersOpenBoxes ==
    [][\A d \in Docs : \A b \in Boxes :
           documents[d].box # b /\ documents'[d].box = b
               => BoxOpen(b)]_vars

(* PERM OUT is terminal: a box leaves it only by coming back IN, on the    *)
(* edit page, which is where a new barcode can be typed; never to OUT, and *)
(* never because one of its documents goes through disinfestation.         *)
PermOutIsLeftForInOnly ==
    [][\A b \in Boxes :
           Stored(boxes[b]) /\ boxes[b].status = "PERM_OUT" /\ Stored(boxes'[b])
               => boxes'[b].status \in {"PERM_OUT", "IN"}]_vars

=============================================================================
