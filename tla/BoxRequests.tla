---------------------------- MODULE BoxRequests ----------------------------
(***************************************************************************)
(* One RAS box, the documents that come and go, and requests that overlap  *)
(* (app/Models/Box.php, app/Models/Document.php, Filament/Actions).        *)
(*                                                                         *)
(* Custody takes a request as one step. Here it is as many steps as other  *)
(* requests can see:                                                       *)
(*   - a page save runs in no transaction: the box is loaded, the guards   *)
(*     of Box::booted() compare the form with what was loaded, then the    *)
(*     UPDATE of the columns that differ, the INSERT into                  *)
(*     box_barcode_history and the mirror UPDATE are three commits, and    *)
(*     the process may die between them;                                   *)
(*   - a document action loads the document, opens a transaction, reads    *)
(*     the box without a lock, and commits its writes together;            *)
(*   - a bulk action on boxes reads the box under SELECT ... FOR UPDATE,   *)
(*     and is one step.                                                    *)
(*                                                                         *)
(* Reads see the committed rows, and inside a transaction the rows of its  *)
(* first read (InnoDB, REPEATABLE READ). Only the latest history row is    *)
(* kept. The box is neither archived nor destroyed; other boxes are        *)
(* "outside".                                                              *)
(***************************************************************************)
EXTENDS Naturals

CONSTANTS
    Requests,   \* PHP processes
    Docs,       \* document ids
    Barcodes,   \* values of boxes.barcode
    NoDoc,      \* a page save has no document
    NoRetired   \* the box was never PERM OUT

ASSUME BoxRequestsAssumption ==
    /\ NoDoc \notin Docs
    /\ NoRetired \notin Barcodes
    /\ Barcodes # {}

VARIABLES
    box,        \* status and barcode of the boxes row
    docs,       \* is the document in the box, and its barcode_status
    history,    \* what the latest box_barcode_history row says the box became
    requests,   \* what each process has loaded and where it is
    past        \* what happened, told by no column (below)

vars == <<box, docs, history, requests, past>>

Statuses == {"IN", "OUT", "PERM_OUT"}
BoxRow == [status : Statuses, barcode : Barcodes]
DocRow == [inside : BOOLEAN, status : Statuses]

(* A page save is "loaded", "updated" (the UPDATE is in), "told" (the      *)
(* history row too). A status action of a document is "picked", then       *)
(* "looked" once its transaction has read the box; a move is "moving",     *)
(* then "placing". outdated: the box, or the document, changed after this  *)
(* request read it and before it wrote. overtaken: the box changed after   *)
(* this request's UPDATE.                                                  *)
Steps == {"idle", "loaded", "updated", "told",
          "picked", "looked", "moving", "placing"}
Request == [step : Steps, seen : BoxRow, goal : BoxRow,
            doc : Docs \cup {NoDoc}, wasIn : BOOLEAN, was : Statuses,
            outdated : BOOLEAN, overtaken : BOOLEAN]

AnyRow == [status |-> "IN", barcode |-> CHOOSE barcode \in Barcodes : TRUE]
Idle == [step |-> "idle", seen |-> AnyRow, goal |-> AnyRow, doc |-> NoDoc,
         wasIn |-> FALSE, was |-> "IN", outdated |-> FALSE, overtaken |-> FALSE]

(***************************************************************************)
(*   torn:    documents whose mirrored status an overlap or a death may    *)
(*            have left wrong; a later full mirror or move repairs it      *)
(*   untold:  the latest history row may not be what the box became        *)
(*   retired: the barcode the box had when it last became PERM OUT         *)
(***************************************************************************)
Pasts == [torn : SUBSET Docs, untold : BOOLEAN, retired : Barcodes \cup {NoRetired}]

Inside == {d \in Docs : docs[d].inside}
StatusDirty(q) == q.goal.status # q.seen.status

(* What another request can no longer rely on once the box, or document d, *)
(* is written by request r.                                                *)
Warned(q, boxChanged, changedDocs) ==
    IF q.step \in {"updated", "told"}
    THEN [q EXCEPT !.overtaken = @ \/ boxChanged]
    ELSE IF q.step = "idle" THEN q
    ELSE [q EXCEPT !.outdated = \/ @
                                \/ boxChanged /\ q.step # "picked" /\ q.step # "moving"
                                \/ q.doc \in changedDocs]

ThenBecomes(r, q, boxChanged, changedDocs) ==
    requests' = [s \in Requests |->
                    IF s = r THEN q ELSE Warned(requests[s], boxChanged, changedDocs)]

(* Mutant: F4 missing, only the new barcode of C2.2 is asked for.          *)
MayBecomeWithoutF4(old, new) ==
    old.status = "PERM_OUT" /\ new.status = "IN" => new.barcode # old.barcode

(* The saving guards C2.2 and F4 of Box::booted(), old being the row as it *)
(* was loaded.                                                             *)
MayBecome(old, new) ==
    old.status = "PERM_OUT" =>
        \/ new.status = "PERM_OUT"
        \/ new.status = "IN" /\ new.barcode # old.barcode

Mirrored(status) ==
    [d \in Docs |-> IF docs[d].inside THEN [docs[d] EXCEPT !.status = status]
                                      ELSE docs[d]]

Changed(newDocs) == {d \in Docs : newDocs[d] # docs[d]}

(* For past.retired, which no action reads.                                *)
RetiredBy(new) == IF box.status # "PERM_OUT" /\ new.status = "PERM_OUT"
                  THEN new.barcode ELSE past.retired

-----------------------------------------------------------------------------
(* Page saves: EditBox, and "relocate" with "Mark barcode as PERM OUT".    *)

(* The form is submitted: the row is loaded and the guards are passed. The *)
(* form may be as old as one likes, so it may ask for anything.            *)
LoadBox(r, goal) ==
    /\ requests[r] = Idle
    /\ goal # box
    /\ MayBecome(box, goal)
    /\ requests' = [requests EXCEPT ![r] =
                       [Idle EXCEPT !.step = "loaded", !.seen = box, !.goal = goal]]
    /\ UNCHANGED <<box, docs, history, past>>

(* UPDATE boxes SET the columns that differ from what was loaded.          *)
Written(q) == [status  |-> IF q.goal.status # q.seen.status THEN q.goal.status
                                                           ELSE box.status,
               barcode |-> IF q.goal.barcode # q.seen.barcode THEN q.goal.barcode
                                                             ELSE box.barcode]

UpdateBox(r) ==
    LET q == requests[r] IN
    /\ q.step = "loaded"
    /\ box' = Written(q)
    /\ ThenBecomes(r, [q EXCEPT !.step = "updated"], box' # box, {})
    /\ past' = [past EXCEPT !.retired = RetiredBy(Written(q))]
    /\ UNCHANGED <<docs, history>>

(* Mutant: status and barcode are passed to recordBarcodeChange the wrong  *)
(* way round.                                                              *)
WriteHistorySwapped(r) ==
    LET q == requests[r] IN
    /\ q.step = "updated"
    /\ history' = [status |-> q.goal.barcode, barcode |-> q.goal.status]
    /\ requests' = [requests EXCEPT ![r] = IF StatusDirty(q)
                       THEN [q EXCEPT !.step = "told"] ELSE Idle]
    /\ past' = [past EXCEPT !.untold = q.outdated \/ q.overtaken]
    /\ UNCHANGED <<box, docs>>

(* Mutant: the row is written with the barcode the box had before.         *)
WriteHistoryOldBarcode(r) ==
    LET q == requests[r] IN
    /\ q.step = "updated"
    /\ history' = [q.goal EXCEPT !.barcode = q.seen.barcode]
    /\ requests' = [requests EXCEPT ![r] = IF StatusDirty(q)
                       THEN [q EXCEPT !.step = "told"] ELSE Idle]
    /\ past' = [past EXCEPT !.untold = q.outdated \/ q.overtaken]
    /\ UNCHANGED <<box, docs>>

(* flushPendingBarcodeTransition, with the transition captured before the  *)
(* UPDATE; the mirror follows if the status was dirty.                     *)
WriteHistory(r) ==
    LET q == requests[r] IN
    /\ q.step = "updated"
    /\ history' = q.goal
    /\ requests' = [requests EXCEPT ![r] = IF StatusDirty(q)
                       THEN [q EXCEPT !.step = "told"] ELSE Idle]
    /\ past' = [past EXCEPT !.untold = q.outdated \/ q.overtaken]
    /\ UNCHANGED <<box, docs>>

(* Mutant: the page mirrors what the box was, not what it became.          *)
MirrorOldStatus(r) ==
    LET q == requests[r] IN
    /\ q.step = "told"
    /\ docs' = Mirrored(q.seen.status)
    /\ ThenBecomes(r, Idle, FALSE, Changed(docs'))
    /\ past' = [past EXCEPT !.torn = IF q.overtaken THEN @ \cup Inside
                                                    ELSE @ \ Inside]
    /\ UNCHANGED <<box, history>>

(* mirrorBarcodeStatusToDocuments                                          *)
MirrorStatus(r) ==
    LET q == requests[r] IN
    /\ q.step = "told"
    /\ docs' = Mirrored(q.goal.status)
    /\ ThenBecomes(r, Idle, FALSE, Changed(docs'))
    /\ past' = [past EXCEPT !.torn = IF q.overtaken THEN @ \cup Inside
                                                    ELSE @ \ Inside]
    /\ UNCHANGED <<box, history>>

(* The process dies. A transaction rolls back; what a page save committed  *)
(* stays, and the rest of it never happens.                                *)
Die(r) ==
    LET q == requests[r]
        half == q.step \in {"updated", "told"} IN
    /\ q.step # "idle"
    /\ requests' = [requests EXCEPT ![r] = Idle]
    /\ past' = [past EXCEPT
           !.torn = IF half /\ StatusDirty(q) THEN @ \cup Inside ELSE @,
           !.untold = @ \/ q.step = "updated"]
    /\ UNCHANGED <<box, docs, history>>

-----------------------------------------------------------------------------
(* Bulk actions on boxes (BoxBulkSupport::run): Mark IN / OUT / PERM OUT,  *)
(* send to and finish disinfestation, where they change the status.        *)
SetStatusLocked(status) ==
    LET new == [box EXCEPT !.status = status] IN
    /\ new # box
    /\ MayBecome(box, new)
    /\ box' = new
    /\ history' = new
    /\ docs' = Mirrored(status)
    /\ requests' = [s \in Requests |-> Warned(requests[s], TRUE, Changed(docs'))]
    /\ past' = [torn |-> past.torn \ Inside, untold |-> FALSE,
                retired |-> RetiredBy(new)]

-----------------------------------------------------------------------------
(* Document actions (ActionSupport::performBulk)                           *)

(* Send to disinfestation (OUT) or mark disinfested (IN): the document was *)
(* loaded with the selection. Outside a box its own column is written, and *)
(* "mark disinfested" leaves a PERM OUT alone.                             *)
PickDoc(r, d, status) ==
    /\ requests[r] = Idle
    /\ status \in {"IN", "OUT"}
    /\ ~docs[d].inside => /\ status # docs[d].status
                          /\ ~(status = "IN" /\ docs[d].status = "PERM_OUT")
    /\ requests' = [requests EXCEPT ![r] =
          [Idle EXCEPT !.step = IF docs[d].inside THEN "picked" ELSE "looked",
                       !.goal.status = status, !.doc = d,
                       !.wasIn = docs[d].inside, !.was = docs[d].status]]
    /\ UNCHANGED <<box, docs, history, past>>

(* applyBarcodeStatus inside the transaction: nothing to write if the box  *)
(* has the status already; PERM OUT is skipped by "mark disinfested" and   *)
(* refused by F4 for "send".                                               *)
LookAtBox(r) ==
    LET q == requests[r]
        goal == [box EXCEPT !.status = q.goal.status] IN
    /\ q.step = "picked"
    /\ requests' = [requests EXCEPT ![r] =
          IF goal # box /\ MayBecome(box, goal)
          THEN [q EXCEPT !.step = "looked", !.seen = box, !.goal = goal]
          ELSE Idle]
    /\ UNCHANGED <<box, docs, history, past>>

(* The transaction commits: box, history and mirror, or the document's     *)
(* column alone.                                                           *)
CommitBoxStatus(r) ==
    LET q == requests[r] IN
    /\ q.step = "looked"
    /\ q.wasIn
    /\ box' = [box EXCEPT !.status = q.goal.status]
    /\ history' = q.goal
    /\ docs' = Mirrored(q.goal.status)
    /\ ThenBecomes(r, Idle, box' # box, Changed(docs'))
    /\ past' = [torn |-> past.torn \ Inside, untold |-> q.outdated,
                retired |-> RetiredBy([box EXCEPT !.status = q.goal.status])]

CommitDocStatus(r) ==
    LET q == requests[r] IN
    /\ q.step = "looked"
    /\ ~q.wasIn
    /\ docs' = [docs EXCEPT ![q.doc].status = q.goal.status]
    /\ ThenBecomes(r, Idle, FALSE, Changed(docs'))
    /\ past' = [past EXCEPT !.torn = IF docs[q.doc].inside THEN @ \cup {q.doc} ELSE @]
    /\ UNCHANGED <<box, history>>

(* MoveToBoxAction: the target is read, and refused if PERM OUT, before    *)
(* the transaction of the document.                                        *)
PickMove(r, d) ==
    /\ requests[r] = Idle
    /\ ~docs[d].inside
    /\ box.status # "PERM_OUT"
    /\ requests' = [requests EXCEPT ![r] = [Idle EXCEPT !.step = "moving",
                       !.doc = d, !.was = docs[d].status]]
    /\ UNCHANGED <<box, docs, history, past>>

(* The first read of the transaction is the box, in the saving guard.      *)
BeginMove(r) ==
    /\ requests[r].step = "moving"
    /\ requests' = [requests EXCEPT ![r].step = "placing", ![r].seen = box]
    /\ UNCHANGED <<box, docs, history, past>>

(* Mutant: the move does not take the status of the box over.              *)
CommitMoveWithoutSync(r) ==
    LET q == requests[r] IN
    /\ q.step = "placing"
    /\ docs' = [docs EXCEPT ![q.doc].inside = TRUE]
    /\ ThenBecomes(r, Idle, FALSE, Changed(docs'))
    /\ past' = [past EXCEPT !.torn = IF q.outdated THEN @ \cup {q.doc}
                                                   ELSE @ \ {q.doc}]
    /\ UNCHANGED <<box, history>>

(* The document is written, then syncCustodyFromCurrentBox writes the      *)
(* status of the box as read, if the loaded document has another.          *)
CommitMove(r) ==
    LET q == requests[r] IN
    /\ q.step = "placing"
    /\ docs' = [docs EXCEPT ![q.doc] =
                   [inside |-> TRUE,
                    status |-> IF q.seen.status # q.was THEN q.seen.status
                                                       ELSE @.status]]
    /\ ThenBecomes(r, Idle, FALSE, Changed(docs'))
    /\ past' = [past EXCEPT !.torn = IF q.outdated THEN @ \cup {q.doc}
                                                   ELSE @ \ {q.doc}]
    /\ UNCHANGED <<box, history>>

(* Any action that takes a document out of the box: its status stays.      *)
MoveOut(d) ==
    /\ docs[d].inside
    /\ docs' = [docs EXCEPT ![d].inside = FALSE]
    /\ requests' = [s \in Requests |-> Warned(requests[s], FALSE, {d})]
    /\ past' = [past EXCEPT !.torn = @ \ {d}]
    /\ UNCHANGED <<box, history>>

-----------------------------------------------------------------------------
Init ==
    /\ box \in [status : {"IN"}, barcode : Barcodes]
    /\ docs = [d \in Docs |-> [inside |-> FALSE, status |-> "IN"]]
    /\ history = box
    /\ requests = [r \in Requests |-> Idle]
    /\ past = [torn |-> {}, untold |-> FALSE, retired |-> NoRetired]

Next ==
    \/ \E r \in Requests :
           \/ \E goal \in BoxRow : LoadBox(r, goal)
           \/ UpdateBox(r)
           \/ WriteHistory(r)
           \/ MirrorStatus(r)
           \/ \E d \in Docs, status \in Statuses : PickDoc(r, d, status)
           \/ LookAtBox(r)
           \/ CommitBoxStatus(r)
           \/ CommitDocStatus(r)
           \/ \E d \in Docs : PickMove(r, d)
           \/ BeginMove(r)
           \/ CommitMove(r)
           \/ Die(r)
    \/ \E status \in Statuses : SetStatusLocked(status)
    \/ \E d \in Docs : MoveOut(d)

Spec == Init /\ [][Next]_vars

-----------------------------------------------------------------------------
(* Properties                                                              *)

(* Every row and every process keeps its type.                             *)
TypeOK ==
    /\ box \in BoxRow
    /\ docs \in [Docs -> DocRow]
    /\ history \in BoxRow
    /\ requests \in [Requests -> Request]
    /\ past \in Pasts

MirrorPending == \E r \in Requests : /\ requests[r].step \in {"updated", "told"}
                                     /\ StatusDirty(requests[r])
HistoryPending == \E r \in Requests : requests[r].step = "updated"

(* Whatever overlaps, a document in the box shows the box's status once    *)
(* every page save has mirrored, unless one of four things happened to it  *)
(* since the last full mirror: a page save died half way, a page save      *)
(* mirrored after the box had changed again, it was moved in on an         *)
(* outdated read, or its own column was written by an action that had      *)
(* loaded it outside the box.                                              *)
MirrorUnlessTorn ==
    ~MirrorPending => \A d \in Inside \ past.torn : docs[d].status = box.status

(* The latest history row is what the box is, unless a page save died      *)
(* between its UPDATE and its row, or the row comes from an overlap.       *)
HistoryTellsTheBox ==
    ~HistoryPending /\ ~past.untold => history = box

(* A box leaves PERM OUT for IN with another barcode, on every path, save  *)
(* for a request that had read the box before it became PERM OUT.          *)
PermOutUnlessOutdated ==
    [][box.status = "PERM_OUT" /\ box'.status # "PERM_OUT" =>
          \/ box'.status = "IN" /\ box'.barcode # box.barcode
          \/ \E r \in Requests : requests[r].outdated /\ requests'[r] # requests[r]]_vars

(* What the comments say without the exceptions above.                     *)

(* "cannot be the same as the barcode that was just archived", which F4    *)
(* calls un-bypassable: the barcode may be edited while the box is still   *)
(* PERM OUT, and the guard then compares with the edited one. Overlaps are *)
(* not held against the rule: this request is not outdated, and the latest *)
(* history row comes from no overlap or death.                             *)
ArchivedBarcodeIsNotReused ==
    [][box.status = "PERM_OUT" /\ box'.status = "IN" =>
          \/ box'.barcode # past.retired
          \/ past.untold
          \/ \E r \in Requests : requests[r].outdated /\ requests'[r] # requests[r]]_vars

=============================================================================
