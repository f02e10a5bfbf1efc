---------------------------- MODULE BoxLocation ----------------------------
(***************************************************************************)
(* Where a box is: set by an operator, by the rule "status IN means RAS",  *)
(* or taken from the documents in the box (app/Models/Box.php,             *)
(* syncLocationFromDocuments; app/Models/Document.php, the saved, deleted  *)
(* and restored hooks; the box and document actions that move things).     *)
(*                                                                         *)
(* The code keeps no "set by hand" flag on a box: it reads the latest row  *)
(* of box_location_history, which is written only when the location        *)
(* changes. One action is one request, alone. Left out: the tenant rule    *)
(* and the is_active test on a location (every place is usable), the type  *)
(* of a box (RAS or not is fixed), archiving a box (the code reads boxes   *)
(* here whether archived or not), barcodes (a request brings a new one     *)
(* where one is needed) and the in-disinfestation flag of a document.      *)
(***************************************************************************)
CONSTANTS
    Boxes,          \* box ids
    RasBoxes,       \* the boxes of type RAS
    Docs,           \* document ids
    Places,         \* location ids
    Ras,            \* Location::NAME_RAS
    Disinfestation, \* Location::NAME_DISINFESTATION
    Archives,       \* locations of type Repository or Room
    NoPlace,        \* a NULL location_id
    NoBox           \* a NULL current_box_id

ASSUME BoxLocationAssumption ==
    /\ RasBoxes \subseteq Boxes
    /\ NoBox \notin Boxes
    /\ NoPlace \notin Places
    /\ {Ras, Disinfestation} \subseteq Places
    /\ Ras # Disinfestation
    /\ Archives \subseteq Places \ {Disinfestation}

VARIABLES
    boxes,      \* the boxes table, with the latest location history row of each
    docs,       \* the documents table
    past        \* what happened, told by no column (below)

vars == <<boxes, docs, past>>

Statuses == {"IN", "OUT", "PERM_OUT"}
AnyPlace == Places \cup {NoPlace}
Sources == {"none", "create", "update", "documents"}    \* none: no row yet

BoxRow == [place : AnyPlace, status : Statuses, destroyed : BOOLEAN,
           source : Sources, to : AnyPlace]
DocRow == [life : {"absent", "live", "archived"}, box : Boxes \cup {NoBox},
           place : AnyPlace, inBox : BOOLEAN]
NoDocRow == [life |-> "absent", box |-> NoBox, place |-> NoPlace, inBox |-> FALSE]

(***************************************************************************)
(*   chosen:    boxes whose location an operator, or the rule for IN, set  *)
(*              last                                                       *)
(*   confirmed: of these, the ones that already were at the chosen place,  *)
(*              taken from the documents: no history row was written       *)
(*   missed:    boxes whose documents changed without the box being        *)
(*              looked at since                                            *)
(***************************************************************************)
Pasts == [chosen : SUBSET Boxes, confirmed : SUBSET Boxes, missed : SUBSET Boxes]

(* The documents of a box, archived ones hidden by the default scope.      *)
DocsIn(table, b) == {d \in Docs : table[d].life = "live" /\ table[d].box = b}
PhysicallyIn(b) == {d \in DocsIn(docs, b) : docs[d].inBox}

(* Where the located documents of the box all are, if they agree.          *)
PlacesOfDocs(table, b) == {table[d].place : d \in DocsIn(table, b)} \ {NoPlace}
Shared(table, b) ==
    IF \E place \in Places : PlacesOfDocs(table, b) = {place}
    THEN CHOOSE place \in Places : PlacesOfDocs(table, b) = {place}
    ELSE NoPlace

-----------------------------------------------------------------------------
(* Saving a box: the rule for IN, and the history row.                     *)

(* On the way into IN a RAS box that is not destroyed goes to RAS.         *)
Settled(b, row) ==
    IF /\ b \in RasBoxes
       /\ ~row.destroyed
       /\ row.status = "IN"
       /\ boxes[b].status # "IN"
    THEN [row EXCEPT !.place = Ras]
    ELSE row

(* Mutant: a location that is cleared leaves no row.                       *)
RecordedIfPlaced(b, row, source) ==
    IF row.place = boxes[b].place \/ row.place = NoPlace THEN row
    ELSE [row EXCEPT !.source = source, !.to = row.place]

(* recordLocationChange, only if the location changed.                     *)
Recorded(b, row, source) ==
    IF row.place = boxes[b].place THEN row
    ELSE [row EXCEPT !.source = source, !.to = row.place]

Saved(b, row) == Recorded(b, Settled(b, row), "update")

(* PERM OUT is left for IN only; here every request that may brings a new  *)
(* barcode.                                                                *)
StatusMayBecome(old, new) == ~(old = "PERM_OUT" /\ new = "OUT")

(* A request that names the place of box b, or leaves it as it is.         *)
SaveBox(b, row, chosen) ==
    LET new == Saved(b, row)
        set == chosen \/ new.place # boxes[b].place
    IN  /\ StatusMayBecome(boxes[b].status, row.status)
        /\ boxes' = [boxes EXCEPT ![b] = new]
        /\ past' = [past EXCEPT
               !.chosen = IF set THEN @ \cup {b} ELSE @,
               !.confirmed = IF new.place # boxes[b].place THEN @ \ {b}
                             ELSE IF set /\ new.source = "documents" THEN @ \cup {b}
                             ELSE @]

(* The place is chosen, and documentsFollowBox: the documents physically   *)
(* in the box lose a place of their own, in an UPDATE no hook sees.        *)
MoveBox(b, row) ==
    LET new == Saved(b, row)
        followed == {d \in PhysicallyIn(b) : docs[d].place # NoPlace}
        unmoved == new.place = boxes[b].place
    IN  /\ StatusMayBecome(boxes[b].status, row.status)
        /\ boxes' = [boxes EXCEPT ![b] = new]
        /\ docs' = [d \in Docs |-> IF d \in followed
                                   THEN [docs[d] EXCEPT !.place = NoPlace]
                                   ELSE docs[d]]
        /\ past' = [chosen |-> past.chosen \cup {b},
                    confirmed |-> IF ~unmoved THEN past.confirmed \ {b}
                                  ELSE IF new.source = "documents"
                                  THEN past.confirmed \cup {b}
                                  ELSE past.confirmed,
                    missed |-> IF followed # {} THEN past.missed \cup {b}
                                                ELSE past.missed]

-----------------------------------------------------------------------------
(* Saving a document: the boxes that look at their documents again.        *)

(* Only a location this rule set may be changed by it.                     *)
SetByDocs(row) == row.source = "documents" /\ row.to = row.place

(* Mutant: only a location that was updated counts as set by hand.         *)
FromDocsUnlessUpdated(b, table) ==
    LET row == boxes[b]
        target == Shared(table, b)
    IN  IF row.destroyed \/ row.source = "update"
        THEN row
        ELSE Recorded(b, [row EXCEPT !.place = target], "documents")

(* Mutant: a box that has a location keeps it.                             *)
FromDocsOnce(b, table) ==
    LET row == boxes[b]
        target == Shared(table, b)
    IN  IF row.destroyed \/ row.place # NoPlace
        THEN row
        ELSE Recorded(b, [row EXCEPT !.place = target], "documents")

(* syncLocationFromDocuments                                               *)
FromDocs(b, table) ==
    LET row == boxes[b]
        target == Shared(table, b)
    IN  IF row.destroyed \/ (row.place # NoPlace /\ ~SetByDocs(row))
        THEN row
        ELSE Recorded(b, [row EXCEPT !.place = target], "documents")

(* The documents become table; the boxes in looked run the rule, the ones  *)
(* in touched do not although their documents changed.                     *)
SaveDocs(table, looked, touched) ==
    /\ docs' = table
    /\ boxes' = [b \in Boxes |-> IF b \in looked THEN FromDocs(b, table) ELSE boxes[b]]
    /\ LET moved == {b \in looked : FromDocs(b, table).place # boxes[b].place}
           run == {b \in looked : ~boxes[b].destroyed}
       IN  past' = [chosen |-> past.chosen \ moved,
                    confirmed |-> past.confirmed \ moved,
                    missed |-> (past.missed \ run) \cup (touched \ run)]

SaveDoc(d, row) ==
    LET table == [docs EXCEPT ![d] = row]
        changed == {docs[d].box, row.box} \cap Boxes
    IN  IF row.box = docs[d].box /\ row.place = docs[d].place
        THEN /\ docs' = table
             /\ UNCHANGED <<boxes, past>>
        ELSE SaveDocs(table, changed, changed)

-----------------------------------------------------------------------------
(* Box requests                                                            *)

(* EditBox page                                                            *)
EditBox(b, place, status, destroyed) ==
    /\ SaveBox(b, [boxes[b] EXCEPT !.place = place, !.status = status,
                                   !.destroyed = destroyed],
               place # boxes[b].place)
    /\ UNCHANGED docs

(* MarkBoxStatusAction: no new barcode, so not out of PERM OUT.            *)
MarkBoxStatus(b, status) ==
    /\ b \in RasBoxes
    /\ ~boxes[b].destroyed
    /\ boxes[b].status \notin {status, "PERM_OUT"}
    /\ SaveBox(b, [boxes[b] EXCEPT !.status = status], FALSE)
    /\ UNCHANGED docs

(* MoveBoxToLocationAction                                                 *)
MoveBoxToLocation(b, place) ==
    /\ ~boxes[b].destroyed
    /\ MoveBox(b, [boxes[b] EXCEPT !.place = place])

(* The "relocate" bulk action, with or without "Mark barcode as PERM OUT". *)
Relocate(b, place, permOut) ==
    MoveBox(b, [boxes[b] EXCEPT !.place = place,
                                !.status = IF permOut THEN "PERM_OUT" ELSE @])
RelocatePermOutOnly(b) ==
    /\ SaveBox(b, [boxes[b] EXCEPT !.status = "PERM_OUT"], FALSE)
    /\ UNCHANGED docs

(* SendBoxesToDisinfestationAction                                         *)
SendBoxToDisinfestation(b) ==
    /\ ~boxes[b].destroyed
    /\ b \in RasBoxes => boxes[b].status # "PERM_OUT"
    /\ \/ PhysicallyIn(b) # {}
       \/ boxes[b].place # Disinfestation
       \/ b \in RasBoxes /\ boxes[b].status # "OUT"
    /\ MoveBox(b, [boxes[b] EXCEPT !.place = Disinfestation,
                                   !.status = IF b \in RasBoxes THEN "OUT" ELSE @])

(* FinishDisinfestationAction, to an archive or back to RAS.               *)
FinishDisinfestation(b, place, toArchive) ==
    /\ ~boxes[b].destroyed
    /\ boxes[b].place = Disinfestation
    /\ IF toArchive THEN place \in Archives
       ELSE /\ place = Ras
            /\ b \in RasBoxes => boxes[b].status # "PERM_OUT"
    /\ MoveBox(b, [boxes[b] EXCEPT !.place = place,
                      !.status = IF b \notin RasBoxes THEN @
                                 ELSE IF toArchive THEN "PERM_OUT" ELSE "IN"])

(* DestroyBoxAction                                                        *)
DestroyBox(b) ==
    /\ ~boxes[b].destroyed
    /\ boxes' = [boxes EXCEPT ![b].destroyed = TRUE]
    /\ UNCHANGED <<docs, past>>

-----------------------------------------------------------------------------
(* Document requests                                                       *)

(* CreateDocument page                                                     *)
CreateDoc(d, row) ==
    /\ docs[d].life = "absent"
    /\ row.life = "live"
    /\ row.box # NoBox => ~boxes[row.box].destroyed
    /\ LET table == [docs EXCEPT ![d] = row]
           boxOf == {row.box} \cap Boxes
       IN  SaveDocs(table, boxOf, boxOf)

(* EditDocument page: the box is locked, custody and place are not.        *)
EditDoc(d, place, inBox) ==
    /\ docs[d].life # "absent"
    /\ SaveDoc(d, [docs[d] EXCEPT !.place = place, !.inBox = inBox])

(* MoveToBoxAction. The document goes to the place picked, else to where   *)
(* the box is, else to where its documents are.                            *)
PlaceInBox(b) == IF boxes[b].place # NoPlace THEN boxes[b].place ELSE Shared(docs, b)

(* If the status of the new box differs from the old one's, the re-mirror  *)
(* saves the document again before the saved hook runs, and the hook no    *)
(* longer knows the box it left.                                           *)
ForgetsTheBoxItLeft(d, b) ==
    /\ docs[d].box \notin {NoBox, b}
    /\ boxes[docs[d].box].status # boxes[b].status

MoveToBox(d, b, place) ==
    LET row == [docs[d] EXCEPT !.box = b, !.inBox = TRUE, !.place = place]
        table == [docs EXCEPT ![d] = row]
    IN  /\ docs[d].life # "absent"
        /\ ~boxes[b].destroyed
        /\ boxes[b].status # "PERM_OUT"
        /\ place = PlaceInBox(b) \/ place \in Places
        /\ IF ForgetsTheBoxItLeft(d, b)
           THEN SaveDocs(table, {b}, {docs[d].box, b})
           ELSE SaveDoc(d, row)

(* Mutant: the box is cleared with the empty value of another column.      *)
MoveOutOfBoxWrongColumn(d, place) ==
    /\ docs[d].life # "absent"
    /\ SaveDoc(d, [docs[d] EXCEPT !.box = NoPlace, !.inBox = FALSE, !.place = place])

(* SetCustodyStatusAction, SetMuseumLocationAction.                        *)
MoveOutOfBox(d, place) ==
    /\ docs[d].life # "absent"
    /\ SaveDoc(d, [docs[d] EXCEPT !.box = NoBox, !.inBox = FALSE, !.place = place])

(* MoveToRepositoryAction with "Clear box and batch".                      *)
MoveToRepository(d) ==
    /\ docs[d].life # "absent"
    /\ SaveDoc(d, [docs[d] EXCEPT !.box = NoBox])

(* SendToDisinfestationAction and MarkDisinfestedAction on a document in a *)
(* box: the status of the box, whatever its type, and the rule for IN.     *)
SetStatusThroughDoc(d, status) ==
    LET b == docs[d].box IN
    /\ docs[d].life # "absent"
    /\ b # NoBox
    /\ status \in {"IN", "OUT"}
    /\ boxes[b].status \notin {status, "PERM_OUT"}
    /\ SaveBox(b, [boxes[b] EXCEPT !.status = status], FALSE)
    /\ UNCHANGED docs

(* Archive, restore and delete permanently: the deleted and restored hooks.*)
SetLife(d, old, row) ==
    /\ docs[d].life = old
    /\ LET boxOf == {docs[d].box} \cap Boxes
       IN  SaveDocs([docs EXCEPT ![d] = row], boxOf, boxOf)

ArchiveDoc(d) == SetLife(d, "live", [docs[d] EXCEPT !.life = "archived"])
RestoreDoc(d) == SetLife(d, "archived", [docs[d] EXCEPT !.life = "live"])
ForceDeleteDoc(d) == SetLife(d, "archived", NoDocRow)

-----------------------------------------------------------------------------
(* The boxes as the create page leaves them, with no documents yet: a RAS  *)
(* box created IN is at RAS.                                               *)
Created(b, place) ==
    [place |-> IF b \in RasBoxes THEN Ras ELSE place, status |-> "IN",
     destroyed |-> FALSE,
     source |-> IF b \notin RasBoxes /\ place = NoPlace THEN "none" ELSE "create",
     to |-> IF b \in RasBoxes THEN Ras ELSE place]

Init ==
    /\ \E chosen \in [Boxes -> AnyPlace] :
           boxes = [b \in Boxes |-> Created(b, chosen[b])]
    /\ docs = [d \in Docs |-> NoDocRow]
    /\ past = [chosen |-> {b \in Boxes : boxes[b].place # NoPlace},
               confirmed |-> {}, missed |-> {}]

BoxRequest(b) ==
    \/ \E place \in AnyPlace, status \in Statuses, destroyed \in BOOLEAN :
           EditBox(b, place, status, destroyed)
    \/ \E status \in Statuses : MarkBoxStatus(b, status)
    \/ \E place \in Places : MoveBoxToLocation(b, place)
    \/ \E place \in Archives, permOut \in BOOLEAN : Relocate(b, place, permOut)
    \/ RelocatePermOutOnly(b)
    \/ SendBoxToDisinfestation(b)
    \/ \E place \in Places, toArchive \in BOOLEAN :
           FinishDisinfestation(b, place, toArchive)
    \/ DestroyBox(b)

DocRequest(d) ==
    \/ \E row \in DocRow : CreateDoc(d, row)
    \/ \E place \in AnyPlace, inBox \in BOOLEAN : EditDoc(d, place, inBox)
    \/ \E b \in Boxes, place \in AnyPlace : MoveToBox(d, b, place)
    \/ \E place \in Places : MoveOutOfBox(d, place)
    \/ MoveToRepository(d)
    \/ \E status \in Statuses : SetStatusThroughDoc(d, status)
    \/ ArchiveDoc(d)
    \/ RestoreDoc(d)
    \/ ForceDeleteDoc(d)

Next == \/ \E b \in Boxes : BoxRequest(b)
        \/ \E d \in Docs : DocRequest(d)

Spec == Init /\ [][Next]_vars

-----------------------------------------------------------------------------
(* Properties                                                              *)

(* Every row keeps its type.                                               *)
TypeOK ==
    /\ boxes \in [Boxes -> BoxRow]
    /\ docs \in [Docs -> DocRow]
    /\ past \in Pasts

(* The latest location history row names the place the box is at, and a    *)
(* box without a row has no place: what syncLocationFromDocuments reads    *)
(* off the history is about the location the box has now.                  *)
HistoryNamesThePlace ==
    \A b \in Boxes : boxes[b].place = IF boxes[b].source = "none" THEN NoPlace
                                                                  ELSE boxes[b].to

(* A location taken from the documents is the one its located documents    *)
(* share, unless the box was passed over: a document left it for a box of  *)
(* another status, its documents followed it to where it already was, or   *)
(* it was destroyed when they changed.                                     *)
TakenPlaceFollowsDocs ==
    \A b \in Boxes :
        boxes[b].source = "documents" /\ b \notin past.missed
            => boxes[b].place = Shared(docs, b)

(* No document request moves a box from a location an operator, or the     *)
(* rule for IN, set, unless the operator chose the place the box already   *)
(* had from its documents.                                                 *)
HandSetPlaceIsKept ==
    [][\A b \in past.chosen \ past.confirmed :
           boxes[b].place # NoPlace /\ boxes'[b].place # boxes[b].place
               => b \in past'.chosen]_vars

=============================================================================
