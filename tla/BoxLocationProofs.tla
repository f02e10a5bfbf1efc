------------------------- MODULE BoxLocationProofs -------------------------
(***************************************************************************)
(* What BoxLocation promises for any boxes, documents and places: types,   *)
(* TakenPlaceFollowsDocs, HistoryNamesThePlace and HandSetPlaceIsKept.     *)
(*                                                                         *)
(* HandSetPlaceIsKept is about what the operator did; the code reads the   *)
(* latest history row. ChosenLeavesItsRow is the link between the two: a   *)
(* place the operator chose, and did not merely confirm, is named by a row *)
(* that does not say "documents". Without HistoryNamesThePlace a row       *)
(* "documents" about an earlier place could be taken for the present one.  *)
(***************************************************************************)
EXTENDS BoxLocation, TLAPS

ChosenLeavesItsRow ==
    \A b \in past.chosen \ past.confirmed :
        boxes[b].place # NoPlace => boxes[b].source # "documents"

LocationInv ==
    /\ TypeOK
    /\ HistoryNamesThePlace
    /\ TakenPlaceFollowsDocs
    /\ ChosenLeavesItsRow

HandSetStep ==
    \A b \in past.chosen \ past.confirmed :
        boxes[b].place # NoPlace /\ boxes'[b].place # boxes[b].place
            => b \in past'.chosen

-----------------------------------------------------------------------------
(* Facts about the operators                                               *)

(* The shared place is a place or none.                                    *)
LEMMA SharedIsAPlace ==
    ASSUME NEW table, NEW b
    PROVE  Shared(table, b) \in AnyPlace
BY DEF Shared, AnyPlace

(* The rule looks at the live documents of the box and where they are, and *)
(* at nothing else.                                                        *)
LEMMA SharedOfOthers ==
    ASSUME NEW table, NEW other, NEW b,
           \A d \in Docs :
               \/ table[d].life = "live" /\ table[d].box = b
               \/ other[d].life = "live" /\ other[d].box = b
               =>
               /\ other[d].life = table[d].life
               /\ other[d].box = table[d].box
               /\ other[d].place = table[d].place
    PROVE  Shared(other, b) = Shared(table, b)
<1>1. DocsIn(other, b) = DocsIn(table, b)
  BY DEF DocsIn
<1>2. \A d \in DocsIn(table, b) : other[d].place = table[d].place
  BY DEF DocsIn
<1>3. PlacesOfDocs(other, b) = PlacesOfDocs(table, b)
  BY <1>1, <1>2 DEF PlacesOfDocs
<1> QED
  BY <1>3 DEF Shared

(* Changing one document concerns the boxes it leaves and enters only.     *)
LEMMA SharedAfterSave ==
    ASSUME docs \in [Docs -> DocRow], NEW d \in Docs, NEW row \in DocRow,
           NEW b, b # docs[d].box, b # row.box
    PROVE  Shared([docs EXCEPT ![d] = row], b) = Shared(docs, b)
<1> DEFINE table == [docs EXCEPT ![d] = row]
<1>1. \A e \in Docs : table[e] = IF e = d THEN row ELSE docs[e]
  OBVIOUS
<1>2. \A e \in Docs : /\ docs[e].box = b => table[e] = docs[e]
                      /\ table[e].box = b => table[e] = docs[e]
  BY <1>1
<1> HIDE DEF table
<1>3. Shared(table, b) = Shared(docs, b)
  BY <1>2, SharedOfOthers
<1> QED
  BY <1>3 DEF table

(* A saved row has a row's type, keeps the history row if the place is     *)
(* kept, and otherwise names the new place in an "update".                 *)
LEMMA SavedRow ==
    ASSUME TypeOK, NEW b \in Boxes, NEW row \in BoxRow
    PROVE  /\ Saved(b, row) \in BoxRow
           /\ Saved(b, row).place = boxes[b].place =>
                  /\ Saved(b, row).source = row.source
                  /\ Saved(b, row).to = row.to
           /\ Saved(b, row).place # boxes[b].place =>
                  /\ Saved(b, row).source = "update"
                  /\ Saved(b, row).to = Saved(b, row).place
<1> DEFINE settled == Settled(b, row)
<1>1. /\ settled \in BoxRow
      /\ settled.source = row.source
      /\ settled.to = row.to
  BY BoxLocationAssumption DEF Settled, BoxRow, AnyPlace
<1> HIDE DEF settled
<1>2. CASE settled.place = boxes[b].place
  <2>1. Saved(b, row) = settled
    BY <1>2 DEF Saved, Recorded, settled
  <2> QED
    BY <2>1, <1>1, <1>2
<1>3. CASE settled.place # boxes[b].place
  <2>1. Saved(b, row) = [settled EXCEPT !.source = "update", !.to = settled.place]
    BY <1>3 DEF Saved, Recorded, settled
  <2> QED
    BY <2>1, <1>1, <1>3 DEF BoxRow, Sources, AnyPlace
<1> QED
  BY <1>2, <1>3

(* What the rule leaves in a box: the same row, or the shared place with a *)
(* row "documents" that names it. In a box that is not destroyed, a place  *)
(* whose row says "documents" is then the shared place.                    *)
LEMMA FromDocsRow ==
    ASSUME TypeOK, HistoryNamesThePlace, NEW b \in Boxes, NEW table
    PROVE  LET new == FromDocs(b, table) IN
           /\ new \in BoxRow
           /\ new.place = boxes[b].place => new = boxes[b]
           /\ new.place # boxes[b].place =>
                  /\ boxes[b].place # NoPlace => boxes[b].source = "documents"
                  /\ new.source = "documents"
                  /\ new.to = new.place
           /\ ~boxes[b].destroyed /\ new.source = "documents"
                  => new.place = Shared(table, b)
<1> DEFINE row == boxes[b]
           target == Shared(table, b)
           kept == row.destroyed \/ (row.place # NoPlace /\ ~SetByDocs(row))
<1>1. row \in BoxRow
  BY DEF TypeOK
<1>2. target \in AnyPlace
  BY SharedIsAPlace
<1>3. row.source = "documents" => row.to = row.place
  BY DEF HistoryNamesThePlace
<1>4. FromDocs(b, table) = IF kept THEN row
                           ELSE Recorded(b, [row EXCEPT !.place = target], "documents")
  BY DEF FromDocs
<1> HIDE DEF target
<1>5. CASE kept
  BY <1>1, <1>3, <1>4, <1>5 DEF SetByDocs, target
<1>6. CASE ~kept /\ target = row.place
  <2>1. [row EXCEPT !.place = target] = row
    BY <1>1, <1>6 DEF BoxRow
  <2>2. FromDocs(b, table) = row
    BY <1>4, <1>6, <2>1 DEF Recorded
  <2> QED
    BY <1>1, <1>6, <2>2 DEF target
<1>7. CASE ~kept /\ target # row.place
  <2>1. FromDocs(b, table) = [[row EXCEPT !.place = target]
                                 EXCEPT !.source = "documents", !.to = target]
    BY <1>1, <1>4, <1>7 DEF Recorded, BoxRow
  <2>2. /\ FromDocs(b, table) \in BoxRow
        /\ FromDocs(b, table).place = target
        /\ FromDocs(b, table).source = "documents"
        /\ FromDocs(b, table).to = target
    BY <1>1, <1>2, <2>1 DEF BoxRow, Sources
  <2>3. row.place # NoPlace => row.source = "documents"
    BY <1>7 DEF SetByDocs
  <2> QED
    BY <1>7, <2>2, <2>3 DEF target
<1> QED
  BY <1>5, <1>6, <1>7

-----------------------------------------------------------------------------
(* The three ways a request writes                                         *)

(* A box is saved, its documents are not.                                  *)
LEMMA SaveBoxKeepsInv ==
    ASSUME LocationInv, NEW b \in Boxes, NEW row \in BoxRow, NEW chosen \in BOOLEAN,
           row.source = boxes[b].source, row.to = boxes[b].to,
           SaveBox(b, row, chosen), UNCHANGED docs
    PROVE  LocationInv' /\ HandSetStep
<1> DEFINE new == Saved(b, row)
<1> USE DEF LocationInv
<1>1. /\ new \in BoxRow
      /\ new.place = boxes[b].place => /\ new.source = boxes[b].source
                                       /\ new.to = boxes[b].to
      /\ new.place # boxes[b].place => new.source = "update" /\ new.to = new.place
  BY SavedRow
<1> HIDE DEF new
<1>2. /\ boxes' = [boxes EXCEPT ![b] = new]
      /\ past'.missed = past.missed
      /\ past'.chosen = IF chosen \/ new.place # boxes[b].place
                        THEN past.chosen \cup {b} ELSE past.chosen
      /\ past'.confirmed =
             IF new.place # boxes[b].place THEN past.confirmed \ {b}
             ELSE IF (chosen \/ new.place # boxes[b].place) /\ new.source = "documents"
             THEN past.confirmed \cup {b} ELSE past.confirmed
      /\ past' \in Pasts
  BY DEF SaveBox, TypeOK, Pasts, new
<1>3. /\ boxes' \in [Boxes -> BoxRow]
      /\ boxes'[b] = new
      /\ \A c \in Boxes \ {b} : boxes'[c] = boxes[c]
  BY <1>1, <1>2 DEF TypeOK
<1>4. TypeOK'
  BY <1>2, <1>3 DEF TypeOK
<1>5. HistoryNamesThePlace'
  BY <1>1, <1>3 DEF HistoryNamesThePlace
<1>6. TakenPlaceFollowsDocs'
  <2> SUFFICES ASSUME NEW c \in Boxes, boxes'[c].source = "documents",
                      c \notin past'.missed
               PROVE  boxes'[c].place = Shared(docs, c)
    BY DEF TakenPlaceFollowsDocs
  <2>1. CASE c = b
    BY <1>1, <1>2, <1>3, <2>1 DEF TakenPlaceFollowsDocs
  <2>2. CASE c # b
    BY <1>2, <1>3, <2>2 DEF TakenPlaceFollowsDocs
  <2> QED
    BY <2>1, <2>2
<1>7. past \in Pasts
  BY DEF TypeOK
<1>8. ChosenLeavesItsRow'
  <2> SUFFICES ASSUME NEW c \in past'.chosen \ past'.confirmed,
                      boxes'[c].place # NoPlace, boxes'[c].source = "documents"
               PROVE  FALSE
    BY DEF ChosenLeavesItsRow
  <2>1. c \in Boxes
    BY <1>2 DEF Pasts
  <2>2. CASE c = b
    BY <1>1, <1>2, <1>3, <2>1, <2>2 DEF ChosenLeavesItsRow
  <2>3. CASE c # b
    BY <1>2, <1>3, <2>1, <2>3 DEF ChosenLeavesItsRow
  <2> QED
    BY <2>2, <2>3
<1>9. HandSetStep
  BY <1>2, <1>3, <1>7 DEF HandSetStep, Pasts
<1> QED
  BY <1>4, <1>5, <1>6, <1>8, <1>9

(* A box is moved, and its documents follow.                               *)
LEMMA MoveBoxKeepsInv ==
    ASSUME LocationInv, NEW b \in Boxes, NEW row \in BoxRow,
           row.source = boxes[b].source, row.to = boxes[b].to, MoveBox(b, row)
    PROVE  LocationInv' /\ HandSetStep
<1> DEFINE new == Saved(b, row)
           followed == {d \in PhysicallyIn(b) : docs[d].place # NoPlace}
<1> USE DEF LocationInv
<1>1. /\ new \in BoxRow
      /\ new.place = boxes[b].place => /\ new.source = boxes[b].source
                                       /\ new.to = boxes[b].to
      /\ new.place # boxes[b].place => new.source = "update" /\ new.to = new.place
  BY SavedRow
<1> HIDE DEF new
<1>2. /\ boxes' = [boxes EXCEPT ![b] = new]
      /\ docs' = [d \in Docs |-> IF d \in followed
                                 THEN [docs[d] EXCEPT !.place = NoPlace]
                                 ELSE docs[d]]
      /\ past'.missed = IF followed # {} THEN past.missed \cup {b} ELSE past.missed
      /\ past'.chosen = past.chosen \cup {b}
      /\ past'.confirmed =
             IF new.place # boxes[b].place THEN past.confirmed \ {b}
             ELSE IF new.source = "documents"
             THEN past.confirmed \cup {b} ELSE past.confirmed
      /\ past' \in Pasts
  BY DEF MoveBox, TypeOK, Pasts, new
<1>3. /\ boxes' \in [Boxes -> BoxRow]
      /\ boxes'[b] = new
      /\ \A c \in Boxes \ {b} : boxes'[c] = boxes[c]
  BY <1>1, <1>2 DEF TypeOK
<1>4. docs' \in [Docs -> DocRow]
  BY <1>2 DEF TypeOK, DocRow, AnyPlace
<1>5. TypeOK'
  BY <1>2, <1>3, <1>4 DEF TypeOK
<1>6. HistoryNamesThePlace'
  BY <1>1, <1>3 DEF HistoryNamesThePlace
<1>7. \A d \in followed : docs[d].box = b /\ d \in Docs
  BY DEF PhysicallyIn, DocsIn
<1>8. \A d \in Docs : docs'[d].box = docs[d].box
  BY <1>2 DEF TypeOK, DocRow
<1>9. TakenPlaceFollowsDocs'
  <2> SUFFICES ASSUME NEW c \in Boxes, boxes'[c].source = "documents",
                      c \notin past'.missed
               PROVE  boxes'[c].place = Shared(docs', c)
    BY DEF TakenPlaceFollowsDocs
  <2>1. CASE c = b
    <3>1. followed = {} /\ c \notin past.missed
      BY <1>2, <2>1
    <3>2. \A d \in Docs : docs'[d] = docs[d]
      BY <1>2, <3>1
    <3>3. Shared(docs', c) = Shared(docs, c)
      BY <3>2, SharedOfOthers
    <3> QED
      BY <1>1, <1>3, <2>1, <3>1, <3>3 DEF TakenPlaceFollowsDocs
  <2>2. CASE c # b
    <3>1. \A d \in Docs : /\ docs[d].box = c => docs'[d] = docs[d]
                          /\ docs'[d].box = c => docs'[d] = docs[d]
      BY <1>2, <1>7, <1>8, <2>2
    <3>2. Shared(docs', c) = Shared(docs, c)
      BY <3>1, SharedOfOthers
    <3> QED
      BY <1>2, <1>3, <2>2, <3>2 DEF TakenPlaceFollowsDocs
  <2> QED
    BY <2>1, <2>2
<1>10. ChosenLeavesItsRow'
  <2> SUFFICES ASSUME NEW c \in past'.chosen \ past'.confirmed,
                      boxes'[c].place # NoPlace, boxes'[c].source = "documents"
               PROVE  FALSE
    BY DEF ChosenLeavesItsRow
  <2>1. c \in Boxes
    BY <1>2 DEF Pasts
  <2>2. CASE c = b
    BY <1>1, <1>2, <1>3, <2>1, <2>2
  <2>3. CASE c # b
    BY <1>2, <1>3, <2>1, <2>3 DEF ChosenLeavesItsRow
  <2> QED
    BY <2>2, <2>3
<1>11. HandSetStep
  BY <1>2, <1>3 DEF HandSetStep, TypeOK, Pasts
<1> QED
  BY <1>5, <1>6, <1>9, <1>10, <1>11

(* Documents are saved: a box whose documents change looks at them again,  *)
(* or is passed over.                                                      *)
LEMMA SaveDocsKeepsInv ==
    ASSUME LocationInv, NEW table \in [Docs -> DocRow],
           NEW looked \in SUBSET Boxes, NEW touched \in SUBSET Boxes,
           looked \subseteq touched,
           \A b \in Boxes \ touched : Shared(table, b) = Shared(docs, b),
           SaveDocs(table, looked, touched)
    PROVE  LocationInv' /\ HandSetStep
<1> DEFINE moved == {b \in looked : FromDocs(b, table).place # boxes[b].place}
           run == {b \in looked : ~boxes[b].destroyed}
<1> USE DEF LocationInv
<1>1. /\ docs' = table
      /\ boxes' = [b \in Boxes |-> IF b \in looked THEN FromDocs(b, table)
                                                   ELSE boxes[b]]
      /\ past'.chosen = past.chosen \ moved
      /\ past'.confirmed = past.confirmed \ moved
      /\ past'.missed = (past.missed \ run) \cup (touched \ run)
      /\ past' \in Pasts
  BY DEF SaveDocs, TypeOK, Pasts
<1>2. \A b \in looked : LET new == FromDocs(b, table) IN
           /\ new \in BoxRow
           /\ new.place = boxes[b].place => new = boxes[b]
           /\ new.place # boxes[b].place =>
                  /\ boxes[b].place # NoPlace => boxes[b].source = "documents"
                  /\ new.source = "documents"
                  /\ new.to = new.place
           /\ ~boxes[b].destroyed /\ new.source = "documents"
                  => new.place = Shared(table, b)
  BY FromDocsRow
<1>3. \A b \in Boxes : boxes'[b] = IF b \in looked THEN FromDocs(b, table) ELSE boxes[b]
  BY <1>1
<1>4. TypeOK'
  BY <1>1, <1>2 DEF TypeOK
<1>5. HistoryNamesThePlace'
  BY <1>2, <1>3 DEF HistoryNamesThePlace
<1>6. TakenPlaceFollowsDocs'
  <2> SUFFICES ASSUME NEW b \in Boxes, boxes'[b].source = "documents",
                      b \notin past'.missed
               PROVE  boxes'[b].place = Shared(table, b)
    BY <1>1 DEF TakenPlaceFollowsDocs
  <2>1. CASE b \in run
    BY <1>2, <1>3, <2>1
  <2>2. CASE b \notin run
    <3>1. b \notin touched /\ b \notin looked /\ b \notin past.missed
      BY <1>1, <2>2
    <3> QED
      BY <1>3, <3>1 DEF TakenPlaceFollowsDocs
  <2> QED
    BY <2>1, <2>2
<1>7. ChosenLeavesItsRow'
  <2> SUFFICES ASSUME NEW b \in past'.chosen \ past'.confirmed,
                      boxes'[b].place # NoPlace, boxes'[b].source = "documents"
               PROVE  FALSE
    BY DEF ChosenLeavesItsRow
  <2>1. b \in Boxes /\ b \notin moved /\ b \in past.chosen \ past.confirmed
    BY <1>1 DEF Pasts
  <2>2. boxes'[b] = boxes[b]
    BY <1>2, <1>3, <2>1
  <2> QED
    BY <2>1, <2>2 DEF ChosenLeavesItsRow
<1>8. HandSetStep
  <2> SUFFICES ASSUME NEW b \in past.chosen \ past.confirmed,
                      boxes[b].place # NoPlace, boxes'[b].place # boxes[b].place
               PROVE  b \in past'.chosen
    BY DEF HandSetStep
  <2>1. b \in Boxes
    BY DEF TypeOK, Pasts
  <2>2. b \in looked /\ FromDocs(b, table).place # boxes[b].place
    BY <1>3, <2>1
  <2>3. boxes[b].source = "documents"
    BY <1>2, <2>2
  <2> QED
    BY <2>3 DEF ChosenLeavesItsRow
<1> QED
  BY <1>4, <1>5, <1>6, <1>7, <1>8

(* One document is saved through the ordinary hooks.                       *)
LEMMA SaveDocKeepsInv ==
    ASSUME LocationInv, NEW d \in Docs, NEW row \in DocRow,
           row.life = docs[d].life, SaveDoc(d, row)
    PROVE  LocationInv' /\ HandSetStep
<1> DEFINE table == [docs EXCEPT ![d] = row]
           changed == {docs[d].box, row.box} \cap Boxes
<1> USE DEF LocationInv
<1>1. /\ docs \in [Docs -> DocRow] /\ table \in [Docs -> DocRow]
      /\ table[d] = row
      /\ \A e \in Docs \ {d} : table[e] = docs[e]
  BY DEF TypeOK
<1>2. CASE row.box = docs[d].box /\ row.place = docs[d].place
  <2>1. docs' = table /\ UNCHANGED <<boxes, past>>
    BY <1>2 DEF SaveDoc
  <2>2. \A e \in Docs : /\ table[e].life = docs[e].life
                        /\ table[e].box = docs[e].box
                        /\ table[e].place = docs[e].place
    BY <1>1, <1>2
  <2> HIDE DEF table
  <2>3. \A b : Shared(table, b) = Shared(docs, b)
    BY <2>2, SharedOfOthers
  <2>4. TypeOK' /\ HistoryNamesThePlace' /\ ChosenLeavesItsRow' /\ HandSetStep
    BY <1>1, <2>1 DEF TypeOK, HistoryNamesThePlace, ChosenLeavesItsRow, HandSetStep
  <2>5. TakenPlaceFollowsDocs'
    BY <2>1, <2>3 DEF TakenPlaceFollowsDocs
  <2> QED
    BY <2>4, <2>5
<1>3. CASE ~(row.box = docs[d].box /\ row.place = docs[d].place)
  <2>1. SaveDocs(table, changed, changed)
    BY <1>3 DEF SaveDoc
  <2>2. \A b \in Boxes \ changed : Shared(table, b) = Shared(docs, b)
    BY <1>1, SharedAfterSave
  <2> HIDE DEF table, changed
  <2>3. changed \in SUBSET Boxes
    BY DEF changed
  <2> QED
    BY <1>1, <2>1, <2>2, <2>3, SaveDocsKeepsInv
<1> QED
  BY <1>2, <1>3

-----------------------------------------------------------------------------
(* The requests                                                            *)

(* No box request breaks the invariant or touches a place set by hand.     *)
LEMMA BoxRequestKeepsInv ==
    ASSUME LocationInv, NEW b \in Boxes, BoxRequest(b)
    PROVE  LocationInv' /\ HandSetStep
<1> USE DEF LocationInv
<1>0. boxes[b] \in BoxRow /\ Places \subseteq AnyPlace
      /\ Ras \in AnyPlace /\ Disinfestation \in AnyPlace /\ Archives \subseteq AnyPlace
  BY BoxLocationAssumption DEF TypeOK, AnyPlace
<1>1. ASSUME NEW place \in AnyPlace, NEW status \in Statuses, NEW destroyed \in BOOLEAN,
             EditBox(b, place, status, destroyed)
      PROVE  LocationInv' /\ HandSetStep
  <2> DEFINE row == [boxes[b] EXCEPT !.place = place, !.status = status,
                                     !.destroyed = destroyed]
  <2>1. row \in BoxRow /\ row.source = boxes[b].source /\ row.to = boxes[b].to
    BY <1>0 DEF BoxRow
  <2>2. SaveBox(b, row, place # boxes[b].place) /\ UNCHANGED docs
    BY <1>1 DEF EditBox
  <2> HIDE DEF row
  <2> QED
    BY <2>1, <2>2, SaveBoxKeepsInv
<1>2. ASSUME NEW status \in Statuses, UNCHANGED docs,
             SaveBox(b, [boxes[b] EXCEPT !.status = status], FALSE)
      PROVE  LocationInv' /\ HandSetStep
  <2> DEFINE row == [boxes[b] EXCEPT !.status = status]
  <2>1. row \in BoxRow /\ row.source = boxes[b].source /\ row.to = boxes[b].to
    BY <1>0 DEF BoxRow
  <2>2. SaveBox(b, row, FALSE)
    BY <1>2
  <2> HIDE DEF row
  <2> QED
    BY <1>2, <2>1, <2>2, SaveBoxKeepsInv
<1>3. ASSUME NEW place \in AnyPlace, NEW status \in Statuses,
             MoveBox(b, [boxes[b] EXCEPT !.place = place, !.status = status])
      PROVE  LocationInv' /\ HandSetStep
  <2> DEFINE row == [boxes[b] EXCEPT !.place = place, !.status = status]
  <2>1. row \in BoxRow /\ row.source = boxes[b].source /\ row.to = boxes[b].to
    BY <1>0 DEF BoxRow
  <2>2. MoveBox(b, row)
    BY <1>3
  <2> HIDE DEF row
  <2> QED
    BY <2>1, <2>2, MoveBoxKeepsInv
<1>4. ASSUME NEW status \in Statuses, MarkBoxStatus(b, status)
      PROVE  LocationInv' /\ HandSetStep
  BY <1>2, <1>4 DEF MarkBoxStatus
<1>5. ASSUME NEW place \in Places, MoveBoxToLocation(b, place)
      PROVE  LocationInv' /\ HandSetStep
  <2>1. [boxes[b] EXCEPT !.place = place]
            = [boxes[b] EXCEPT !.place = place, !.status = boxes[b].status]
    BY <1>0 DEF BoxRow
  <2> QED
    BY <1>0, <1>3, <1>5, <2>1 DEF MoveBoxToLocation, BoxRow
<1>6. ASSUME NEW place \in Archives, NEW permOut \in BOOLEAN, Relocate(b, place, permOut)
      PROVE  LocationInv' /\ HandSetStep
  <2> DEFINE status == IF permOut THEN "PERM_OUT" ELSE boxes[b].status
  <2>1. MoveBox(b, [boxes[b] EXCEPT !.place = place, !.status = status])
    BY <1>6 DEF Relocate
  <2>2. status \in Statuses
    BY <1>0 DEF BoxRow, Statuses
  <2> HIDE DEF status
  <2> QED
    BY <1>0, <1>3, <2>1, <2>2
<1>7. CASE RelocatePermOutOnly(b)
  BY <1>2, <1>7 DEF RelocatePermOutOnly, Statuses
<1>8. CASE SendBoxToDisinfestation(b)
  <2> DEFINE status == IF b \in RasBoxes THEN "OUT" ELSE boxes[b].status
  <2>1. MoveBox(b, [boxes[b] EXCEPT !.place = Disinfestation, !.status = status])
    BY <1>8 DEF SendBoxToDisinfestation
  <2>2. status \in Statuses
    BY <1>0 DEF BoxRow, Statuses
  <2> HIDE DEF status
  <2> QED
    BY <1>0, <1>3, <2>1, <2>2
<1>9. ASSUME NEW place \in Places, NEW toArchive \in BOOLEAN,
             FinishDisinfestation(b, place, toArchive)
      PROVE  LocationInv' /\ HandSetStep
  <2> DEFINE status == IF b \notin RasBoxes THEN boxes[b].status
                       ELSE IF toArchive THEN "PERM_OUT" ELSE "IN"
  <2>1. MoveBox(b, [boxes[b] EXCEPT !.place = place, !.status = status])
    BY <1>9 DEF FinishDisinfestation
  <2>2. status \in Statuses
    BY <1>0 DEF BoxRow, Statuses
  <2> HIDE DEF status
  <2> QED
    BY <1>0, <1>3, <2>1, <2>2
<1>10. CASE DestroyBox(b)
  <2>1. /\ boxes' = [boxes EXCEPT ![b].destroyed = TRUE]
        /\ UNCHANGED <<docs, past>>
    BY <1>10 DEF DestroyBox
  <2>2. /\ boxes' \in [Boxes -> BoxRow]
        /\ \A c \in Boxes : /\ boxes'[c].place = boxes[c].place
                            /\ boxes'[c].source = boxes[c].source
                            /\ boxes'[c].to = boxes[c].to
    BY <2>1 DEF TypeOK, BoxRow
  <2>3. past \in Pasts
    BY DEF TypeOK
  <2>4. TypeOK' /\ HistoryNamesThePlace'
    BY <2>1, <2>2 DEF TypeOK, HistoryNamesThePlace
  <2>5. TakenPlaceFollowsDocs'
    BY <2>1, <2>2 DEF TakenPlaceFollowsDocs
  <2>6. ChosenLeavesItsRow' /\ HandSetStep
    BY <2>1, <2>2, <2>3 DEF ChosenLeavesItsRow, HandSetStep, Pasts
  <2> QED
    BY <2>4, <2>5, <2>6
<1> QED
  BY <1>1, <1>4, <1>5, <1>6, <1>7, <1>8, <1>9, <1>10 DEF BoxRequest

(* Nor does a document request.                                            *)
LEMMA DocRequestKeepsInv ==
    ASSUME LocationInv, NEW d \in Docs, DocRequest(d)
    PROVE  LocationInv' /\ HandSetStep
<1> USE DEF LocationInv
<1>0. /\ docs \in [Docs -> DocRow] /\ docs[d] \in DocRow
      /\ Places \subseteq AnyPlace /\ Boxes \subseteq Boxes \cup {NoBox}
  BY DEF TypeOK, AnyPlace
<1>1. ASSUME NEW row \in DocRow, NEW touched \in SUBSET Boxes, NEW looked \in SUBSET touched,
             {docs[d].box, row.box} \cap Boxes \subseteq touched,
             SaveDocs([docs EXCEPT ![d] = row], looked, touched)
      PROVE  LocationInv' /\ HandSetStep
  <2> DEFINE table == [docs EXCEPT ![d] = row]
  <2>1. table \in [Docs -> DocRow]
    BY <1>0
  <2>2. \A b \in Boxes \ touched : Shared(table, b) = Shared(docs, b)
    BY <1>0, <1>1, SharedAfterSave
  <2>3. SaveDocs(table, looked, touched)
    BY <1>1
  <2> HIDE DEF table
  <2> QED
    BY <1>1, <2>1, <2>2, <2>3, SaveDocsKeepsInv
<1>2. ASSUME NEW row \in DocRow, CreateDoc(d, row)
      PROVE  LocationInv' /\ HandSetStep
  <2> DEFINE table == [docs EXCEPT ![d] = row]
             boxOf == {row.box} \cap Boxes
  <2>1. SaveDocs(table, boxOf, boxOf) /\ docs[d].life = "absent"
    BY <1>2 DEF CreateDoc
  <2>2. /\ table \in [Docs -> DocRow]
        /\ \A e \in Docs : table[e] = IF e = d THEN row ELSE docs[e]
    BY <1>0
  <2> HIDE DEF table
  <2>3. \A b \in Boxes \ boxOf : Shared(table, b) = Shared(docs, b)
    <3> SUFFICES ASSUME NEW b \in Boxes \ boxOf
                 PROVE  Shared(table, b) = Shared(docs, b)
      OBVIOUS
    <3> QED
      BY <2>1, <2>2, SharedOfOthers
  <2> HIDE DEF boxOf
  <2>4. boxOf \in SUBSET Boxes
    BY DEF boxOf
  <2> QED
    BY <2>1, <2>2, <2>3, <2>4, SaveDocsKeepsInv
<1>3. ASSUME NEW place \in AnyPlace, NEW inBox \in BOOLEAN, EditDoc(d, place, inBox)
      PROVE  LocationInv' /\ HandSetStep
  <2> DEFINE row == [docs[d] EXCEPT !.place = place, !.inBox = inBox]
  <2>1. row \in DocRow /\ row.life = docs[d].life
    BY <1>0 DEF DocRow
  <2>2. SaveDoc(d, row)
    BY <1>3 DEF EditDoc
  <2> HIDE DEF row
  <2> QED
    BY <2>1, <2>2, SaveDocKeepsInv
<1>4. ASSUME NEW b \in Boxes, NEW place \in AnyPlace, MoveToBox(d, b, place)
      PROVE  LocationInv' /\ HandSetStep
  <2> DEFINE row == [docs[d] EXCEPT !.box = b, !.inBox = TRUE, !.place = place]
  <2>1. row \in DocRow /\ row.life = docs[d].life /\ row.box = b
    BY <1>0 DEF DocRow
  <2>2. \/ SaveDoc(d, row)
        \/ ForgetsTheBoxItLeft(d, b)
           /\ SaveDocs([docs EXCEPT ![d] = row], {b}, {docs[d].box, b})
    BY <1>4 DEF MoveToBox
  <2> HIDE DEF row
  <2>3. CASE SaveDoc(d, row)
    BY <2>1, <2>3, SaveDocKeepsInv
  <2>4. CASE ForgetsTheBoxItLeft(d, b)
             /\ SaveDocs([docs EXCEPT ![d] = row], {b}, {docs[d].box, b})
    <3>1. {docs[d].box, b} \in SUBSET Boxes
      BY <1>0, <2>4 DEF ForgetsTheBoxItLeft, DocRow
    <3> QED
      BY <1>1, <2>1, <2>4, <3>1
  <2> QED
    BY <2>2, <2>3, <2>4
<1>5. ASSUME NEW place \in Places, MoveOutOfBox(d, place)
      PROVE  LocationInv' /\ HandSetStep
  <2> DEFINE row == [docs[d] EXCEPT !.box = NoBox, !.inBox = FALSE, !.place = place]
  <2>1. row \in DocRow /\ row.life = docs[d].life
    BY <1>0 DEF DocRow
  <2>2. SaveDoc(d, row)
    BY <1>5 DEF MoveOutOfBox
  <2> HIDE DEF row
  <2> QED
    BY <2>1, <2>2, SaveDocKeepsInv
<1>6. CASE MoveToRepository(d)
  <2> DEFINE row == [docs[d] EXCEPT !.box = NoBox]
  <2>1. row \in DocRow /\ row.life = docs[d].life
    BY <1>0 DEF DocRow
  <2>2. SaveDoc(d, row)
    BY <1>6 DEF MoveToRepository
  <2> HIDE DEF row
  <2> QED
    BY <2>1, <2>2, SaveDocKeepsInv
<1>7. ASSUME NEW status \in Statuses, SetStatusThroughDoc(d, status)
      PROVE  LocationInv' /\ HandSetStep
  <2> DEFINE b == docs[d].box
             row == [boxes[b] EXCEPT !.status = status]
  <2>1. b \in Boxes
    BY <1>0, <1>7 DEF SetStatusThroughDoc, DocRow
  <2>2. row \in BoxRow /\ row.source = boxes[b].source /\ row.to = boxes[b].to
    BY <2>1 DEF TypeOK, BoxRow
  <2>3. SaveBox(b, row, FALSE) /\ UNCHANGED docs
    BY <1>7 DEF SetStatusThroughDoc
  <2> HIDE DEF b, row
  <2> QED
    BY <2>1, <2>2, <2>3, SaveBoxKeepsInv
<1>8. ASSUME NEW old, NEW row \in DocRow, row.box \in {docs[d].box, NoBox},
             SetLife(d, old, row)
      PROVE  LocationInv' /\ HandSetStep
  <2> DEFINE boxOf == {docs[d].box} \cap Boxes
  <2>1. SaveDocs([docs EXCEPT ![d] = row], boxOf, boxOf)
    BY <1>8 DEF SetLife
  <2>2. {docs[d].box, row.box} \cap Boxes \subseteq boxOf
    BY <1>8, BoxLocationAssumption
  <2> QED
    BY <1>1, <1>8, <2>1, <2>2
<1>9. CASE ArchiveDoc(d)
  <2>1. [docs[d] EXCEPT !.life = "archived"] \in DocRow
    BY <1>0 DEF DocRow
  <2>2. [docs[d] EXCEPT !.life = "archived"].box = docs[d].box
    BY <1>0 DEF DocRow
  <2> QED
    BY <1>8, <1>9, <2>1, <2>2 DEF ArchiveDoc
<1>10. CASE RestoreDoc(d)
  <2>1. [docs[d] EXCEPT !.life = "live"] \in DocRow
    BY <1>0 DEF DocRow
  <2>2. [docs[d] EXCEPT !.life = "live"].box = docs[d].box
    BY <1>0 DEF DocRow
  <2> QED
    BY <1>8, <1>10, <2>1, <2>2 DEF RestoreDoc
<1>11. CASE ForceDeleteDoc(d)
  <2>1. NoDocRow \in DocRow /\ NoDocRow.box = NoBox
    BY DEF NoDocRow, DocRow, AnyPlace
  <2> QED
    BY <1>8, <1>11, <2>1 DEF ForceDeleteDoc
<1> QED
  BY <1>2, <1>3, <1>4, <1>5, <1>6, <1>7, <1>9, <1>10, <1>11 DEF DocRequest

(* The boxes as created satisfy the invariant.                             *)
LEMMA InitEstablishesInv ==
    ASSUME Init PROVE LocationInv
<1>1. PICK chosen \in [Boxes -> AnyPlace] : boxes = [b \in Boxes |-> Created(b, chosen[b])]
  BY DEF Init
<1>2. \A b \in Boxes : /\ Created(b, chosen[b]) \in BoxRow
                       /\ Created(b, chosen[b]).source \in {"none", "create"}
                       /\ Created(b, chosen[b]).place =
                              IF Created(b, chosen[b]).source = "none"
                              THEN NoPlace ELSE Created(b, chosen[b]).to
  BY BoxLocationAssumption DEF Created, BoxRow, Statuses, Sources, AnyPlace
<1>3. TypeOK
  BY <1>1, <1>2 DEF Init, TypeOK, NoDocRow, DocRow, AnyPlace, Pasts
<1>4. HistoryNamesThePlace /\ TakenPlaceFollowsDocs
  BY <1>1, <1>2 DEF HistoryNamesThePlace, TakenPlaceFollowsDocs
<1>5. ChosenLeavesItsRow
  BY <1>1, <1>2 DEF ChosenLeavesItsRow, Init
<1> QED
  BY <1>3, <1>4, <1>5 DEF LocationInv

(* Every step, stuttering included.                                        *)
LEMMA NextKeepsInv ==
    ASSUME LocationInv, [Next]_vars
    PROVE  LocationInv' /\ [HandSetStep]_vars
<1>1. CASE Next
  BY <1>1, BoxRequestKeepsInv, DocRequestKeepsInv DEF Next
<1>2. CASE UNCHANGED vars
  <2>1. boxes' = boxes /\ docs' = docs /\ past' = past
    BY <1>2 DEF vars
  <2>2. TypeOK' /\ HistoryNamesThePlace' /\ ChosenLeavesItsRow'
    BY <2>1 DEF LocationInv, TypeOK, HistoryNamesThePlace, ChosenLeavesItsRow
  <2>3. TakenPlaceFollowsDocs'
    BY <2>1 DEF LocationInv, TakenPlaceFollowsDocs
  <2> QED
    BY <1>2, <2>2, <2>3 DEF LocationInv
<1> QED
  BY <1>1, <1>2

-----------------------------------------------------------------------------
(* The theorems                                                            *)

(* The inductive invariant holds in every reachable state.                 *)
THEOREM LocationInvariant == Spec => []LocationInv
<1>1. Init => LocationInv
  BY InitEstablishesInv
<1>2. LocationInv /\ [Next]_vars => LocationInv'
  BY NextKeepsInv
<1> QED
  BY <1>1, <1>2, PTL DEF Spec

(* Every row keeps its type, for any boxes, documents and places.          *)
THEOREM LocationTypes == Spec => []TypeOK
<1>1. LocationInv => TypeOK
  BY DEF LocationInv
<1> QED
  BY <1>1, LocationInvariant, PTL

(* The latest history row names the place the box is at.                   *)
THEOREM LocationHistory == Spec => []HistoryNamesThePlace
<1>1. LocationInv => HistoryNamesThePlace
  BY DEF LocationInv
<1> QED
  BY <1>1, LocationInvariant, PTL

(* A place taken from the documents is the one they share, unless the box  *)
(* was passed over.                                                        *)
THEOREM LocationFollowsDocs == Spec => []TakenPlaceFollowsDocs
<1>1. LocationInv => TakenPlaceFollowsDocs
  BY DEF LocationInv
<1> QED
  BY <1>1, LocationInvariant, PTL

(* No document moves a box away from a place that was set by hand and not  *)
(* merely confirmed.                                                       *)
THEOREM LocationHandSet == Spec => HandSetPlaceIsKept
<1>1. LocationInv /\ [Next]_vars => [HandSetStep]_vars
  BY NextKeepsInv
<1>2. Spec => [][HandSetStep]_vars
  BY <1>1, LocationInvariant, PTL DEF Spec
<1> QED
  BY <1>2 DEF HandSetPlaceIsKept, HandSetStep

=============================================================================
