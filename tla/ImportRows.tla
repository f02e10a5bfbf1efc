----------------------------- MODULE ImportRows -----------------------------
(***************************************************************************)
(* Documents read from a sheet, row by row (app/Filament/Imports/          *)
(* DocumentImporter.php, app/Support/BulkImport/EntityResolver.php,        *)
(* app/Jobs/ImportCsvSlice.php, app/Console/Commands/ImportBatchList.php). *)
(*                                                                         *)
(* A row resolves or creates the boxes it names and saves its document.    *)
(* Three memories outlive the row: the nesting of database transactions,   *)
(* the memo of ids of EntityResolver, and the stashes of DocumentImporter, *)
(* keyed by spl_object_id, which PHP gives again once an object is freed.  *)
(* A row may throw in any hook, and the process may die anywhere.          *)
(*                                                                         *)
(* The importer runs under one of three callers, read in the source from   *)
(* their comments (the first two are Filament's):                          *)
(*   "chunk"    one transaction around the slice, rows that throw swallowed*)
(*   "row"      one transaction around each row                            *)
(*   "console"  ImportBatchList: autocommit, and a catch that cleans up    *)
(***************************************************************************)
EXTENDS Naturals, Sequences

CONSTANTS
    Rows,        \* how many rows the sheet has
    SliceLength, \* rows in a slice (100 in the code)
    RasBoxes,    \* what RAS Box 1 may name: a box inside a batch
    SituBoxes,   \* what In Situ Box 1 may name
    None,        \* the cell is blank
    Slots,       \* values of spl_object_id
    MaxDeaths    \* how often a process ends, by a crash or by its time limit

Boxes == RasBoxes \cup SituBoxes
Row == 1..Rows

ASSUME ImportRowsAssumption ==
    /\ Rows \in Nat
    /\ SliceLength \in Nat \ {0}
    /\ None \notin Boxes
    /\ RasBoxes \cap SituBoxes = {}
    /\ MaxDeaths \in Nat

(* A row names at most one box of each kind. Its fault is the hook in      *)
(* which the row throws by itself: while it is resolved and validated      *)
(* ("early"), in fillRecord or before resolveCurrentBox ("fill"), on the   *)
(* INSERT ("save"), or once its In Situ Box 1 is resolved ("after": an     *)
(* In Situ Box 2 of no active type, say). The cells it then never reaches  *)
(* are taken as blank.                                                     *)
Faults == {"none", "early", "fill", "save", "after"}
Content ==
    {says \in [ras : RasBoxes \cup {None}, situ : SituBoxes \cup {None}, fault : Faults] :
        /\ says.fault = "early" => says.ras = None
        /\ says.fault \in {"early", "fill", "save"} => says.situ = None}

VARIABLES
    sheet,    \* what each row says
    caller,   \* "chunk", "row" or "console"
    skips,    \* "Skip rows that already exist" is ticked
    view,     \* boxes and documents, as the process sees them
    stack,    \* what each open transaction or savepoint rolls back to
    lastId,   \* AUTO_INCREMENT of boxes, which no rollback takes back
    memo,     \* EntityResolver::$memo, 0 where it has no entry
    stash,    \* DocumentImporter::$rowBoxNumberStash
    at,       \* where the process is
    outcome,  \* what the import reports of each row
    deaths

vars == <<sheet, caller, skips, view, stack, lastId, memo, stash, at, outcome, deaths>>

(* boxes: the id of each box, 0 if there is none. A document: is it there, *)
(* its current_box_id, its legacy box_movements, and whether all that its  *)
(* row says of it was written.                                             *)
Document == [made : BOOLEAN, box : Nat, moves : Seq(Nat), whole : BOOLEAN]
View == [boxes : [Boxes -> Nat], docs : [Row -> Document]]

(* "idle", "between" two rows, the hook to run next, "reported" (the slice *)
(* is committed, its job not yet deleted), "aborted" (the console gave the *)
(* import up). box: current_box_id of the record in memory. open:          *)
(* $rowSavepointOpen.                                                      *)
Steps == {"idle", "between", "fill", "afterFill", "beforeSave", "saveRecord",
          "afterSave", "reported", "aborted"}
Place == [step : Steps, slice : Nat, row : Nat, slot : Slots, box : Nat, open : BOOLEAN]

Forgotten == [box \in Boxes |-> 0]
EmptyStash == [slot \in Slots |-> None]
NoDocument == [made |-> FALSE, box |-> 0, moves |-> <<>>, whole |-> FALSE]

(* What is on disk.                                                        *)
Committed == IF stack = <<>> THEN view ELSE stack[1]

SliceOf(r) == IF caller = "console" THEN 0 ELSE (r - 1) \div SliceLength
Says == sheet[at.row]

-----------------------------------------------------------------------------
(* Transactions, and a row that throws                                     *)

Begun == Append(stack, view)
Closed(n) == SubSeq(stack, 1, Len(stack) - n)
RolledBack(n, seen) == IF n = 0 THEN seen ELSE stack[Len(stack) - n + 1]

(* The row throws after its hooks rolled back n levels of their own. The   *)
(* caller's catch does the rest: "row" rolls its transaction back, "chunk" *)
(* nothing, and the console unwinds to its base level, flushes both        *)
(* memories and makes a new importer for the next row. Of what a save      *)
(* throws, the console expects refusals; what the database throws aborts   *)
(* the import.                                                             *)
GoesOnFrom(step) ==
    IF caller = "console" /\ step \in {"saveRecord", "afterSave"}
    THEN {"between", "aborted"} ELSE {"between"}

RowFails(n, seen, memory, stashed) ==
    LET console == caller = "console"
        levels == IF console THEN Len(stack)
                  ELSE IF caller = "row" THEN n + 1 ELSE n IN
    /\ view' = RolledBack(levels, seen)
    /\ stack' = Closed(levels)
    /\ outcome' = [outcome EXCEPT ![at.row] = "failed"]
    /\ \E step \in GoesOnFrom(at.step) :
           at' = [at EXCEPT !.step = step, !.row = @ + 1, !.open = @ /\ n = 0 /\ ~console]
    /\ memo' = IF console THEN Forgotten ELSE memory
    /\ stash' = IF console THEN EmptyStash ELSE stashed
    /\ UNCHANGED <<sheet, caller, skips, deaths>>

GoesOn(step) == at' = [at EXCEPT !.step = step]

-----------------------------------------------------------------------------
(* EntityResolver::resolveBox and resolveInSituBox, with create            *)

(* The memo first, then the table, then a new box.                         *)
IdOf(box) == IF memo[box] # 0 THEN memo[box]
             ELSE IF view.boxes[box] # 0 THEN view.boxes[box]
             ELSE lastId + 1

Resolution(box) ==
    IF box = None THEN [id |-> 0, memory |-> memo, seen |-> view, last |-> lastId]
    ELSE LET isNew == IdOf(box) = lastId + 1 IN
         [id     |-> IdOf(box),
          memory |-> [memo EXCEPT ![box] = IdOf(box)],
          seen   |-> IF isNew THEN [view EXCEPT !.boxes[box] = IdOf(box)] ELSE view,
          last   |-> IF isNew THEN IdOf(box) ELSE lastId]

(* A foreign key asks this, and find().                                    *)
Exists(id, boxes) == \E box \in Boxes : boxes[box] = id

-----------------------------------------------------------------------------
(* The job                                                                 *)

FirstToDo(s, r) == /\ SliceOf(r) = s
                   /\ outcome[r] = "todo"
                   /\ \A q \in Row : SliceOf(q) = s => r <= q

(* Mutant: the memo of the slice before, or of another import, is kept.    *)
TakeSliceKeepingMemo(r) ==
    /\ at.step = "idle"
    /\ FirstToDo(SliceOf(r), r)
    /\ at' = [at EXCEPT !.step = "between", !.slice = SliceOf(r), !.row = r]
    /\ stack' = IF caller = "chunk" THEN Begun ELSE stack
    /\ UNCHANGED <<memo, sheet, caller, skips, view, lastId, stash, outcome, deaths>>

(* handle: the memo is flushed, the slice is read from its first row.      *)
TakeSlice(r) ==
    /\ at.step = "idle"
    /\ FirstToDo(SliceOf(r), r)
    /\ at' = [at EXCEPT !.step = "between", !.slice = SliceOf(r), !.row = r]
    /\ memo' = Forgotten
    /\ stack' = IF caller = "chunk" THEN Begun ELSE stack
    /\ UNCHANGED <<sheet, caller, skips, view, lastId, stash, outcome, deaths>>

RowToDo == at.step = "between" /\ at.row <= Rows /\ SliceOf(at.row) = at.slice

(* The slice is through: its transaction commits, its counters are saved.  *)
ReportSlice ==
    /\ at.step = "between"
    /\ ~RowToDo
    /\ stack' = IF caller = "chunk" THEN Closed(1) ELSE stack
    /\ GoesOn("reported")
    /\ UNCHANGED <<sheet, caller, skips, view, lastId, memo, stash, outcome, deaths>>

(* The job leaves the queue, with the importer it made.                    *)
DeleteJob ==
    /\ at.step = "reported"
    /\ at' = [at EXCEPT !.step = "idle", !.open = FALSE]
    /\ UNCHANGED <<sheet, caller, skips, view, stack, lastId, memo, stash, outcome, deaths>>

(* The process ends: open transactions roll back, its memories are gone,   *)
(* and a slice whose job is still queued runs again from its first row; or *)
(* somebody runs an aborted import again.                                  *)
Die ==
    /\ deaths < MaxDeaths
    /\ deaths' = deaths + 1
    /\ view' = Committed
    /\ stack' = <<>>
    /\ memo' = Forgotten
    /\ stash' = EmptyStash
    /\ at' = [at EXCEPT !.step = "idle", !.open = FALSE]
    /\ outcome' = [r \in Row |-> IF at.step # "idle" /\ SliceOf(r) = at.slice
                                 THEN "todo" ELSE outcome[r]]
    /\ UNCHANGED <<sheet, caller, skips, lastId>>

(* Between two jobs a user force-deletes a box that holds no document; the *)
(* legacy movements lose its id (nullOnDelete).                            *)
DeleteBox(box) ==
    LET id == view.boxes[box]
        Nulled(moves) == [i \in DOMAIN moves |-> IF moves[i] = id THEN 0 ELSE moves[i]] IN
    /\ at.step = "idle"
    /\ id # 0
    /\ \A r \in Row : view.docs[r].box # id
    /\ view' = [boxes |-> [view.boxes EXCEPT ![box] = 0],
                docs  |-> [r \in Row |-> [view.docs[r] EXCEPT !.moves = Nulled(@)]]]
    /\ UNCHANGED <<sheet, caller, skips, stack, lastId, memo, stash, at, outcome, deaths>>

-----------------------------------------------------------------------------
(* The hooks of a row                                                      *)

(* resolveRecord finds the document of the row, or makes one, at whatever  *)
(* object id is free: the record of the row before is released first.      *)
StartRow(slot) ==
    /\ RowToDo
    /\ at' = [at EXCEPT !.step = "fill", !.slot = slot, !.box = view.docs[at.row].box]
    /\ stack' = IF caller = "row" THEN Begun ELSE stack
    /\ UNCHANGED <<sheet, caller, skips, view, lastId, memo, stash, outcome, deaths>>

(* skipIfDuplicate and validateData come before fillRecord; the column     *)
(* closures stash the cells that are not blank.                            *)
Stashed == IF Says.ras = None THEN stash ELSE [stash EXCEPT ![at.slot] = Says.ras]
Refused == Says.fault = "early" \/ (skips /\ view.docs[at.row].made)

FillRecord ==
    /\ at.step = "fill"
    /\ UNCHANGED lastId
    /\ \/ Refused /\ RowFails(0, view, memo, stash)
       \/ ~Refused /\ Says.fault = "fill" /\ RowFails(0, view, memo, Stashed)
       \/ /\ ~Refused /\ Says.fault # "fill"
          /\ stash' = Stashed
          /\ GoesOn("afterFill")
          /\ UNCHANGED <<sheet, caller, skips, view, stack, memo, outcome, deaths>>

(* Mutant: what the cell names is assigned, and not the id it resolves to. *)
AfterFillWithoutId ==
    LET found == Resolution(stash[at.slot]) IN
    /\ at.step = "afterFill"
    /\ stash' = [stash EXCEPT ![at.slot] = None]
    /\ view' = found.seen /\ memo' = found.memory /\ lastId' = found.last
    /\ at' = [at EXCEPT !.step = "beforeSave", !.box = IF found.id = 0 THEN @ ELSE stash[at.slot]]
    /\ UNCHANGED <<sheet, caller, skips, stack, outcome, deaths>>

(* resolveCurrentBox drains the stash of the record.                       *)
AfterFill ==
    LET found == Resolution(stash[at.slot]) IN
    /\ at.step = "afterFill"
    /\ stash' = [stash EXCEPT ![at.slot] = None]
    /\ view' = found.seen /\ memo' = found.memory /\ lastId' = found.last
    /\ at' = [at EXCEPT !.step = "beforeSave", !.box = IF found.id = 0 THEN @ ELSE found.id]
    /\ UNCHANGED <<sheet, caller, skips, stack, outcome, deaths>>

(* Mutant: no savepoint.                                                   *)
BeforeSaveWithoutSavepoint ==
    /\ at.step = "beforeSave"
    /\ GoesOn("saveRecord")
    /\ UNCHANGED <<sheet, caller, skips, view, stack, lastId, memo, stash, outcome, deaths>>

(* A savepoint left open by an earlier row is rolled back, a new one made. *)
Own == IF at.open THEN 1 ELSE 0
BeforeSave ==
    /\ at.step = "beforeSave"
    /\ view' = RolledBack(Own, view)
    /\ stack' = Append(Closed(Own), RolledBack(Own, view))
    /\ at' = [at EXCEPT !.step = "saveRecord", !.open = TRUE]
    /\ UNCHANGED <<sheet, caller, skips, lastId, memo, stash, outcome, deaths>>

CannotSave == Says.fault = "save" \/ (at.box # 0 /\ ~Exists(at.box, view.boxes))

Save ==
    /\ ~CannotSave
    /\ view' = [view EXCEPT !.docs[at.row] =
          [view.docs[at.row] EXCEPT !.made = TRUE, !.box = at.box, !.whole = FALSE]]
    /\ GoesOn("afterSave")
    /\ UNCHANGED <<sheet, caller, skips, stack, memo, stash, outcome, deaths>>

(* Mutant: saveRecord as it was before 2026-10-27, with no catch.          *)
SaveRecordWithoutCatch ==
    /\ at.step = "saveRecord"
    /\ UNCHANGED lastId
    /\ \/ CannotSave /\ RowFails(0, view, memo, stash)
       \/ ~CannotSave /\ Save

(* What throws rolls the savepoint back. The memo is left as it is: this   *)
(* saveRecord hides the one of LogsImportRows, which would flush it.       *)
SaveRecord ==
    /\ at.step = "saveRecord"
    /\ UNCHANGED lastId
    /\ \/ CannotSave /\ RowFails(Own, view, memo, stash)
       \/ ~CannotSave /\ Save

(* The movements are written and the document is pointed at the newest     *)
(* box, if find() finds it.                                                *)
Filed(seen, moves, newest) ==
    LET doc == seen.docs[at.row] IN
    [seen EXCEPT !.docs[at.row] =
        [doc EXCEPT !.whole = TRUE, !.moves = moves,
                    !.box = IF Exists(newest, seen.boxes) THEN newest ELSE doc.box]]

(* Mutant: a document that was in a box already has moved.                 *)
SideEffectsCountingTheOldBox ==
    LET situ == Resolution(Says.situ)
        newest == IF situ.id # 0 THEN situ.id ELSE at.box IN
    [throws |-> Says.fault = "after", memory |-> situ.memory, last |-> situ.last,
     seen   |-> Filed(situ.seen, IF newest # 0 THEN <<at.box, newest>> ELSE <<>>, newest)]

(* buildLegacyMovementChain: RAS Box 1 first, which is current_box_id as   *)
(* it is by now, then In Situ Box 1. Two boxes are a move, and a row each; *)
(* one is a place.                                                         *)
SideEffects ==
    LET situ == Resolution(Says.situ)
        boxes == situ.seen.boxes
        isMove == at.box # 0 /\ situ.id # 0
        newest == IF situ.id # 0 THEN situ.id ELSE at.box IN
    [throws |-> Says.fault = "after"
                \/ (isMove /\ ~(Exists(at.box, boxes) /\ Exists(situ.id, boxes))),
     memory |-> situ.memory,
     last   |-> situ.last,
     seen   |-> Filed(situ.seen, IF isMove THEN <<at.box, situ.id>> ELSE <<>>, newest)]

(* The savepoint is released.                                              *)
Imported ==
    /\ view' = SideEffects.seen
    /\ stack' = Closed(IF caller = "row" THEN Own + 1 ELSE Own)
    /\ memo' = SideEffects.memory
    /\ outcome' = [outcome EXCEPT ![at.row] = "ok"]
    /\ at' = [at EXCEPT !.step = "between", !.row = @ + 1, !.open = FALSE]
    /\ UNCHANGED <<sheet, caller, skips, stash, deaths>>

(* persistRowSideEffects throws: the savepoint is rolled back, with the    *)
(* document and the boxes made since beforeSave; the memo keeps their ids. *)
AfterSave ==
    /\ at.step = "afterSave"
    /\ lastId' = SideEffects.last
    /\ \/ SideEffects.throws /\ RowFails(Own, view, SideEffects.memory, stash)
       \/ ~SideEffects.throws /\ Imported

-----------------------------------------------------------------------------
Init ==
    /\ sheet \in [Row -> Content]
    /\ caller \in {"chunk", "row", "console"}
    /\ skips \in BOOLEAN
    /\ caller = "console" => ~skips
    /\ view = [boxes |-> Forgotten, docs |-> [r \in Row |-> NoDocument]]
    /\ stack = <<>>
    /\ lastId = 0
    /\ memo = Forgotten
    /\ stash = EmptyStash
    /\ at \in [step : {"idle"}, slice : {0}, row : {1}, slot : Slots, box : {0}, open : {FALSE}]
    /\ outcome = [r \in Row |-> "todo"]
    /\ deaths = 0

Next ==
    \/ \E r \in Row : TakeSlice(r)
    \/ \E slot \in Slots : StartRow(slot)
    \/ FillRecord
    \/ AfterFill
    \/ BeforeSave
    \/ SaveRecord
    \/ AfterSave
    \/ ReportSlice
    \/ DeleteJob
    \/ Die
    \/ \E box \in Boxes : DeleteBox(box)

Spec == Init /\ [][Next]_vars

-----------------------------------------------------------------------------
(* Properties                                                              *)

(* Every row, transaction and memory keeps its type.                       *)
TypeOK ==
    /\ sheet \in [Row -> Content]
    /\ caller \in {"chunk", "row", "console"}
    /\ skips \in BOOLEAN
    /\ view \in View
    /\ stack \in Seq(View)
    /\ lastId \in Nat
    /\ memo \in [Boxes -> Nat]
    /\ stash \in [Slots -> RasBoxes \cup {None}]
    /\ at \in Place
    /\ outcome \in [Row -> {"todo", "ok", "failed"}]
    /\ deaths \in 0..MaxDeaths

(* "the row becomes atomic: it persists fully (document + box status +     *)
(* pivots) or not at all": whenever the process dies, no document is on    *)
(* disk without what its row says of it.                                   *)
NoHalfRows == \A r \in Row : Committed.docs[r].made => Committed.docs[r].whole

(* A row the import reports as done is on disk once its slice is reported, *)
(* or the import aborted, whatever other rows threw.                       *)
SuccessIsDurable ==
    at.step \in {"reported", "idle", "aborted"} =>
        \A r \in Row : outcome[r] = "ok" => Committed.docs[r].made

(* What an earlier failure may do to row r: a row of its slice that failed *)
(* names a box that r names too, and the memo still has the id that was    *)
(* rolled back; or a row of any slice failed with its box in the stash,    *)
(* and a later one was given its object id. The console cleans both.       *)
Shares(q, r) == \/ sheet[q].ras # None /\ sheet[q].ras = sheet[r].ras
                \/ sheet[q].situ # None /\ sheet[q].situ = sheet[r].situ
LeavesBox(q) == sheet[q].fault = "fill" /\ sheet[q].ras # None
BehindFailure(r) ==
    /\ caller # "console"
    /\ \E q \in Row : /\ outcome[q] = "failed"
                      /\ \/ q < r /\ SliceOf(q) = SliceOf(r) /\ Shares(q, r)
                         \/ LeavesBox(q)

(* A row with no fault of its own fails only because its document is       *)
(* already there and those are skipped, or behind an earlier failure.      *)
FaultlessRowFailsOnlyBehindAFailure ==
    \A r \in Row : outcome[r] = "failed" /\ sheet[r].fault = "none" =>
        \/ skips /\ view.docs[r].made
        \/ BehindFailure(r)

Home(r) == IF sheet[r].situ # None THEN sheet[r].situ ELSE sheet[r].ras
IsHome(r) == LET id == view.docs[r].box IN
    IF Home(r) = None THEN id = 0 ELSE id # 0 /\ id = view.boxes[Home(r)]

(* A document reported as imported is in the box its row names, or in none *)
(* if it names none, unless behind an earlier failure.                     *)
MisplacedOnlyBehindAFailure ==
    at.step = "idle" =>
        \A r \in Row : outcome[r] = "ok" => IsHome(r) \/ BehindFailure(r)

(* "A single current box is a location, not a move", the first time a row  *)
(* is imported. Imported again (here: by a slice that runs again), the row *)
(* finds its document in the box it names, and that counts as RAS Box 1.   *)
OneBoxIsNoMoveTheFirstTime ==
    at.step = "idle" /\ deaths = 0 => \A r \in Row :
        outcome[r] = "ok" /\ None \in {sheet[r].ras, sheet[r].situ}
            => view.docs[r].moves = <<>> \/ BehindFailure(r)

(* What the comments say without the exceptions: a document reported as    *)
(* imported is in the box its row names, and "different rows stay          *)
(* isolated".                                                              *)
DocumentsAreWhereTheirRowsSay ==
    at.step = "idle" => \A r \in Row : outcome[r] = "ok" => IsHome(r)

=============================================================================
