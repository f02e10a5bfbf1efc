# A TLA+ model of batch-list-tool

batch-list-tool is the Laravel / Filament application with which an archive
keeps its inventory: documents, the boxes and batches they are in, where boxes
and documents are, and the disinfestation cycle they go through. This directory
models the part of it that changes those facts, checks it with TLC, and proves
what matters most with TLAPS.

Contents: [the system](#the-system), [the modules](#the-modules),
[the runs](#the-runs), [what is proved](#what-is-proved),
[where the code and its comments part](#where-the-code-and-its-comments-part),
[what is left out](#what-is-left-out), [not modelled](#not-modelled),
[the plan](#the-plan).

## The system

Operators use web pages; there is no other client. A request is one PHP
process. MySQL 8 (InnoDB, REPEATABLE READ) is the only shared state; the session and a
queue for imports and backups come beside it. Filament wraps no page in a transaction
(the application does not turn that on), so the save of a page is a sequence of
commits, with model hooks between them; bulk actions on boxes and on documents
open one transaction per row.

| Component | State | Operations | Interacts through |
|---|---|---|---|
| Boxes (`app/Models/Box.php`, `BoxResource`, `Actions/Boxes`) | type, barcode, barcode status (IN, OUT, PERM OUT), batch, location, destroy date, archived | create, edit, mark IN/OUT/PERM OUT, relocate, move to location, send to and finish disinfestation, change batch, destroy, archive, restore, delete | hooks that write documents and histories |
| Documents (`app/Models/Document.php`, `DocumentResource`, `Actions/Documents`) | current box, copy of the box's status, batch, series, location, custody status, disinfestation flag and dates, archived | create, edit, move to box, move out of box, move to museum or repository, set series, send to / mark disinfested, archive, restore, delete | hooks that read the box and make the box look at its documents |
| Histories (`box_barcode_history`, `box_location_history`, seal, identifier, document location) | one row per change | appended by hooks | the location history is read back to decide whether documents may move a box |
| Disinfestation cycle | the flag and four date slots of a document, status and location of its box | four actions, on boxes or documents | both of the above |
| Series hierarchy (`app/Models/Series.php`, `SeriesResource`, `SeriesImporter`) | parent of each series, archived | put under, archive, restore, import | series of documents |
| Location tree (`app/Models/Location.php`) | parent, path, depth | create, rename, deactivate | locations of boxes and documents |
| Rows of an import (`Filament/Imports/DocumentImporter.php`, `EntityResolver`, `ImportBatchList`) | transactions, a memo of ids, stashes keyed by object id | the hooks of a row, under three callers | writes through the models |
| Queue of an import (`Jobs/ImportCsvSlice.php`, `ImportWizard`, `ImportStatus`) | slices in `jobs`, a lock per import, a batch, the import | reserve, put back, read, tell the batch, delete | runs the rows |
| Backups (`Actions/Backup/RestoreDatabase.php`, `BackupDestination`, `BackupRun`) | destinations, one default; records of runs | back up, restore with a safety snapshot | replaces the database |
| Tenancy (`Support/ActiveRepository.php`, `Models/Scopes`) | the session's repository | choose, read | filters every query |
| Flags, accessions, authorities, batches, volumes, lookups, custom fields, policies, authentication, reports, stock take, user interface | catalogue and configuration rows | forms | read by the rules above |

What is hard here:

- **Copies.** A document carries its box's barcode status and batch. A dozen requests
  write one side or the other; some run model hooks, some are bulk UPDATEs
  that run none, some skip archived rows and some do not.
- **Archived rows.** An archived box or document is hidden from some queries
  and not from others, and comes back as it is, with no rule looked at again.
- **Overlap.** Guards compare with the row as this process loaded it; the UPDATE
  writes the columns that differ from it, whatever the row holds by then.
- **Death half way.** The UPDATE of a box, its history row and the mirror to its
  documents are three commits on a page.
- **Memories that outlive a row.** An import keeps ids and cells in static
  arrays while rows throw, transactions roll back and PHP gives object ids again.
- **A queue with timeouts.** A reservation of 90 seconds, a lock of two
  minutes, and workers that are killed.
- **Checks of a tree that hides part of it.** A series is checked against its
  descendants through those that are not archived, in a request that others overlap.
- **Provenance read from a log.** Whether a location was set by a person or
  taken from the documents is told only by the latest history row, and a
  change that changes nothing writes no row.

What makes each component correct:

- boxes and documents: copies agree with the box; the wills batch holds wills;
  PERM OUT is terminal; nothing enters a closed box; nothing loses its box;
- overlapping requests: the same, up to overlaps that can be named exactly;
- box locations: the latest row names the place; a place taken from documents
  follows them; a place set by hand stays;
- disinfestation: a box comes back with its last document, and never before;
- series: no series is its own ancestor, and `descendants()` are those below;
- rows of an import: whole or absent, isolated from each other, in the box they name;
- queue: no slice lost, read once unless something timed out or died, and the import
  completes, and not before its slices end;
- backups: no restore without a snapshot, at most one default destination;
- tenancy: no row of a repository the user may not see.

## The modules

| Module | What it is |
|---|---|
| `Custody` | Boxes, documents, and what a document copies from its box. One action per request, alone. |
| `Placement`, `CustodyPlacement` | The abstract promise about where documents are, and the refinement mapping. |
| `BoxRequests` | One RAS box under overlapping requests, in the steps other requests can see. |
| `BoxLocation` | Where boxes are and why: set, by the rule for IN, or taken from documents. |
| `Disinfestation` | The flags of a box's documents and its way back, under overlapping requests. |
| `ImportRows` | The rows of a sheet of documents, hook by hook, with transactions, memo and stashes. |
| `ImportQueue` | The slices of an import in the queue, with clock, lock and workers that die. |
| `SliceReading`, `ImportQueueReading` | The abstract promise about how slices are read, and the refinement mapping. |
| `SeriesTree` | The hierarchy of series under overlapping pages and imports. |
| `SeriesWalk` | The walk of `descendants()`, loop by loop. |
| `MCCustody`, `MCBoxRequests`, `MCBoxLocation`, `MCDisinfestation`, `MCImportRows`, `MCImportQueue`, `MCSeriesTree` | What TLC needs besides: the symmetries. |
| `CustodyProofs`, `CustodyPlacementProofs`, `BoxRequestsProofs`, `BoxLocationProofs`, `DisinfestationProofs`, `ImportRowsProofs`, `ImportQueueProofs`, `SeriesTreeProofs` | Theorems. |

`Custody`, `BoxRequests` and `BoxLocation` share boxes and documents and differ in
grain; `Disinfestation` looks closer at one cycle of theirs. `ImportQueue` runs
what `ImportRows` models: `Read(w)` there is a whole slice here, and `Die` here is
a death in the middle of it. What the two share is `SliceReading`: slices are read one at
a time but for workers who outstayed the lock, and again only after something went wrong. That
`ImportQueue` implements it is checked and proved; that `ImportRows` asks no more of its
callers (one process, whose slices are done again after a death) is by construction of that module.

`PROJECT.json` names, for every definition, the lines of the source it stands for.

### Custody

`boxes` and `documents` are the two tables, a row per id, `life` being absent,
live or archived (`deleted_at`). An action is a whole request: `SaveBox` holds the guards of
`Box::booted()` and the mirror (`mirrorBarcodeStatusToDocuments`), `SaveDoc` the
guards of `Document::booted()` and the re-mirror (`syncCustodyFromCurrentBox`), and
every request that saves a box or a document goes through one of them, with the row it asks
for. Requests that write with bulk UPDATEs (`ChangeBoxBatch`) do so in their
own action, without hooks, as in the code. What a request refuses is a guard.
The one request that fails after a write, outside any transaction, is an action of its own
(`CreateDocHalfway`).

`past` records events the database does not: which boxes were archived since their
status was last mirrored, which were put in another batch on their edit page,
which documents were archived since the wills rule last saw them, which creations
failed half way. Each entry goes as soon as the code re-establishes what the event
may have broken. No action reads `past`; the invariants use it to say *exactly* when a copy
may differ.

Data is abstracted to what the rules read: a series is the bit "wills series",
box types are RAS, the legacy types the form treats like RAS, and the others; a
barcode is "a new one was typed, or not". Values a guard outside the model
decides (the disinfestation flag, the location of the box) are free choices.

### BoxRequests

Each process has what it has loaded and where it is. A page save is four steps
(`LoadBox`, `UpdateBox`, `WriteHistory`, `MirrorStatus`), since the pages run in no
transaction; a document action is a selection (`PickDoc`, `PickMove`), the first read of its
transaction (`LookAtBox`, `BeginMove`), which fixes what the transaction sees of
other rows, and its commit; a bulk action on boxes holds the row lock from
its first read, and is one step. A process may die anywhere (`Die`). Since the
model keeps no clock, a form may be as old as one likes and ask for anything.

`outdated` and `overtaken` tell, per process, that the box or the document was written by
another after this one read it, or after its UPDATE. They are what the
properties are excused by, and no action reads them.

The commit of a transaction is one step although its UPDATEs are several: their
row locks are held to the end, and readers see the last commit. A page's bulk mirror
waits for those locks in the code; here it comes before or after.

### BoxLocation

`boxes` holds place, status, destroy flag and the source and target of the
latest location history row; `docs` the place, the box and whether the document is physically
in it. `Settled` is the rule that a RAS box on its way to IN is at RAS;
`Recorded` the history row; `FromDocs` is `syncLocationFromDocuments`, run by the saved,
deleted and restored hooks of a document for the box it is in and the box it left.

Two details of the framework matter and are modelled. `documentsFollowBox`
clears locations with a bulk UPDATE, which runs no hooks. And when the box a document
moves to has another status than the box it left, the re-mirror saves
the document again inside the updated hook, which resets the original values;
the saved hook then no longer knows the box it left (`ForgetsTheBoxItLeft`).

`past` says which boxes were placed by an operator or by the rule for IN (`chosen`),
which of them were merely told the place they already had (`confirmed`), and
which were passed over when their documents changed (`missed`).

### Disinfestation

One RAS box: its status, whether it is at the location Disinfestation, and for each
document whether it is inside, linked but kept elsewhere, or gone, and its flag
`is_in_disinfestation`. An action on a document is `Pick` (the selection is
loaded), `Look` (the first reads of its transaction: the box, the other documents)
and its commit; an action on the box takes the row lock (`BeginBox`) and commits. All else
that operators do to the box and the documents is `SetBox` and `SetDoc`, which may
do anything the guards allow. `sent`, `outdated` and `excuse` are bookkeeping no action
reads: why a document is out while its box is IN, or the reverse.

### ImportRows

`view` is the database as the process sees it, `stack` what each open transaction
rolls back to; `Committed` is what is on disk. A row is `StartRow`, `FillRecord`,
`AfterFill`, `BeforeSave`, `SaveRecord`, `AfterSave`, the hooks of the importer in the
order Filament calls them. `RowFails` is what the importer's catch and then the
caller's do with a row that throws. How Filament wraps rows is told in two ways by the
comments of the source ("one transaction per chunk, failing rows swallowed",
"rolls this row's transaction back"); both are modelled, and `ImportBatchList`
is the third caller, which goes on to the next row after a `RowImportFailedException` or a
`ValidationException` only: what the database throws at a save ends the import (`aborted`), and somebody
may run it again. Ids grow and are not given back by a rollback, as AUTO_INCREMENT does; the memo
and the stash live as long as the process. Between two jobs a user may delete an empty box for good. An object id is any value of `Slots`: PHP
gives an id again once the record before is released.

A row names at most one RAS box and one In Situ box; which hook throws is its
`fault`. Cells, batches, authorities and pivots are not told apart.

### ImportQueue

A slice is its row of `jobs`: there or not, how long until it may be taken, its
attempts. `Begin` and `PutBack` are the reservation and the middleware; `Read`
the rows and counters; `Unlock`, `Record`, `Finally`, `Delete` what Laravel does
then. `Die` stops a worker anywhere; the lock stays until it expires and the row until its
reservation does. An exception that leaves a slice is a redelivery like a
death. Time is in ticks that pass while every worker is idle or reading: the steps
between are database statements, against timeouts of a minute and more. `owns`
says whether the row the worker took is still the slice's: a slice put back is a
new row, and deleting the old one does nothing.

The cron entry starts one worker, under `flock` (docs/operations/queue-worker.md);
the same page starts another by hand. `crew` is chosen at the start.

### SeriesTree

`parent` and `archived` are the table. A page save is a check and, later, a write; a slice of an import
is a transaction of many rows, each checked against the snapshot of the slice and
its own writes, which others see at its commit; InnoDB's row locks decide who
waits. What a check forbids as parents is `Below`: the least set that holds the children, not
archived, of a series and of its members. The code finds it by a recursive walk with
marks. `SeriesWalk` has that walk as a recursive function: a call is where it is in its loop and the
marks it shares with all others, and its value the marks it leaves. `DescendantsAreThoseBelow` is what
entitles `SeriesTree` to say `Below`: on every table, and on what every slice sees, the two agree.

## The runs

| Run | Instance | Properties |
|---|---|---|
| `MCCustodyOneBox` | 1 box of any type, 1 document, batches 1 and 50 | TypeOK, BatchMirror, WillsReserve |
| `MCCustodyTwoBoxes` | 2 boxes, 1 document | StatusMirror, BatchMirror, EntersOpenBoxes, ImplementsPlacement, PermOutIsLeftForInOnly |
| `MCCustodyTwoDocs` | 1 box, 2 documents | StatusMirror |
| `MCBoxRequests` | 2 processes, 1 document, 2 barcodes | TypeOK, HistoryTellsTheBox, MirrorUnlessTorn, PermOutUnlessOutdated |
| `MCBoxLocationTwoDocs` | 1 RAS box, 2 documents, 3 places | TypeOK, HistoryNamesThePlace, TakenPlaceFollowsDocs, HandSetPlaceIsKept |
| `MCDisinfestation` | 1 box, 2 documents, 2 requests | TypeOK, StaysOutUntilTheLast, ReturnsWithTheLast, FinishLeavesNothingOut |
| `MCImportRows` | 3 rows in slices of 2, 1 RAS box, 1 In Situ box, 2 object ids, 1 death | TypeOK, NoHalfRows, SuccessIsDurable, FaultlessRowFailsOnlyBehindAFailure, MisplacedOnlyBehindAFailure, OneBoxIsNoMoveTheFirstTime |
| `MCImportQueue` | 2 slices, 1 or 2 workers, 1 death | TypeOK, OneSliceAtATime, NoSliceIsLost, OneWorkerFailsNoSlice, ReadAgainOnlyAfterATimeout, CompletedTellsTheTruth, ImplementsReading, EverySliceEnds, ImportCompletes |
| `MCSeriesTree` | 3 series, 2 requests | TypeOK, LoopsWereOutOfSight, DescendantsAreThoseBelow |
| `MCBoxRequestsArchived`, `MCImportRowsMisplaced`, `MCSeriesTreeLoop` | as above, smaller | one comment of the code each, which TLC refutes |

**Bounds.** Boxes and documents interact only through the box a document is in, so
a property of one box and one document needs a second box (to move between) or a
second document (a status set through one reaches the other; two
that disagree about a place), and not both at once; the theorems cover any number. One case takes both:
a document moves between boxes of different status and its old box, where others remain, does
not look at them again (`ForgetsTheBoxItLeft`). `MCBoxLocationTwoDocs` has one box and cannot show it, and
with two it is out of TLC's reach; `TakenPlaceFollowsDocs` there rests on the theorem `LocationFollowsDocs`. Two
processes are what a lost update, a torn mirror or a stale read takes. Three
places are Disinfestation, RAS and one other; three statuses and all box types
are the code's own. Three rows in slices of two have a row after a failure in
the same slice and one in the next. Three series are the shortest
loop with a hidden link in the middle.

`MaxDeaths` bounds how often a process dies in the two import models; a second
death repeats the first, from a state the first leaves. In the queue the periods keep
the order and the proportions that matter (a reservation is shorter than the lock,
a slice put back waits for less than both): the `.cfg` has them in ticks, and
`AttemptLimit`, 255 in the code, is what a dead worker's lock cannot use up at one
attempt per `ReleaseAfter`, but could at one per instant. Below zero the count of the
batch stops, and `read` at two: no rule tells the rest apart. Nothing else counts.

Documents, boxes, requests, series and object ids are declared symmetric where they do not
differ, and only where every property checked is a safety property.
`MCImportQueue` has liveness and no symmetry.

**Fairness.** Pages and actions are what operators choose to do, and nothing
obliges one to restore a box, mirror a status or finish a disinfestation; a
process may die at any time, so not even a page save is bound to end. Those models have
none, and no liveness. The queue does retry: cron starts a worker every minute, which
takes what is due, and a slice of 100 rows ends; `Fairness` is weak fairness of each
worker's work and of time. Nothing is fair about who gets a slice, or says that a
worker dies. `EverySliceEnds` and `ImportCompletes` rest on it.

**Deadlock** is checked, except in the two runs of `ImportRows`, where a sheet that is
through, with no box left to delete, has nothing to do.

### What the properties say

*Custody.* `StatusMirror`: every document in a box shows its status, archived or not, unless the box
was archived since it was last mirrored, or the creation of the document failed
half way. `BatchMirror`: likewise for the batch, unless the box's batch was typed
on its edit page. `WillsReserve`: on every path the wills batch takes documents of wills
series only, until the document is archived. `EntersOpenBoxes`: nothing is put into an
archived or destroyed box. `PermOutIsLeftForInOnly`: over
all the requests that write a status. `ImplementsPlacement`: all requests
together are an implementation of `Placement`, in which no document, not even an
archived one, loses its box because the box is deleted.

*BoxRequests.* `MirrorUnlessTorn`: when no page save still has to mirror, the documents show the
box's status, except those which one of four named overlaps or deaths has touched, until the
next full mirror. `HistoryTellsTheBox`: the latest row is the box, unless
a page died before its row or the row comes from an overlap. `PermOutUnlessOutdated`: a
box leaves PERM OUT for IN with another barcode, except by a request
that had read the box before it became PERM OUT.

*BoxLocation.* `HistoryNamesThePlace`: what `syncLocationFromDocuments` reads off the
history is about the place the box has now. `TakenPlaceFollowsDocs`: a place
taken from documents is the one they share, unless the box was passed over.
`HandSetPlaceIsKept`: no document moves a box from where an operator put it,
unless the operator chose the place it already had.

*Disinfestation.* `StaysOutUntilTheLast`: a box that is IN has no document out, except one put
there by hand or by a request that overlapped another. `ReturnsWithTheLast`: a box that was sent is
not left OUT with all its documents back, except when the last two were marked
by overlapping requests, or documents came and went by hand.
`FinishLeavesNothingOut`: finishing a box brings back all that went with it, also what is
kept elsewhere since.

*ImportRows.* `NoHalfRows`: at every moment, so at every death, a document on disk has
all its row says. `SuccessIsDurable`: a row reported as done is on disk. Rows are isolated, except
that a row that throws leaves two things behind in a queued import: the ids of boxes that were rolled back
(`Shares`, within the slice) and its box number (`LeavesBox`, until an object id comes again).
`FaultlessRowFailsOnlyBehindAFailure` and `MisplacedOnlyBehindAFailure` say that these are all.
`OneBoxIsNoMoveTheFirstTime`: a document with one box gets no movement; on a
re-import it does, as its box then counts as RAS Box 1.

*ImportQueue.* `OneSliceAtATime`: two workers are in slices of one import only when one
has outlived the lock. `NoSliceIsLost`, `EverySliceEnds`: whoever dies and
whenever, each slice is read or uses up its attempts. `OneWorkerFailsNoSlice`: with one worker the latter does not
happen, which is what the change of 2026-10-27 was for. `ReadAgainOnlyAfterATimeout`: a slice is read
again only after a death, or, with two workers, when one outlived the
reservation. `CompletedTellsTheTruth`: an import marked complete has ended all its slices and
counted them, unless one ended twice. `ImplementsReading`: all that workers, clocks and deaths do is an
implementation of `SliceReading`, in which there are no clocks. `ImportCompletes`: without death or timeout it is marked complete.

*SeriesTree.* `LoopsWereOutOfSight`: a loop is left only by requests that overlapped, or
through a series that was archived. `DescendantsAreThoseBelow`: the walk ends, and
is reachability through series that are not archived, on loops too.

Every property has at least one mutant in `PROJECT.json`: a definition changed the way
a plausible bug would change it, which that property's run must catch.

## What is proved

For any number of boxes, documents, batches and places, from the assumptions
named in the modules (ids differ from NULL, the wills batches are batches, box
types are the three kinds, RAS and Disinfestation are two places), and for any
number of requests, rows, slices, workers and deaths and any periods with
`RetryAfter <= LockExpires`:

| Theorem | Result |
|---|---|
| `CustodyInvariant` | the inductive invariant below |
| `CustodyTypes`, `CustodyStatusMirror`, `CustodyBatchMirror`, `CustodyWillsReserve`, `CustodyNoDanglingBox` | its parts |
| `CustodyPermOut`, `CustodyEntersOpenBoxes` | the action properties |
| `CustodyImplementsPlacement` | Custody implements Placement |
| `LocationInvariant`, `LocationTypes`, `LocationHistory`, `LocationFollowsDocs` | the invariants of BoxLocation |
| `LocationHandSet` | documents do not move a box somebody placed |
| `CycleInvariant`, `CycleTypes`, `CycleStaysOut`, `CycleReturns` | the invariants of Disinfestation |
| `CycleFinish` | finishing a box leaves nothing out |
| `RequestsInvariant`, `RequestsTypes`, `RequestsHistory`, `RequestsMirror` | the invariants of BoxRequests |
| `RequestsPermOut` | a box leaves PERM OUT for IN with another barcode, on fresh reads |
| `RowsInvariant`, `RowsTypes`, `RowsAreAtomic`, `RowsAreDurable` | types, NoHalfRows and SuccessIsDurable of ImportRows |
| `RowsFate`, `RowsFailForAReason`, `RowsAreAtHome`, `RowsMoveNothingAtFirst` | what one row may do to another: the three properties with BehindFailure |
| `QueueInvariant`, `QueueTypes`, `QueueLock`, `QueueLosesNothing`, `QueueReadAgain` | the invariants of ImportQueue |
| `QueueCounts`, `QueueCompleted` | an import marked complete has ended its slices |
| `QueueImplementsReading` | ImportQueue implements SliceReading |
| `QueueOneWorker` | with one worker no slice fails, if the attempts suffice |
| `TreeInvariant`, `TreeTypes`, `TreeLoops` | the invariants of SeriesTree |
| `TreeWalk` | the walk of `descendants()` is reachability, on any table |

**Custody.** The inductive invariant (`CustodyInv`) is the conjunction of TypeOK, NoDanglingBox,
StatusMirror, BatchMirror, WillsReserve and ArchivalNoted: an archived box or document is in
the history of archived ones. The mirrors alone are not inductive, for two reasons. A box
deleted for good with documents left pointing at it would be replaced by a new box
of the same id with another status; NoDanglingBox excludes that, and is in turn kept because a
box is deleted only when nothing, archived or not, is in it. And a status set through a
document of an archived box reaches that document only, which is allowed because, by
ArchivalNoted, that box is excused. The proof has lemmas about the two
ways of writing, `SaveBox` and `SaveDoc`, and one step per request, each of
which reduces to one of those lemmas or to the bulk UPDATE it makes.
The action properties follow from TypeOK and the guards, request by request.

**Placement.** The mapping sends a stored document to its box, a stored box to the inventory,
and a live box that is not destroyed to the open boxes. Each request is
shown to be a step of Placement or a stutter; `NoDanglingBox` is again what rules
out that a new box appears around an old document.

**BoxLocation.** The invariant (`LocationInv`) is TypeOK, HistoryNamesThePlace,
TakenPlaceFollowsDocs and ChosenLeavesItsRow: a place that was chosen, and not merely
confirmed, is not told by a row "documents". The code decides by the row and
`HandSetPlaceIsKept` is about what the operator did; ChosenLeavesItsRow relates the two.

**BoxRequests.** Nothing keeps two requests apart, so the invariant (`RequestsInv`) says what each may rely
on. `Reliable`: until it is warned, what a request read is what is there, and what it is about to
write passed the guards against that; until the box is written again after its UPDATE, the box is what
the request made of it, in the status alone if its read was outdated. Lemma
`WarningIsEnough` shows that a write which warns of all it changed leaves every other request
reliable; every action is then a case of what its own request does. HistoryTellsTheBox and
MirrorUnlessTorn are inductive on top of it: what is pending is excused, and who ends what is
pending either has a reliable row to write or notes that it had not.

**ImportRows.** Where the process is tells how deep transactions are nested, two at the most (`StackShape`);
so it is known what any rollback brings back. `NothingHalf`: in every such state each document is
whole, and in the tables all but the row at hand. `NothingLost`: in every such state each row reported as done is
there, but for the state before the slice of a chunk, which comes back only by a death that
has the slice done again. That a row which throws is rolled back to its own savepoint, and not to the slice's,
is what RowFailsInv uses.

What a row does to a later one depends on which row failed before, and needs a second invariant
(`FateInv`), inductive on top of the first. An id belongs to one box for good, in the
tables and in whatever a rollback brings back, since lastId is not rolled back (`IdsAreOwned`); so an id the memo
kept of a rolled back box is nobody's, and never another box's. The memo is right but for boxes named by a row that
failed in this slice (`MemoIsRight`), a stash is the row's own or was left behind (`StashIsOwn`), and what a row
rolls back is its own RAS box (`RowMadeItsBox`). `RecordInMemory` carries this through the hooks: the box the record has exists,
and is what the row says. `DocumentsArePlaced` and `OutcomesAreAccounted` are the three properties made
inductive, and had to be said of the open transactions too, as a rollback brings those states back. BehindFailure itself is
not stable: a slice that starts again forgets which of its rows failed, while documents of other rows stay. The
invariant therefore speaks of `ComesAfter`, which names rows by what the sheet says of them (a row with such a fault fails
whenever its slice is read) and by failures of other slices, and of `Behind`, which holds of no row
longer than of the failure it is about; `Progress` (a slice is done or to do as a whole) gives BehindFailure back when the slice is through.

**ImportQueue.** Lock and reservation have clocks of their own, which nothing in the code compares. The
invariant (`QueueInv`) ties both to the worker's: `TakersHoldTheLock` (who has read for less than
the lock lasts has it, with the rest of its time left) gives OneSliceAtATime. `OneWorkerPerSlice` says, for as long
as nobody died and no reservation ran out under a second worker, that a slice has at
most one worker, who owns its row, whose timer is what is left of the
reservation; from it a slice that can be taken was not read. That the two clocks of a
worker agree up to RetryAfter is where RetryAfter <= LockExpires is used.
`FailedAreGone` bounds the count of failures by the rows that are gone, for the types.

`CountInv` is about the counters: as long as no slice was read or told twice, the batch has counted only
slices that were read, so who finds no slice pending finds all ended. `QueueOneWorker` is about a lone worker:
each death costs a slice the wait for a lock whose owner is gone, that is at most K attempts if
the lock lasts K release periods, and one for the reading it undid. `LoneInv(K)` says that a slice has had no more attempts than the deaths so
far excuse (`Slack`), and that what is left of the lock is worth no more than what it has not had. The theorem has the
hypothesis `LimitSuffices(K)`: LockExpires <= K * ReleaseAfter and MaxDeaths * (K + 1) < AttemptLimit. With the periods of the
code (120 and 20 seconds, a column that holds 255) K is 6, so the theorem covers up to 36 deaths; in the run K is 3, and the
limit 5 is the least it allows for one death.

**SliceReading.** The mapping forgets the clocks: a slice is queued while its row is there and spent when its attempts
are, and a reader is late once he has read for as long as the lock lasts. Each step of the queue is a step of
SliceReading or none. TakersHoldTheLock gives that a slice begins among late readers only, ReadAgainOnlyAfterATimeout
that what is read again is excused, and CountInv that whoever completes the import may.

**SeriesTree.** `Above` and `Below` are least closed sets, so a fact about one is had from a set closed under
the relation, without induction. The main one is AllowedMoveClosesNoLoop: after a move that the check allows, a series
on a loop with nothing archived above it was on that loop before. The invariant (`TreeInv`) adds to
LoopsWereOutOfSight that a request which nobody has overlapped since (not `outdated`) still sees what its check saw
(`UpToDate`): a page that passed its check may be saved, and a slice's own tables have only excused loops. `ExcusedAreOnLoops` lets
an excuse go with its loop.

The walk of `descendants()` (`TreeWalk`) needs two things: that the recursive function exists, and that it gives
what it should. Both are by induction on the weight of a call, the series it has not marked first and then those its loop has
to come to, since a call within the loop marks one more, and the rest of the loop has one less to come to. `LoopIsRight` is the
step: what the loop leaves marked is what was marked before, what it had to do, the children of all it marked, and nothing
that is not in every set of series closed under children (`IsRight`).
The library's induction theorems have an operator as parameter; `LeastNatural`, that a set of naturals has a least
member, has a set, and is had from the order of the finite subsets of a set.

**Only model-checked:** the liveness of `ImportQueue` (EverySliceEnds, ImportCompletes), which, as ENABLED,
is out of the prover's reach. Every other property of the runs that pass is stated by a theorem.

## Where the code and its comments part

Three have a run that TLC refutes, in a few steps; the lines are in `PROJECT.json`.

- *The barcode "cannot be the same as the barcode that was just archived"* (Box.php:964). It may be edited
  while the box is PERM OUT; the next save compares with the edited one. The trace has one request after
  another: the property excuses those that overlap.
- *"Different rows stay isolated"* (DocumentImporter.php:708). In a queued import a row that throws leaves
  its RAS Box 1 in a static stash, and a later row whose record is given the same object id
  goes into that box. `flushRowStashes` is there for this, and only `ImportBatchList` calls it.
  Nor is the memo flushed when a row rolls back: `DocumentImporter::saveRecord` hides the trait's
  `saveRecord`, which would.
- *"A cycle cannot be formed from the UI"* (SeriesResource.php:120). B is under A and C under B. Archive B, put A
  under C, which is possible as C cannot be seen below A, restore B.

The others are the excuses of properties: a mutant or a smaller model without the excuse shows each.

- *"Every document currently in the box mirrors the box value"* (Box.php:1121). A document of an
  archived box is sent to disinfestation: the box is not found, the document's own column is
  written. Restored, the two disagree until the status next changes. (`StatusMirror`)
- *"A document placed in the wills-reserve batch MUST belong to a wills series"* (Document.php:1239).
  Archive a document, change its box to batch 50, restore the document. (`WillsReserve`)
- *"A box cannot move from PERM OUT to OUT"* (Box.php:1021). The guard is about the row as
  loaded, the UPDATE about the row as it is. (`PermOutUnlessOutdated`)
- *"A location somebody set on the box is never touched"* (Box.php:733). Somebody who sets the
  place the box already has from its documents leaves no trace, and the
  documents go on moving it. (`HandSetPlaceIsKept`)
- *"A box in disinfestation stays out until the last of its documents there is back"*
  (MarkDisinfestedAction.php:130). Two requests at once: the last two documents are marked, each sees the other out,
  and the box stays OUT; or one is sent while another is marked, and the box is IN with one out. (`ReturnsWithTheLast`, `StaysOutUntilTheLast`)
- *"A single current box is a location, not a move"* (DocumentImporter.php:2029). A row that names one
  In Situ box, imported twice, is a move from that box to itself. (`OneBoxIsNoMoveTheFirstTime`)
- *"Failed jobs go straight to `failed_jobs`; no retry loop blocking the queue"* (docs/operations/queue-worker.md:16,
  of `--tries=1`). That is not so for the slices of an import, as ImportCsvSlice.php:45-50 tells: one that finds the lock
  taken goes back on the queue, each time as an attempt, until the count overflows; and one whose worker died, or that ran past
  its reservation, is taken again after 90 s. What ends the tries is not in this repository: the slice
  declares none, and Filament's `ImportCsv` gives it a day, which goes before `--tries`. An exception that leaves
  a slice is taken for a redelivery, too. (`NoSliceIsLost`, `EverySliceEnds`, `ReadAgainOnlyAfterATimeout`)
- The batch typed on the box's edit page leaves its documents in the old batch
  (`rebatchedBoxes`), and the destroy date typed there does not ask `canBeDestroyed`
  (`EditBox` in `Custody` has no such guard).
- In the queue: with two workers and slices longer than 90 seconds a slice is
  read again and again; a worker that dies between the last count of the batch and
  `finally` leaves the import "Pending" for good; a slice told to the batch twice
  completes the import early. (`ReadAgainOnlyAfterATimeout`, `ImportCompletes`, `CompletedTellsTheTruth`)

## What is left out

- Tenant checks, permissions and inactive locations: the operator may do everything and every
  place is usable. A refused request changes nothing, so this only allows more
  behaviours.
- The disinfestation flag is a free choice in `Custody`; dates, with their four slots, are in
  no model.
- The importers in `Custody` and `BoxLocation`: they write through the same models but may set several
  columns at once, with flags that skip guards. In `ImportRows`: what rows say
  besides two boxes, and box rows, series rows and the other importers.
- In `ImportQueue`: the day after which a job gives up, other imports in the same queue
  (each has its own lock), and time within the steps after reading.
- In `SeriesTree`: codes, tenancy, the wills toggle; a check is one step.
- In `BoxRequests`: other boxes, archiving, batches, locations; document pages.
  The history rows older than the latest.
- Failures of the database other than the death of a process.
- The components `PROJECT.json` lists as not modelled, each with its reason.

## Not modelled

- The location tree. `parent_id` of a location is no field of its page any more, and
  the importer matches on it: a location gets its parent when it is created, so path and
  depth are written once and there is no re-parenting to go wrong.
- Backups and restore: programs outside the application replace the whole database,
  the records of the restore included. What can be said of it is about files.
- Tenancy, policies, field permissions: decisions of one request, from static
  tables, looked at again on every read.
- Flags, accessions, authorities, batches, volumes, lookups, custom fields, stock
  take: rows with form validation and no protocol between them.
- Reports, exports, the digest, the user interface: they read. The JavaScript of the repository is the
  compiled bundles of Filament and two build configurations, with no logic of the program.

## The plan

1. *(done)* `Custody`, with its proofs, and `Placement`.
2. *(done)* `BoxRequests`, with its proofs.
3. *(done)* `BoxLocation`, with its proofs.
4. *(done)* `Disinfestation`, with its proofs.
5. *(done)* `ImportRows`, with proofs; `ImportQueue`, with liveness and proofs.
6. *(done)* `SeriesTree`, with its proofs, in place of a location tree, which no request can bend any more.
7. Dates: the four slots of a document, which one action fills and the other overwrites.
8. The catalogue pages that change what the wills rule reads (the wills toggle of a series,
   the number of a batch), and moves between repositories that leave the box behind.
9. `Restore`: the order of snapshot, import and records; the default destination.
10. *(done)* Proofs of the properties of `ImportRows` with BehindFailure, of the counters and the attempts
   of `ImportQueue`.
11. *(done)* `SliceReading`, which `ImportQueue` implements, and the walk of `descendants()`, both proved.

Order: by what a wrong inventory costs. The custody rules come first, then what
breaks them without a test noticing, then the supporting components.
