----------------------------- MODULE ImportQueue -----------------------------
(***************************************************************************)
(* The slices of one import in the queue (app/Jobs/ImportCsvSlice.php,     *)
(* ImportWizard::dispatchJobs, config/queue.php, ImportStatus).            *)
(*                                                                         *)
(* Each slice is a row of `jobs`. A worker reserves it, takes the lock of  *)
(* the import or puts the slice back for a while, reads it, gives the lock *)
(* back, tells the batch, and deletes the row. A worker may die anywhere:  *)
(* its lock stays until it expires, its row until the reservation does.    *)
(*                                                                         *)
(* Production has one worker (a cron entry under flock). The model also    *)
(* has a second one, as `php artisan queue:work` by hand would add.        *)
(*                                                                         *)
(* Time is in ticks, and passes while workers are idle or read.            *)
(***************************************************************************)
EXTENDS Integers, FiniteSets

CONSTANTS
    Slices,
    Workers,
    NoWorker, NoSlice,
    RetryAfter,   \* a reservation lasts this long (90 s)
    LockExpires,  \* and the lock this long (120 s)
    ReleaseAfter, \* a slice that found it taken waits this long (20 s)
    AttemptLimit, \* what the column `attempts` holds (255)
    MaxDeaths

ASSUME ImportQueueAssumption ==
    /\ IsFiniteSet(Slices)
    /\ NoWorker \notin Workers
    /\ NoSlice \notin Slices
    /\ {RetryAfter, LockExpires, ReleaseAfter, AttemptLimit} \subseteq Nat \ {0}
    /\ RetryAfter <= LockExpires
    /\ MaxDeaths \in Nat

VARIABLES
    crew,      \* the workers that run
    jobs,      \* the row of each slice in `jobs`
    lock,      \* WithoutOverlapping("import..")
    worker,    \* what each worker is at
    batch,     \* job_batches: jobs pending and failed
    import,    \* the row of `imports`: slices counted, completed_at
    read,      \* how often a slice was read to its end, 2 for more than once
    slow,      \* a slice outlived its reservation (no action reads this)
    deaths

vars == <<crew, jobs, lock, worker, batch, import, read, slow, deaths>>

Total == Cardinality(Slices)

Job == [there : BOOLEAN,      \* not deleted
        timer : 0..(RetryAfter + ReleaseAfter), \* until it may be taken
        attempts : 0..AttemptLimit]

(* owns: the row the worker took is still the slice's row. time: since it  *)
(* took the lock.                                                          *)
Steps == {"idle", "reading", "read", "unlocked", "last", "recorded"}
Worker == [step : Steps, slice : Slices \cup {NoSlice}, owns : BOOLEAN, time : 0..LockExpires]
Idle == [step |-> "idle", slice |-> NoSlice, owns |-> FALSE, time |-> 0]

Less(n) == IF n = 0 THEN 0 ELSE n - 1
AtMost(n, max) == IF n > max THEN max ELSE n

GoesOn(w, step) == worker' = [worker EXCEPT ![w].step = step]

-----------------------------------------------------------------------------
(* Mutant: whether a row is reserved is not looked at.                     *)
AvailableThoughReserved(s) == jobs[s].there

(* DatabaseQueue::pop takes a row that is due, or whose reservation ended. *)
Available(s) == jobs[s].there /\ jobs[s].timer = 0
CanTake(w, s) == w \in crew /\ worker[w].step = "idle" /\ Available(s)
Fits(s) == jobs[s].attempts < AttemptLimit

(* The row of a slice a worker took, not to be taken again before `timer`. *)
Reserved(s, timer) == [jobs[s] EXCEPT !.timer = timer, !.attempts = @ + 1]

Free == [owner |-> NoWorker, left |-> 0]
LockIsFree == lock = Free

(* Mutant: the row is deleted when it is taken, as `pop` of a queue that   *)
(* acknowledges at once would do.                                          *)
BeginDeleting(w, s) ==
    /\ CanTake(w, s) /\ Fits(s) /\ LockIsFree
    /\ jobs' = [jobs EXCEPT ![s] = [Reserved(s, 0) EXCEPT !.there = FALSE]]
    /\ lock' = [owner |-> w, left |-> LockExpires]
    /\ worker' = [worker EXCEPT ![w] = [step |-> "reading", slice |-> s,
                                        owns |-> TRUE, time |-> 0]]
    /\ UNCHANGED <<crew, batch, import, read, slow, deaths>>

(* middleware: the lock is free, or was left and has expired.              *)
Begin(w, s) ==
    /\ CanTake(w, s) /\ Fits(s) /\ LockIsFree
    /\ jobs' = [jobs EXCEPT ![s] = Reserved(s, RetryAfter)]
    /\ lock' = [owner |-> w, left |-> LockExpires]
    /\ worker' = [worker EXCEPT ![w] = [step |-> "reading", slice |-> s,
                                        owns |-> TRUE, time |-> 0]]
    /\ UNCHANGED <<crew, batch, import, read, slow, deaths>>

(* Mutant: as it was before 2026-10-27, back on the queue at once.         *)
PutBackAtOnce(w, s) ==
    /\ CanTake(w, s) /\ Fits(s) /\ ~LockIsFree
    /\ jobs' = [jobs EXCEPT ![s] = Reserved(s, 0)]
    /\ UNCHANGED <<crew, lock, worker, batch, import, read, slow, deaths>>

(* The lock is taken: the row is deleted and a new one inserted, so that   *)
(* a worker still at the old one no longer owns the row of the slice.      *)
PutBack(w, s) ==
    /\ CanTake(w, s) /\ Fits(s) /\ ~LockIsFree
    /\ jobs' = [jobs EXCEPT ![s] = Reserved(s, ReleaseAfter)]
    /\ worker' = [v \in Workers |-> IF worker[v].slice = s
                                    THEN [worker[v] EXCEPT !.owns = FALSE] ELSE worker[v]]
    /\ UNCHANGED <<crew, lock, batch, import, read, slow, deaths>>

(* Its attempts overflow: the slice fails without being read.              *)
Overflow(w, s) ==
    /\ CanTake(w, s) /\ ~Fits(s)
    /\ jobs' = [jobs EXCEPT ![s].there = FALSE]
    /\ batch' = [batch EXCEPT !.failed = @ + 1]
    /\ import' = [import EXCEPT !.completed = @ \/ batch.pending = batch'.failed]
    /\ UNCHANGED <<crew, lock, worker, read, slow, deaths>>

(* Mutant: a slice read again is counted beyond the total.                 *)
ReadBeyondTheTotal(w) ==
    /\ worker[w].step = "reading"
    /\ read' = [read EXCEPT ![worker[w].slice] = AtMost(@ + 1, 2)]
    /\ import' = [import EXCEPT !.processed = @ + 1]
    /\ GoesOn(w, "read")
    /\ UNCHANGED <<crew, jobs, lock, batch, slow, deaths>>

(* handle: the rows (ImportRows has them), then the counters, which do not *)
(* go beyond the total.                                                    *)
Read(w) ==
    /\ worker[w].step = "reading"
    /\ read' = [read EXCEPT ![worker[w].slice] = AtMost(@ + 1, 2)]
    /\ import' = [import EXCEPT !.processed = AtMost(@ + 1, Total)]
    /\ GoesOn(w, "read")
    /\ UNCHANGED <<crew, jobs, lock, batch, slow, deaths>>

(* Mutant: whoever ends gives the lock back, be it his or not.             *)
UnlockAnyones(w) ==
    /\ worker[w].step = "read"
    /\ lock' = Free
    /\ GoesOn(w, "unlocked")
    /\ UNCHANGED <<crew, jobs, batch, import, read, slow, deaths>>

(* Only its owner can give a lock back.                                    *)
Unlock(w) ==
    /\ worker[w].step = "read"
    /\ lock' = IF lock.owner = w THEN Free ELSE lock
    /\ GoesOn(w, "unlocked")
    /\ UNCHANGED <<crew, jobs, batch, import, read, slow, deaths>>

(* Mutants: the count of before is compared; the count does not wait for   *)
(* the last slice.                                                         *)
RecordComparingBefore(w) ==
    /\ worker[w].step = "unlocked"
    /\ batch' = [batch EXCEPT !.pending = IF @ < 0 THEN @ ELSE @ - 1]
    /\ GoesOn(w, IF batch.pending = batch.failed THEN "last" ELSE "recorded")
    /\ UNCHANGED <<crew, jobs, lock, import, read, slow, deaths>>
RecordTooEarly(w) ==
    /\ worker[w].step = "unlocked"
    /\ batch' = [batch EXCEPT !.pending = IF @ < 0 THEN @ ELSE @ - 1]
    /\ GoesOn(w, IF batch'.pending <= batch.failed + 1 THEN "last" ELSE "recorded")
    /\ UNCHANGED <<crew, jobs, lock, import, read, slow, deaths>>

(* recordSuccessfulJob. Below zero no count matters any more.              *)
Record(w) ==
    /\ worker[w].step = "unlocked"
    /\ batch' = [batch EXCEPT !.pending = IF @ < 0 THEN @ ELSE @ - 1]
    /\ GoesOn(w, IF batch'.pending = batch.failed THEN "last" ELSE "recorded")
    /\ UNCHANGED <<crew, jobs, lock, import, read, slow, deaths>>

(* The finally callback of dispatchJobs: completed_at, the notification.   *)
Finally(w) ==
    /\ worker[w].step = "last"
    /\ import' = [import EXCEPT !.completed = TRUE]
    /\ GoesOn(w, "recorded")
    /\ UNCHANGED <<crew, jobs, lock, batch, read, slow, deaths>>

Delete(w) ==
    /\ worker[w].step = "recorded"
    /\ jobs' = IF worker[w].owns
               THEN [jobs EXCEPT ![worker[w].slice] = [@ EXCEPT !.there = FALSE, !.timer = 0]]
               ELSE jobs
    /\ worker' = [worker EXCEPT ![w] = Idle]
    /\ UNCHANGED <<crew, lock, batch, import, read, slow, deaths>>

(* The process is killed, and cron starts another within the minute.       *)
Die(w) ==
    /\ deaths < MaxDeaths
    /\ worker[w].step # "idle"
    /\ deaths' = deaths + 1
    /\ worker' = [worker EXCEPT ![w] = Idle]
    /\ UNCHANGED <<crew, jobs, lock, batch, import, read, slow>>

Tick ==
    /\ \A w \in Workers : worker[w].step \in {"idle", "reading"}
    /\ jobs' = [s \in Slices |-> [jobs[s] EXCEPT !.timer = Less(@)]]
    /\ lock' = IF lock.left <= 1 THEN Free ELSE [lock EXCEPT !.left = @ - 1]
    /\ worker' = [w \in Workers |-> IF worker[w].step = "idle" THEN Idle
                     ELSE [worker[w] EXCEPT !.time = AtMost(@ + 1, LockExpires)]]
    /\ slow' = (slow \/ \E w \in Workers : worker'[w].time >= RetryAfter)
    /\ UNCHANGED <<crew, batch, import, read, deaths>>

-----------------------------------------------------------------------------
(* dispatchJobs has queued the slices as one batch.                        *)
Init ==
    /\ crew \in SUBSET Workers \ {{}}
    /\ jobs = [s \in Slices |-> [there |-> TRUE, timer |-> 0, attempts |-> 0]]
    /\ lock = Free
    /\ worker = [w \in Workers |-> Idle]
    /\ batch = [pending |-> Total, failed |-> 0]
    /\ import = [processed |-> 0, completed |-> FALSE]
    /\ read = [s \in Slices |-> 0]
    /\ slow = FALSE
    /\ deaths = 0

Work(w) ==
    \/ \E s \in Slices : Begin(w, s) \/ PutBack(w, s) \/ Overflow(w, s)
    \/ Read(w)
    \/ Unlock(w)
    \/ Record(w)
    \/ Finally(w)
    \/ Delete(w)

Next ==
    \/ \E w \in Workers : Work(w) \/ Die(w)
    \/ Tick

(* Cron starts the worker again and again, a slice ends, time passes.      *)
(* Nothing says that a worker dies.                                        *)
Fairness == WF_vars(Tick) /\ \A w \in Workers : WF_vars(Work(w))

Spec == Init /\ [][Next]_vars /\ Fairness

-----------------------------------------------------------------------------
(* Properties                                                              *)

(* Every row, lock and worker keeps its type.                              *)
TypeOK ==
    /\ crew \subseteq Workers
    /\ jobs \in [Slices -> Job]
    /\ lock \in [owner : Workers \cup {NoWorker}, left : 0..LockExpires]
    /\ worker \in [Workers -> Worker]
    /\ batch \in [pending : -1..Total, failed : 0..Total]
    /\ import \in [processed : 0..Total, completed : BOOLEAN]
    /\ read \in [Slices -> 0..2]
    /\ slow \in BOOLEAN
    /\ deaths \in 0..MaxDeaths

Alone == \E w \in Workers : crew = {w}
Overflowed(s) == jobs[s].attempts = AttemptLimit

(* The lock of an import: two workers are in its slices at once only after *)
(* one of them has been at it for longer than the lock lasts.              *)
OneSliceAtATime ==
    \A v, w \in Workers :
        v # w /\ worker[v].step = "reading" /\ worker[w].step = "reading"
            => worker[v].time = LockExpires \/ worker[w].time = LockExpires

(* A slice leaves the queue read, or with its attempts overflown; no death *)
(* of a worker loses it.                                                   *)
NoSliceIsLost ==
    \A s \in Slices : ~jobs[s].there => read[s] > 0 \/ Overflowed(s)

(* "The last 767 rows of a 26,867-row sheet were never imported" does not  *)
(* come back: with one worker, waiting for the lock a dead one left does   *)
(* not use up the attempts of any slice.                                   *)
OneWorkerFailsNoSlice == Alone => batch.failed = 0

(* A slice is read again only if a worker died, or, with two workers, one  *)
(* took longer than the reservation of its row.                            *)
ReadAgainOnlyAfterATimeout ==
    \A s \in Slices : read[s] > 1 => deaths > 0 \/ (slow /\ ~Alone)

(* Two ends of one slice, each told to the batch.                          *)
EndedTwice(s) == read[s] > 1 \/ (read[s] = 1 /\ Overflowed(s))

(* "Rows a finished import never reached": what Import Status says of them *)
(* is right, and nothing is finished before, unless a slice ended twice.   *)
CompletedTellsTheTruth ==
    import.completed /\ (\A s \in Slices : ~EndedTwice(s)) =>
        /\ \A s \in Slices : read[s] = 1 \/ Overflowed(s)
        /\ import.processed = Cardinality({s \in Slices : read[s] = 1})

(* Whoever dies, every slice is read, or uses up its attempts.             *)
EverySliceEnds == \A s \in Slices : <>(read[s] > 0 \/ Overflowed(s))

(* If nobody dies and no slice outlives its reservation, the import is     *)
(* marked complete and its operator told.                                  *)
ImportCompletes == <>(import.completed \/ deaths > 0 \/ slow)

=============================================================================
