------------------------- MODULE ImportQueueProofs -------------------------
(***************************************************************************)
(* What ImportQueue promises for any number of slices, workers and deaths, *)
(* and any three periods: types, OneSliceAtATime, NoSliceIsLost,           *)
(* ReadAgainOnlyAfterATimeout and CompletedTellsTheTruth; and, when the    *)
(* column `attempts` holds what the deaths may cost, OneWorkerFailsNoSlice;*)
(* and that the queue implements SliceReading.                             *)
(*                                                                         *)
(* The lock and the reservation are each tied to the worker that took them *)
(* by the time since: TakersHoldTheLock for as long as the lock lasts,     *)
(* and, while nobody dies and no reservation runs out under a second       *)
(* worker, Quiet, in which every slice has at most one worker at it.       *)
(* CountInv relates the counts of the batch and of the import to the       *)
(* slices that were read; LoneInv the attempts of a slice to what the      *)
(* deaths so far may have cost it (Slack).                                 *)
(***************************************************************************)
EXTENDS ImportQueueReading, FiniteSetTheorems, TLAPS

Gone == {s \in Slices : ~jobs[s].there}

(* The batch counts no more failures than rows have left the queue.        *)
FailedAreGone == batch.failed <= Cardinality(Gone)

(* A worker that reads has the lock until it expires.                      *)
TakersHoldTheLock ==
    \A w \in Workers :
        worker[w].step = "reading" /\ worker[w].time < LockExpires
            => lock = [owner |-> w, left |-> LockExpires - worker[w].time]

(* A worker is at a slice, which it has read once it is past reading.      *)
BusyHaveASlice ==
    \A w \in Workers : worker[w].step # "idle" =>
        /\ w \in crew
        /\ worker[w].slice \in Slices
        /\ worker[w].step # "reading" => read[worker[w].slice] > 0

(* Nobody died and no reservation ran out under a second worker.           *)
Quiet == deaths = 0 /\ (slow => Alone)

At(w, s) == worker[w].step # "idle" /\ worker[w].slice = s

(* While it is quiet, a slice has one worker, whose row is reserved as     *)
(* long as another worker could take it, and was read at most once.        *)
OneWorkerPerSlice ==
    Quiet =>
      /\ \A w \in Workers, s \in Slices : At(w, s) =>
            /\ worker[w].owns
            /\ worker[w].step = "reading" => read[s] = 0
            /\ ~slow => /\ worker[w].time < RetryAfter
                        /\ jobs[s].timer = RetryAfter - worker[w].time
      /\ \A v, w \in Workers, s \in Slices : At(v, s) /\ At(w, s) => v = w
      /\ \A s \in Slices : read[s] <= 1
      /\ \A s \in Slices : read[s] > 0 /\ jobs[s].there => \E w \in Workers : At(w, s)

QueueInv ==
    /\ TypeOK
    /\ FailedAreGone
    /\ TakersHoldTheLock
    /\ BusyHaveASlice
    /\ NoSliceIsLost
    /\ OneWorkerPerSlice

-----------------------------------------------------------------------------
(* Facts about the operators                                               *)

(* The periods and the limits are numbers.                                 *)
LEMMA Numbers ==
    /\ RetryAfter \in Nat \ {0} /\ LockExpires \in Nat \ {0}
    /\ ReleaseAfter \in Nat \ {0} /\ AttemptLimit \in Nat \ {0}
    /\ MaxDeaths \in Nat /\ Total \in Nat
BY ImportQueueAssumption, FS_CardinalityType DEF Total

(* A row can be reserved, put back and deleted.                            *)
LEMMA Timers ==
    /\ {0, RetryAfter, ReleaseAfter} \subseteq 0..(RetryAfter + ReleaseAfter)
    /\ 0 \in 0..AttemptLimit
    /\ \A n \in 0..AttemptLimit : n < AttemptLimit => n + 1 \in 0..AttemptLimit
BY Numbers

(* It stays a row, with one attempt more.                                  *)
LEMMA ReservedType ==
    ASSUME NEW s, jobs[s] \in Job, jobs[s].attempts < AttemptLimit,
           NEW timer \in {RetryAfter, ReleaseAfter}
    PROVE  /\ Reserved(s, timer) \in Job
           /\ Reserved(s, timer).there = jobs[s].there /\ Reserved(s, timer).timer = timer
<1>1. jobs[s].attempts \in 0..AttemptLimit /\ jobs[s].attempts + 1 \in 0..AttemptLimit
  BY Timers DEF Job
<1>2. timer \in 0..(RetryAfter + ReleaseAfter)
  BY Timers
<1> QED
  BY <1>1, <1>2, Zenon DEF Job, Reserved

(* What rows have left the queue is finite, and no more than the slices.   *)
LEMMA GoneIsFinite == IsFiniteSet(Gone) /\ Cardinality(Gone) \in Nat /\ Cardinality(Gone) <= Total
<1>1. Gone \subseteq Slices /\ IsFiniteSet(Slices)
  BY ImportQueueAssumption DEF Gone
<1> QED
  BY <1>1, FS_Subset, FS_CardinalityType DEF Total

(* One worker takes a step.                                                *)
LEMMA WorkerStep ==
    ASSUME TypeOK, NEW w \in Workers, NEW new \in Worker, worker' = [worker EXCEPT ![w] = new]
    PROVE  /\ worker' \in [Workers -> Worker]
           /\ worker'[w] = new
           /\ \A v \in Workers \ {w} : worker'[v] = worker[v]
BY DEF TypeOK

(* It goes on at the slice it is at.                                       *)
LEMMA GoesOnStep ==
    ASSUME TypeOK, NEW w \in Workers, NEW step \in Steps, GoesOn(w, step)
    PROVE  /\ worker' \in [Workers -> Worker]
           /\ worker'[w].step = step /\ worker'[w].slice = worker[w].slice
           /\ worker'[w].owns = worker[w].owns /\ worker'[w].time = worker[w].time
           /\ \A v \in Workers \ {w} : worker'[v] = worker[v]
<1>1. worker[w] \in Worker /\ worker' = [worker EXCEPT ![w] = [worker[w] EXCEPT !.step = step]]
  BY DEF TypeOK, GoesOn
<1>2. [worker[w] EXCEPT !.step = step] \in Worker
  BY <1>1 DEF Worker
<1> QED
  BY <1>1, <1>2 DEF TypeOK, Worker

(* An idle worker is a worker.                                             *)
LEMMA IdleType == Idle \in Worker
BY Numbers DEF Idle, Worker, Steps

(* While it is quiet nobody is at a slice that may be taken, and that      *)
(* slice was not read.                                                     *)
LEMMA TakenByOne ==
    ASSUME QueueInv, Quiet, NEW w \in Workers, NEW s \in Slices, CanTake(w, s)
    PROVE  read[s] = 0 /\ \A v \in Workers : ~At(v, s)
<1>1. ASSUME NEW v \in Workers, At(v, s) PROVE FALSE
  <2>1. v \in crew /\ w \in crew /\ v # w
    BY <1>1 DEF QueueInv, BusyHaveASlice, CanTake, At
  <2>2. CASE slow
    BY <2>1, <2>2 DEF Quiet, Alone
  <2>3. CASE ~slow
    <3>1. worker[v].time < RetryAfter /\ jobs[s].timer = RetryAfter - worker[v].time
      BY <1>1, <2>3 DEF QueueInv, OneWorkerPerSlice
    <3>2. worker[v].time \in Nat /\ jobs[s].timer = 0
      BY DEF QueueInv, TypeOK, Worker, CanTake, Available
    <3> QED
      BY <3>1, <3>2, Numbers
  <2> QED
    BY <2>2, <2>3
<1>2. read[s] \in 0..2 /\ ~(read[s] > 0)
  BY <1>1 DEF QueueInv, TypeOK, OneWorkerPerSlice, CanTake, Available
<1> QED
  BY <1>1, <1>2

-----------------------------------------------------------------------------
(* A worker takes a slice                                                  *)

(* The row is reserved and the lock taken.                                 *)
LEMMA BeginKeepsInv ==
    ASSUME QueueInv, NEW w \in Workers, NEW s \in Slices, Begin(w, s)
    PROVE  QueueInv'
<1> DEFINE new == [step |-> "reading", slice |-> s, owns |-> TRUE, time |-> 0]
           row == Reserved(s, RetryAfter)
<1> USE DEF QueueInv
<1>1. new \in Worker /\ worker' = [worker EXCEPT ![w] = new]
  BY Numbers DEF Worker, Steps, Begin
<1>2. new.step = "reading" /\ new.slice = s /\ new.owns = TRUE /\ new.time = 0
  OBVIOUS
<1>3. jobs' = [jobs EXCEPT ![s] = row]
  BY DEF Begin
<1>4. jobs[s] \in Job /\ jobs[s].there /\ jobs[s].attempts < AttemptLimit
  BY DEF TypeOK, Begin, CanTake, Available, Fits
<1>5. row \in Job /\ row.there /\ row.timer = RetryAfter
  BY <1>4, ReservedType
<1> HIDE DEF new, row
<1>6. /\ worker' \in [Workers -> Worker] /\ worker'[w] = new
      /\ \A v \in Workers \ {w} : worker'[v] = worker[v]
  BY <1>1, WorkerStep
<1>7. /\ jobs' \in [Slices -> Job] /\ jobs'[s] = row
      /\ \A t \in Slices \ {s} : jobs'[t] = jobs[t]
  BY <1>3, <1>5 DEF TypeOK
<1>8. /\ lock' = [owner |-> w, left |-> LockExpires] /\ lock = Free /\ w \in crew
      /\ worker[w].step = "idle" /\ UNCHANGED <<crew, batch, import, read, slow, deaths>>
  BY DEF Begin, LockIsFree, CanTake
<1>9. TypeOK'
  BY <1>6, <1>7, <1>8, Numbers DEF TypeOK
<1>10. FailedAreGone'
  <2>1. Gone' = Gone
    BY <1>4, <1>5, <1>7 DEF Gone
  <2> QED
    BY <1>8, <2>1 DEF FailedAreGone
<1>11. TakersHoldTheLock'
  <2>1. \A v \in Workers : worker[v].step = "reading" => ~(worker[v].time < LockExpires)
    <3>1. \A v \in Workers : v # NoWorker
      BY ImportQueueAssumption
    <3> QED
      BY <1>8, <3>1 DEF TakersHoldTheLock, Free
  <2> QED
    BY <1>2, <1>6, <1>8, <2>1, Numbers DEF TakersHoldTheLock
<1>12. BusyHaveASlice'
  <2> SUFFICES ASSUME NEW v \in Workers, worker'[v].step # "idle"
               PROVE  /\ v \in crew
                      /\ worker'[v].slice \in Slices
                      /\ worker'[v].step # "reading" => read[worker'[v].slice] > 0
    BY <1>8 DEF BusyHaveASlice
  <2>1. CASE v = w
    BY <1>2, <1>6, <1>8, <2>1
  <2>2. CASE v # w
    BY <1>6, <2>2 DEF BusyHaveASlice
  <2> QED
    BY <2>1, <2>2
<1>13. NoSliceIsLost'
  <2> SUFFICES ASSUME NEW t \in Slices, ~jobs'[t].there
               PROVE  read[t] > 0 \/ jobs'[t].attempts = AttemptLimit
    BY <1>8 DEF NoSliceIsLost, Overflowed
  <2>1. t # s /\ jobs'[t] = jobs[t]
    BY <1>4, <1>5, <1>7
  <2> QED
    BY <2>1 DEF NoSliceIsLost, Overflowed
<1>14. OneWorkerPerSlice'
  <2> SUFFICES ASSUME Quiet PROVE OneWorkerPerSlice'
    BY <1>8 DEF OneWorkerPerSlice, Quiet, Alone
  <2>1. read[s] = 0 /\ \A v \in Workers : ~At(v, s)
    BY TakenByOne DEF Begin
  <2>2. \A v \in Workers, t \in Slices :
           At(v, t)' <=> (v = w /\ t = s) \/ (v # w /\ t # s /\ At(v, t))
    BY <1>2, <1>6, <2>1 DEF At
  <2>3. \A v \in Workers \ {w}, t \in Slices \ {s} : At(v, t) =>
            /\ worker'[v].owns
            /\ worker'[v].step = "reading" => read'[t] = 0
            /\ ~slow' => worker'[v].time < RetryAfter /\ jobs'[t].timer = RetryAfter - worker'[v].time
    BY <1>6, <1>7, <1>8 DEF OneWorkerPerSlice
  <2>4. worker'[w].owns /\ read'[s] = 0 /\ worker'[w].time < RetryAfter
        /\ jobs'[s].timer = RetryAfter - worker'[w].time
    BY <1>2, <1>5, <1>6, <1>7, <1>8, <2>1, Numbers
  <2>5. \A u, v \in Workers, t \in Slices : At(u, t)' /\ At(v, t)' => u = v
    BY <2>2 DEF OneWorkerPerSlice
  <2>6. \A t \in Slices : read'[t] > 0 /\ jobs'[t].there => \E v \in Workers : At(v, t)'
    <3> SUFFICES ASSUME NEW t \in Slices, read'[t] > 0, jobs'[t].there
                 PROVE  \E v \in Workers : At(v, t)'
      OBVIOUS
    <3>1. t # s
      BY <1>8, <2>1
    <3>2. PICK v \in Workers : At(v, t)
      BY <1>7, <1>8, <3>1 DEF OneWorkerPerSlice
    <3>3. v # w
      BY <1>8, <3>2 DEF At
    <3> QED
      BY <2>2, <3>1, <3>2, <3>3
  <2>7. \A t \in Slices : read'[t] <= 1
    BY <1>8 DEF OneWorkerPerSlice
  <2> QED
    BY <2>2, <2>3, <2>4, <2>5, <2>6, <2>7 DEF OneWorkerPerSlice
<1> QED
  BY <1>9, <1>10, <1>11, <1>12, <1>13, <1>14

(* The lock is taken: the slice is put back under a new row.               *)
LEMMA PutBackKeepsInv ==
    ASSUME QueueInv, NEW w \in Workers, NEW s \in Slices, PutBack(w, s)
    PROVE  QueueInv'
<1> DEFINE row == Reserved(s, ReleaseAfter)
<1> USE DEF QueueInv
<1>1. jobs[s] \in Job /\ jobs[s].there /\ jobs[s].attempts < AttemptLimit
  BY DEF TypeOK, PutBack, CanTake, Available, Fits
<1>2. row \in Job /\ row.there
  BY <1>1, ReservedType
<1>3. jobs' = [jobs EXCEPT ![s] = row]
  BY DEF PutBack
<1> HIDE DEF row
<1>4. /\ jobs' \in [Slices -> Job] /\ jobs'[s] = row
      /\ \A t \in Slices \ {s} : jobs'[t] = jobs[t]
  BY <1>2, <1>3 DEF TypeOK
<1>5. /\ worker' = [v \in Workers |-> IF worker[v].slice = s
                                      THEN [worker[v] EXCEPT !.owns = FALSE] ELSE worker[v]]
      /\ UNCHANGED <<crew, lock, batch, import, read, slow, deaths>>
  BY DEF PutBack
<1>6. \A v \in Workers : worker[v] \in Worker /\ [worker[v] EXCEPT !.owns = FALSE] \in Worker
  BY DEF TypeOK, Worker
<1>7. worker' \in [Workers -> Worker]
  BY <1>5, <1>6
<1>8. \A v \in Workers :
        /\ worker'[v].step = worker[v].step /\ worker'[v].slice = worker[v].slice
        /\ worker'[v].time = worker[v].time
        /\ worker[v].slice # s => worker'[v].owns = worker[v].owns
  BY <1>5, <1>6 DEF Worker
<1>9. TypeOK'
  BY <1>4, <1>5, <1>7 DEF TypeOK
<1>10. FailedAreGone'
  <2>1. Gone' = Gone
    BY <1>1, <1>2, <1>4 DEF Gone
  <2> QED
    BY <1>5, <2>1 DEF FailedAreGone
<1>11. TakersHoldTheLock' /\ BusyHaveASlice'
  BY <1>5, <1>8 DEF TakersHoldTheLock, BusyHaveASlice
<1>12. NoSliceIsLost'
  BY <1>2, <1>4, <1>5 DEF NoSliceIsLost, Overflowed
<1>13. OneWorkerPerSlice'
  <2> SUFFICES ASSUME Quiet PROVE OneWorkerPerSlice'
    BY <1>5 DEF OneWorkerPerSlice, Quiet, Alone
  <2>1. read[s] = 0 /\ \A v \in Workers : ~At(v, s)
    BY TakenByOne DEF PutBack
  <2>2. \A v \in Workers, t \in Slices : At(v, t)' <=> At(v, t)
    BY <1>8 DEF At
  <2>3. \A v \in Workers, t \in Slices : At(v, t) =>
            /\ worker'[v].owns
            /\ worker'[v].step = "reading" => read'[t] = 0
            /\ ~slow' => worker'[v].time < RetryAfter /\ jobs'[t].timer = RetryAfter - worker'[v].time
    <3> SUFFICES ASSUME NEW v \in Workers, NEW t \in Slices, At(v, t)
                 PROVE  /\ worker'[v].owns
                        /\ worker'[v].step = "reading" => read'[t] = 0
                        /\ ~slow' => /\ worker'[v].time < RetryAfter
                                     /\ jobs'[t].timer = RetryAfter - worker'[v].time
      OBVIOUS
    <3>1. t # s /\ worker[v].slice # s
      BY <2>1 DEF At
    <3> QED
      BY <1>4, <1>5, <1>8, <3>1 DEF OneWorkerPerSlice
  <2>4. \A t \in Slices : read'[t] > 0 /\ jobs'[t].there => \E v \in Workers : At(v, t)
    BY <1>4, <1>5, <2>1 DEF OneWorkerPerSlice
  <2> QED
    BY <1>5, <2>2, <2>3, <2>4 DEF OneWorkerPerSlice
<1> QED
  BY <1>9, <1>10, <1>11, <1>12, <1>13

(* The attempts overflow: one row less, and one failure more.              *)
LEMMA OverflowKeepsInv ==
    ASSUME QueueInv, NEW w \in Workers, NEW s \in Slices, Overflow(w, s)
    PROVE  QueueInv'
<1> DEFINE row == [jobs[s] EXCEPT !.there = FALSE]
<1> USE DEF QueueInv
<1>1. jobs[s] \in Job /\ jobs[s].there /\ jobs[s].attempts = AttemptLimit
  <2>1. jobs[s] \in Job /\ jobs[s].there /\ ~(jobs[s].attempts < AttemptLimit)
    BY DEF TypeOK, Overflow, CanTake, Available, Fits
  <2>2. jobs[s].attempts \in 0..AttemptLimit
    BY <2>1 DEF Job
  <2> QED
    BY <2>1, <2>2, Numbers
<1>2. row \in Job /\ ~row.there /\ row.attempts = AttemptLimit /\ row.timer = jobs[s].timer
  BY <1>1 DEF Job
<1>3. jobs' = [jobs EXCEPT ![s] = row]
  BY DEF Overflow
<1> HIDE DEF row
<1>4. /\ jobs' \in [Slices -> Job] /\ jobs'[s] = row
      /\ \A t \in Slices \ {s} : jobs'[t] = jobs[t]
  BY <1>2, <1>3 DEF TypeOK
<1>5. UNCHANGED <<crew, lock, worker, read, slow, deaths>>
  BY DEF Overflow
<1>6. Gone' = Gone \cup {s} /\ s \notin Gone /\ Gone' \subseteq Slices
  BY <1>1, <1>2, <1>4 DEF Gone
<1>7. Cardinality(Gone') = Cardinality(Gone) + 1 /\ Cardinality(Gone') <= Total
  <2>1. IsFiniteSet(Slices)
    BY ImportQueueAssumption
  <2> QED
    BY <1>6, <2>1, GoneIsFinite, FS_AddElement, FS_Subset DEF Total
<1>8. batch'.failed = batch.failed + 1 /\ batch'.pending = batch.pending
  BY DEF Overflow, TypeOK
<1>9. batch.failed + 1 <= Cardinality(Gone') /\ batch.failed \in Nat
  BY <1>7, GoneIsFinite, Numbers DEF FailedAreGone, TypeOK
<1>10. batch' \in [pending : -1..Total, failed : 0..Total]
  BY <1>7, <1>9, GoneIsFinite, Numbers DEF Overflow, TypeOK
<1>11. import' \in [processed : 0..Total, completed : BOOLEAN]
  BY DEF Overflow, TypeOK
<1>12. TypeOK'
  BY <1>4, <1>5, <1>10, <1>11 DEF TypeOK
<1>13. FailedAreGone'
  BY <1>8, <1>9 DEF FailedAreGone
<1>14. TakersHoldTheLock' /\ BusyHaveASlice'
  BY <1>5 DEF TakersHoldTheLock, BusyHaveASlice
<1>15. NoSliceIsLost'
  BY <1>2, <1>4, <1>5 DEF NoSliceIsLost, Overflowed
<1>16. OneWorkerPerSlice'
  <2> SUFFICES ASSUME Quiet PROVE OneWorkerPerSlice'
    BY <1>5 DEF OneWorkerPerSlice, Quiet, Alone
  <2>1. \A t \in Slices : jobs'[t].timer = jobs[t].timer /\ (jobs'[t].there => jobs[t].there)
    BY <1>1, <1>2, <1>4
  <2>2. \A v \in Workers, t \in Slices : At(v, t)' <=> At(v, t)
    BY <1>5 DEF At
  <2> QED
    BY <1>5, <2>1, <2>2 DEF OneWorkerPerSlice
<1> QED
  BY <1>12, <1>13, <1>14, <1>15, <1>16

-----------------------------------------------------------------------------
(* It reads the slice, and ends it                                         *)

(* The slice is read, for the first time while it is quiet.                *)
LEMMA ReadKeepsInv ==
    ASSUME QueueInv, NEW w \in Workers, Read(w)
    PROVE  QueueInv'
<1> DEFINE s == worker[w].slice
<1> USE DEF QueueInv
<1>1. s \in Slices /\ w \in crew /\ worker[w].step = "reading"
  BY DEF BusyHaveASlice, Read
<1> HIDE DEF s
<1>2. worker[w].slice = s
  BY DEF s
<1>3. /\ worker' \in [Workers -> Worker]
      /\ worker'[w].step = "read" /\ worker'[w].slice = worker[w].slice
      /\ worker'[w].owns = worker[w].owns /\ worker'[w].time = worker[w].time
      /\ \A v \in Workers \ {w} : worker'[v] = worker[v]
  BY GoesOnStep DEF Read, Steps
<1>4. UNCHANGED <<crew, jobs, lock, batch, slow, deaths>>
  BY DEF Read
<1>5. /\ read' \in [Slices -> 0..2] /\ read'[s] > 0 /\ (read[s] = 0 => read'[s] = 1)
      /\ \A t \in Slices \ {s} : read'[t] = read[t]
  BY <1>1, <1>2 DEF Read, TypeOK, AtMost
<1>6. import' \in [processed : 0..Total, completed : BOOLEAN]
  BY Numbers DEF Read, TypeOK, AtMost
<1>7. TypeOK'
  BY <1>3, <1>4, <1>5, <1>6 DEF TypeOK
<1>8. FailedAreGone'
  BY <1>4 DEF FailedAreGone, Gone
<1>9. TakersHoldTheLock'
  BY <1>3, <1>4 DEF TakersHoldTheLock
<1>10. \A t \in Slices : read[t] > 0 => read'[t] > 0
  BY <1>5
<1>11. BusyHaveASlice'
  <2> SUFFICES ASSUME NEW v \in Workers, worker'[v].step # "idle"
               PROVE  /\ v \in crew
                      /\ worker'[v].slice \in Slices
                      /\ worker'[v].step # "reading" => read'[worker'[v].slice] > 0
    BY <1>4 DEF BusyHaveASlice
  <2>1. CASE v = w
    BY <1>1, <1>2, <1>3, <1>5, <2>1
  <2>2. CASE v # w
    BY <1>3, <1>10, <2>2 DEF BusyHaveASlice
  <2> QED
    BY <2>1, <2>2
<1>12. NoSliceIsLost'
  BY <1>4, <1>10 DEF NoSliceIsLost, Overflowed
<1>13. OneWorkerPerSlice'
  <2> SUFFICES ASSUME Quiet PROVE OneWorkerPerSlice'
    BY <1>4 DEF OneWorkerPerSlice, Quiet, Alone
  <2>1. \A v \in Workers, t \in Slices : At(v, t)' <=> At(v, t)
    BY <1>1, <1>3 DEF At
  <2>2. At(w, s) /\ read[s] = 0
    BY <1>1, <1>2 DEF At, OneWorkerPerSlice
  <2>3. \A v \in Workers, t \in Slices : At(v, t) =>
            /\ worker'[v].owns
            /\ worker'[v].step = "reading" => read'[t] = 0
            /\ ~slow' => worker'[v].time < RetryAfter /\ jobs'[t].timer = RetryAfter - worker'[v].time
    <3> SUFFICES ASSUME NEW v \in Workers, NEW t \in Slices, At(v, t)
                 PROVE  /\ worker'[v].owns
                        /\ worker'[v].step = "reading" => read'[t] = 0
                        /\ ~slow' => /\ worker'[v].time < RetryAfter
                                     /\ jobs'[t].timer = RetryAfter - worker'[v].time
      OBVIOUS
    <3>1. CASE v = w
      BY <1>3, <1>4, <3>1 DEF OneWorkerPerSlice
    <3>2. CASE v # w
      <4>1. t # s
        BY <1>1, <2>2, <3>2 DEF OneWorkerPerSlice
      <4> QED
        BY <1>3, <1>4, <1>5, <3>2, <4>1 DEF OneWorkerPerSlice
    <3> QED
      BY <3>1, <3>2
  <2>4. \A t \in Slices : read'[t] <= 1
    BY <1>5, <2>2 DEF OneWorkerPerSlice
  <2>5. \A t \in Slices : read'[t] > 0 /\ jobs'[t].there => \E v \in Workers : At(v, t)
    BY <1>4, <1>5, <2>2 DEF OneWorkerPerSlice
  <2> QED
    BY <2>1, <2>3, <2>4, <2>5 DEF OneWorkerPerSlice
<1> QED
  BY <1>7, <1>8, <1>9, <1>11, <1>12, <1>13

(* Past reading, a step of a worker at its slice disturbs nothing said of  *)
(* slices and rows.                                                        *)
LEMMA GoingOnKeepsTheSlices ==
    ASSUME QueueInv, NEW w \in Workers, NEW step \in Steps \ {"idle", "reading"},
           worker[w].step \notin {"idle", "reading"}, GoesOn(w, step),
           UNCHANGED <<crew, jobs, read, slow, deaths>>
    PROVE  /\ worker' \in [Workers -> Worker]
           /\ worker'[w].step # "reading"
           /\ \A v \in Workers \ {w} : worker'[v] = worker[v]
           /\ BusyHaveASlice' /\ NoSliceIsLost' /\ OneWorkerPerSlice'
<1> USE DEF QueueInv
<1>1. /\ worker' \in [Workers -> Worker]
      /\ worker'[w].step = step /\ worker'[w].slice = worker[w].slice
      /\ worker'[w].owns = worker[w].owns /\ worker'[w].time = worker[w].time
      /\ \A v \in Workers \ {w} : worker'[v] = worker[v]
  BY GoesOnStep
<1>2. \A v \in Workers :
        /\ worker'[v].slice = worker[v].slice /\ worker'[v].owns = worker[v].owns
        /\ worker'[v].time = worker[v].time
        /\ worker'[v].step = "idle" <=> worker[v].step = "idle"
        /\ worker'[v].step = "reading" <=> worker[v].step = "reading"
  BY <1>1
<1>3. BusyHaveASlice'
  BY <1>2 DEF BusyHaveASlice
<1>4. NoSliceIsLost'
  BY DEF NoSliceIsLost, Overflowed
<1>5. \A v \in Workers, t \in Slices : At(v, t)' <=> At(v, t)
  BY <1>2 DEF At
<1>6. OneWorkerPerSlice'
  <2> SUFFICES ASSUME Quiet PROVE OneWorkerPerSlice'
    BY DEF OneWorkerPerSlice, Quiet, Alone
  <2> QED
    BY <1>2, <1>5 DEF OneWorkerPerSlice
<1> QED
  BY <1>1, <1>3, <1>4, <1>6

(* The lock goes back, if it is still the worker's.                        *)
LEMMA UnlockKeepsInv ==
    ASSUME QueueInv, NEW w \in Workers, Unlock(w)
    PROVE  QueueInv'
<1> USE DEF QueueInv
<1>1. /\ worker' \in [Workers -> Worker]
      /\ worker'[w].step # "reading"
      /\ \A v \in Workers \ {w} : worker'[v] = worker[v]
      /\ BusyHaveASlice' /\ NoSliceIsLost' /\ OneWorkerPerSlice'
  BY GoingOnKeepsTheSlices DEF Unlock, Steps
<1>2. UNCHANGED <<crew, jobs, batch, import, read, slow, deaths>>
  BY DEF Unlock
<1>3. Free \in [owner : Workers \cup {NoWorker}, left : 0..LockExpires]
  BY Numbers DEF Free
<1>4. lock' \in {lock, Free} /\ (lock.owner # w => lock' = lock)
  BY DEF Unlock
<1>5. TypeOK'
  BY <1>1, <1>2, <1>3, <1>4 DEF TypeOK
<1>6. TakersHoldTheLock'
  <2> SUFFICES ASSUME NEW v \in Workers, worker'[v].step = "reading", worker'[v].time < LockExpires
               PROVE  lock' = [owner |-> v, left |-> LockExpires - worker'[v].time]
    BY DEF TakersHoldTheLock
  <2>1. v # w /\ worker'[v] = worker[v]
    BY <1>1
  <2>2. lock = [owner |-> v, left |-> LockExpires - worker[v].time]
    BY <2>1 DEF TakersHoldTheLock
  <2> QED
    BY <1>4, <2>1, <2>2
<1>7. FailedAreGone'
  BY <1>2 DEF FailedAreGone, Gone
<1> QED
  BY <1>1, <1>5, <1>6, <1>7

(* The batch is told, or the import marked complete: counters alone.       *)
LEMMA CountingKeepsInv ==
    ASSUME QueueInv, NEW w \in Workers, Record(w) \/ Finally(w)
    PROVE  QueueInv'
<1> USE DEF QueueInv
<1>1. /\ worker' \in [Workers -> Worker]
      /\ worker'[w].step # "reading"
      /\ \A v \in Workers \ {w} : worker'[v] = worker[v]
      /\ BusyHaveASlice' /\ NoSliceIsLost' /\ OneWorkerPerSlice'
  <2>1. worker[w].step \notin {"idle", "reading"} /\ UNCHANGED <<crew, jobs, read, slow, deaths>>
    BY DEF Record, Finally
  <2>2. PICK step \in Steps \ {"idle", "reading"} : GoesOn(w, step)
    BY DEF Record, Finally, Steps
  <2> QED
    BY <2>1, <2>2, GoingOnKeepsTheSlices
<1>2. UNCHANGED <<crew, jobs, lock, read, slow, deaths>>
  BY DEF Record, Finally
<1>3. /\ batch' \in [pending : -1..Total, failed : 0..Total] /\ batch'.failed = batch.failed
      /\ import' \in [processed : 0..Total, completed : BOOLEAN]
  <2>1. CASE Record(w)
    BY <2>1, Numbers DEF Record, TypeOK
  <2>2. CASE Finally(w)
    BY <2>2 DEF Finally, TypeOK
  <2> QED
    BY <2>1, <2>2
<1>4. TypeOK'
  BY <1>1, <1>2, <1>3 DEF TypeOK
<1>5. TakersHoldTheLock'
  BY <1>1, <1>2 DEF TakersHoldTheLock
<1>6. FailedAreGone'
  BY <1>2, <1>3 DEF FailedAreGone, Gone
<1> QED
  BY <1>1, <1>4, <1>5, <1>6

(* The row goes if it is still the worker's. The slice was read.           *)
LEMMA DeleteKeepsInv ==
    ASSUME QueueInv, NEW w \in Workers, Delete(w)
    PROVE  QueueInv'
<1> DEFINE s == worker[w].slice
<1> USE DEF QueueInv
<1>1. s \in Slices /\ read[s] > 0 /\ At(w, s)
  BY DEF BusyHaveASlice, Delete, At
<1> HIDE DEF s
<1>2. worker[w].slice = s
  BY DEF s
<1>3. worker' = [worker EXCEPT ![w] = Idle] /\ UNCHANGED <<crew, lock, batch, import, read, slow, deaths>>
  BY DEF Delete
<1>4. /\ worker' \in [Workers -> Worker] /\ worker'[w].step = "idle"
      /\ \A v \in Workers \ {w} : worker'[v] = worker[v]
  <2>1. worker'[w] = Idle
    BY <1>3, IdleType, WorkerStep
  <2> QED
    BY <1>3, <2>1, IdleType, WorkerStep DEF Idle
<1>5. /\ jobs' \in [Slices -> Job]
      /\ \A t \in Slices \ {s} : jobs'[t] = jobs[t]
      /\ jobs'[s].there => jobs[s].there /\ ~worker[w].owns
      /\ jobs'[s].attempts = jobs[s].attempts
  <2>1. CASE worker[w].owns
    <3> DEFINE row == [jobs[s] EXCEPT !.there = FALSE, !.timer = 0]
    <3>1. row \in Job /\ ~row.there /\ row.attempts = jobs[s].attempts
      BY <1>1, Timers DEF TypeOK, Job
    <3>2. jobs' = [jobs EXCEPT ![s] = row]
      BY <1>2, <2>1 DEF Delete
    <3> HIDE DEF row
    <3> QED
      BY <1>1, <3>1, <3>2 DEF TypeOK
  <2>2. CASE ~worker[w].owns
    BY <2>2 DEF Delete, TypeOK
  <2> QED
    BY <2>1, <2>2
<1>6. TypeOK'
  BY <1>3, <1>4, <1>5 DEF TypeOK
<1>7. FailedAreGone'
  <2>1. Gone \subseteq Gone' /\ Gone' \subseteq Slices
    BY <1>5 DEF Gone
  <2>2. Cardinality(Gone) <= Cardinality(Gone') /\ Cardinality(Gone') \in Nat
    BY <2>1, ImportQueueAssumption, FS_Subset, FS_CardinalityType
  <2> QED
    BY <1>3, <2>2, GoneIsFinite DEF FailedAreGone, TypeOK
<1>8. TakersHoldTheLock'
  BY <1>3, <1>4 DEF TakersHoldTheLock
<1>9. BusyHaveASlice'
  BY <1>3, <1>4 DEF BusyHaveASlice
<1>10. NoSliceIsLost'
  BY <1>1, <1>3, <1>5 DEF NoSliceIsLost, Overflowed
<1>11. OneWorkerPerSlice'
  <2> SUFFICES ASSUME Quiet PROVE OneWorkerPerSlice'
    BY <1>3 DEF OneWorkerPerSlice, Quiet, Alone
  <2>1. \A v \in Workers, t \in Slices : At(v, t)' <=> v # w /\ At(v, t)
    BY <1>4 DEF At
  <2>2. worker[w].owns
    BY <1>1 DEF OneWorkerPerSlice
  <2>3. \A v \in Workers, t \in Slices : At(v, t)' =>
            /\ worker'[v].owns
            /\ worker'[v].step = "reading" => read'[t] = 0
            /\ ~slow' => worker'[v].time < RetryAfter /\ jobs'[t].timer = RetryAfter - worker'[v].time
    <3> SUFFICES ASSUME NEW v \in Workers, NEW t \in Slices, At(v, t), v # w
                 PROVE  /\ worker'[v].owns
                        /\ worker'[v].step = "reading" => read'[t] = 0
                        /\ ~slow' => /\ worker'[v].time < RetryAfter
                                     /\ jobs'[t].timer = RetryAfter - worker'[v].time
      BY <2>1
    <3>1. t # s
      BY <1>1 DEF OneWorkerPerSlice
    <3> QED
      BY <1>3, <1>4, <1>5, <3>1 DEF OneWorkerPerSlice
  <2>4. \A t \in Slices : read'[t] > 0 /\ jobs'[t].there => \E v \in Workers : At(v, t)'
    <3> SUFFICES ASSUME NEW t \in Slices, read'[t] > 0, jobs'[t].there
                 PROVE  \E v \in Workers : At(v, t)'
      OBVIOUS
    <3>1. t # s
      BY <1>5, <2>2
    <3>2. PICK v \in Workers : At(v, t)
      BY <1>3, <1>5, <3>1 DEF OneWorkerPerSlice
    <3>3. v # w
      BY <1>2, <3>1, <3>2 DEF At
    <3> QED
      BY <2>1, <3>2, <3>3
  <2> QED
    BY <1>3, <2>1, <2>3, <2>4 DEF OneWorkerPerSlice
<1> QED
  BY <1>6, <1>7, <1>8, <1>9, <1>10, <1>11

-----------------------------------------------------------------------------
(* A worker dies, and time passes                                          *)

(* After a death it is quiet no more.                                      *)
LEMMA DieKeepsInv ==
    ASSUME QueueInv, NEW w \in Workers, Die(w)
    PROVE  QueueInv'
<1> USE DEF QueueInv
<1>1. worker' = [worker EXCEPT ![w] = Idle] /\ UNCHANGED <<crew, jobs, lock, batch, import, read, slow>>
  BY DEF Die
<1>2. /\ worker' \in [Workers -> Worker] /\ worker'[w].step = "idle"
      /\ \A v \in Workers \ {w} : worker'[v] = worker[v]
  <2>1. worker'[w] = Idle
    BY <1>1, IdleType, WorkerStep
  <2> QED
    BY <1>1, <2>1, IdleType, WorkerStep DEF Idle
<1>3. deaths' \in 1..MaxDeaths
  BY Numbers DEF Die, TypeOK
<1>4. TypeOK'
  BY <1>1, <1>2, <1>3 DEF TypeOK
<1>5. FailedAreGone' /\ NoSliceIsLost'
  BY <1>1 DEF FailedAreGone, Gone, NoSliceIsLost, Overflowed
<1>6. TakersHoldTheLock' /\ BusyHaveASlice'
  BY <1>1, <1>2 DEF TakersHoldTheLock, BusyHaveASlice
<1>7. OneWorkerPerSlice'
  BY <1>3 DEF OneWorkerPerSlice, Quiet
<1> QED
  BY <1>4, <1>5, <1>6, <1>7

(* The lock, the reservation and the clock of its worker go down together. *)
LEMMA TickKeepsInv ==
    ASSUME QueueInv, Tick
    PROVE  QueueInv'
<1> USE DEF QueueInv
<1>1. /\ jobs' = [s \in Slices |-> [jobs[s] EXCEPT !.timer = Less(@)]]
      /\ UNCHANGED <<crew, batch, import, read, deaths>>
      /\ \A w \in Workers : worker[w].step \in {"idle", "reading"}
  BY DEF Tick
<1>2. \A s \in Slices : [jobs[s] EXCEPT !.timer = Less(@)] \in Job
  BY Numbers DEF TypeOK, Job, Less
<1>3. \A s \in Slices : /\ jobs'[s].there = jobs[s].there
                        /\ jobs'[s].attempts = jobs[s].attempts
                        /\ jobs'[s].timer = Less(jobs[s].timer)
  BY <1>1 DEF TypeOK, Job
<1>4. lock' = IF lock.left <= 1 THEN Free ELSE [lock EXCEPT !.left = lock.left - 1]
  BY DEF Tick
<1>5. lock' \in [owner : Workers \cup {NoWorker}, left : 0..LockExpires]
  BY <1>4, Numbers DEF TypeOK, Free
<1>6. \A w \in Workers : /\ [worker[w] EXCEPT !.time = AtMost(@ + 1, LockExpires)] \in Worker
                         /\ worker[w] \in Worker
  BY Numbers DEF TypeOK, Worker, AtMost
<1>7. worker' = [w \in Workers |-> IF worker[w].step = "idle" THEN Idle
                     ELSE [worker[w] EXCEPT !.time = AtMost(@ + 1, LockExpires)]]
  BY DEF Tick
<1>8. worker' \in [Workers -> Worker]
  BY <1>6, <1>7, IdleType
<1>9. \A w \in Workers :
        /\ worker'[w].step = worker[w].step
        /\ worker[w].step # "idle" =>
             /\ worker'[w].slice = worker[w].slice /\ worker'[w].owns = worker[w].owns
             /\ worker'[w].time = AtMost(worker[w].time + 1, LockExpires)
             /\ worker[w].time \in 0..LockExpires
  BY <1>6, <1>7 DEF Worker, Idle
<1>10. slow' \in BOOLEAN /\ (slow => slow')
       /\ (~slow' => \A w \in Workers : ~(worker'[w].time >= RetryAfter))
  BY DEF Tick, TypeOK
<1>11. TypeOK'
  <2>1. jobs' \in [Slices -> Job]
    BY <1>1, <1>2
  <2> QED
    BY <1>1, <1>5, <1>8, <1>10, <2>1 DEF TypeOK
<1>12. FailedAreGone' /\ NoSliceIsLost'
  <2>1. Gone' = Gone
    BY <1>3 DEF Gone
  <2> QED
    BY <1>1, <1>3, <2>1 DEF FailedAreGone, NoSliceIsLost, Overflowed
<1>13. TakersHoldTheLock'
  <2> SUFFICES ASSUME NEW w \in Workers, worker'[w].step = "reading", worker'[w].time < LockExpires
               PROVE  lock' = [owner |-> w, left |-> LockExpires - worker'[w].time]
    BY DEF TakersHoldTheLock
  <2>1. worker'[w].time = worker[w].time + 1 /\ worker[w].time \in Nat /\ worker[w].time + 1 < LockExpires
    BY <1>9, Numbers DEF AtMost
  <2>2. lock = [owner |-> w, left |-> LockExpires - worker[w].time]
    BY <1>9, <2>1, Numbers DEF TakersHoldTheLock
  <2>3. ~(lock.left <= 1) /\ lock.left - 1 = LockExpires - worker'[w].time
    BY <2>1, <2>2, Numbers
  <2> QED
    BY <1>4, <2>2, <2>3
<1>14. BusyHaveASlice'
  BY <1>1, <1>9 DEF BusyHaveASlice
<1>15. OneWorkerPerSlice'
  <2> SUFFICES ASSUME Quiet, Quiet' PROVE OneWorkerPerSlice'
    BY <1>1, <1>10 DEF OneWorkerPerSlice, Quiet, Alone
  <2>1. \A w \in Workers, s \in Slices : At(w, s)' <=> At(w, s)
    BY <1>9 DEF At
  <2>2. \A w \in Workers, s \in Slices : At(w, s) =>
            /\ worker'[w].owns
            /\ worker'[w].step = "reading" => read'[s] = 0
    BY <1>1, <1>9 DEF OneWorkerPerSlice, At
  <2>3. ASSUME NEW w \in Workers, NEW s \in Slices, At(w, s), ~slow'
        PROVE  worker'[w].time < RetryAfter /\ jobs'[s].timer = RetryAfter - worker'[w].time
    <3>1. worker[w].time < RetryAfter /\ jobs[s].timer = RetryAfter - worker[w].time
      BY <1>10, <2>3 DEF OneWorkerPerSlice
    <3>2. worker'[w].time = AtMost(worker[w].time + 1, LockExpires) /\ worker[w].time \in Nat
      BY <1>9, <2>3, Numbers DEF At
    <3>3. RetryAfter <= LockExpires
      BY ImportQueueAssumption
    <3>4. worker'[w].time = worker[w].time + 1
      BY <3>1, <3>2, <3>3, Numbers DEF AtMost
    <3>5. worker'[w].time < RetryAfter
      BY <1>10, <2>3, <3>2, <3>4, Numbers
    <3> QED
      BY <1>3, <3>1, <3>2, <3>4, <3>5, Numbers DEF Less
  <2> QED
    BY <1>1, <1>3, <2>1, <2>2, <2>3 DEF OneWorkerPerSlice
<1> QED
  BY <1>11, <1>12, <1>13, <1>14, <1>15

-----------------------------------------------------------------------------
(* The invariant                                                           *)

(* Every slice is queued, nobody is at any.                                *)
LEMMA InitHasInv == Init => QueueInv
<1> SUFFICES ASSUME Init PROVE QueueInv
  OBVIOUS
<1>1. \A w \in Workers : worker[w] = Idle /\ worker[w].step = "idle"
  BY DEF Init, Idle
<1>2. TypeOK
  <2>1. [there |-> TRUE, timer |-> 0, attempts |-> 0] \in Job
    BY Timers DEF Job
  <2>2. lock \in [owner : Workers \cup {NoWorker}, left : 0..LockExpires]
    BY Numbers DEF Init, Free
  <2>3. jobs \in [Slices -> Job] /\ worker \in [Workers -> Worker]
    BY <2>1, IdleType DEF Init
  <2>4. batch \in [pending : -1..Total, failed : 0..Total]
    BY Numbers DEF Init
  <2>5. import \in [processed : 0..Total, completed : BOOLEAN] /\ deaths \in 0..MaxDeaths
    BY Numbers DEF Init
  <2>6. crew \subseteq Workers /\ slow \in BOOLEAN /\ read \in [Slices -> 0..2]
    <3>1. 0 \in 0..2
      OBVIOUS
    <3> QED
      BY <3>1, Zenon DEF Init
  <2> QED
    BY <2>2, <2>3, <2>4, <2>5, <2>6, Zenon DEF TypeOK
<1>3. FailedAreGone
  BY GoneIsFinite DEF FailedAreGone, Init
<1>4. TakersHoldTheLock /\ BusyHaveASlice
  BY <1>1 DEF TakersHoldTheLock, BusyHaveASlice
<1>5. NoSliceIsLost
  BY DEF Init, NoSliceIsLost
<1>6. OneWorkerPerSlice
  BY <1>1 DEF Init, OneWorkerPerSlice, At
<1> QED
  BY <1>2, <1>3, <1>4, <1>5, <1>6 DEF QueueInv

(* Every step keeps the invariant.                                         *)
LEMMA NextKeepsInv == QueueInv /\ [Next]_vars => QueueInv'
<1> SUFFICES ASSUME QueueInv, [Next]_vars PROVE QueueInv'
  OBVIOUS
<1>1. ASSUME NEW w \in Workers, NEW s \in Slices, Begin(w, s) \/ PutBack(w, s) \/ Overflow(w, s)
      PROVE  QueueInv'
  BY <1>1, BeginKeepsInv, PutBackKeepsInv, OverflowKeepsInv
<1>2. ASSUME NEW w \in Workers, Read(w) \/ Unlock(w) \/ Record(w) \/ Finally(w) \/ Delete(w)
      PROVE  QueueInv'
  BY <1>2, ReadKeepsInv, UnlockKeepsInv, CountingKeepsInv, DeleteKeepsInv
<1>3. ASSUME NEW w \in Workers, Die(w) PROVE QueueInv'
  BY <1>3, DieKeepsInv
<1>4. CASE Tick
  BY <1>4, TickKeepsInv
<1>5. CASE UNCHANGED vars
  BY <1>5 DEF vars, QueueInv, TypeOK, FailedAreGone, Gone, TakersHoldTheLock, BusyHaveASlice,
              NoSliceIsLost, Overflowed, OneWorkerPerSlice, Quiet, Alone, At
<1> QED
  BY <1>1, <1>2, <1>3, <1>4, <1>5 DEF Next, Work

(* The invariant holds of every import, however many workers it has.       *)
THEOREM QueueInvariant == Spec => []QueueInv
<1>1. Init => QueueInv
  BY InitHasInv
<1>2. QueueInv /\ [Next]_vars => QueueInv'
  BY NextKeepsInv
<1> QED
  BY <1>1, <1>2, PTL DEF Spec

(* Every row, lock and worker keeps its type.                              *)
THEOREM QueueTypes == Spec => []TypeOK
<1>1. QueueInv => TypeOK
  BY DEF QueueInv
<1> QED
  BY <1>1, QueueInvariant, PTL

(* Two workers are in the slices of an import at once only after the lock  *)
(* of one of them has expired under it.                                    *)
THEOREM QueueLock == Spec => []OneSliceAtATime
<1>1. QueueInv => OneSliceAtATime
  <2> SUFFICES ASSUME QueueInv, NEW v \in Workers, NEW w \in Workers, v # w,
                      worker[v].step = "reading", worker[w].step = "reading"
               PROVE  worker[v].time = LockExpires \/ worker[w].time = LockExpires
    BY DEF OneSliceAtATime
  <2>1. worker[v].time \in 0..LockExpires /\ worker[w].time \in 0..LockExpires
    BY DEF QueueInv, TypeOK, Worker
  <2>2. CASE worker[v].time < LockExpires /\ worker[w].time < LockExpires
    <3>1. lock.owner = v /\ lock.owner = w
      BY <2>2 DEF QueueInv, TakersHoldTheLock
    <3> QED
      BY <3>1
  <2> QED
    BY <2>1, <2>2, Numbers
<1> QED
  BY <1>1, QueueInvariant, PTL

(* Whoever dies and whenever, a slice leaves the queue read or with its    *)
(* attempts overflown.                                                     *)
THEOREM QueueLosesNothing == Spec => []NoSliceIsLost
<1>1. QueueInv => NoSliceIsLost
  BY DEF QueueInv
<1> QED
  BY <1>1, QueueInvariant, PTL

(* While it is quiet nothing is read again.                                *)
LEMMA InvReadsAgain == QueueInv => ReadAgainOnlyAfterATimeout
<1> SUFFICES ASSUME QueueInv, NEW s \in Slices, read[s] > 1
             PROVE  deaths > 0 \/ (slow /\ ~Alone)
  BY DEF ReadAgainOnlyAfterATimeout
<1>1. read[s] \in 0..2 /\ deaths \in Nat
  BY Numbers DEF QueueInv, TypeOK
<1>2. ~Quiet
  BY <1>1 DEF QueueInv, OneWorkerPerSlice
<1> QED
  BY <1>1, <1>2 DEF Quiet

(* A slice is read again only after a death, or after a reservation ran    *)
(* out under a second worker.                                              *)
THEOREM QueueReadAgain == Spec => []ReadAgainOnlyAfterATimeout
BY InvReadsAgain, QueueInvariant, PTL

-----------------------------------------------------------------------------
(* The counters                                                            *)

(* Until one of them has, no slice has ended twice.                        *)
Once == \A s \in Slices : ~EndedTwice(s)

Past(w) == worker[w].step \notin {"idle", "reading"}

(* Read, and by no worker that has yet to tell the batch: if it did not,   *)
(* it died.                                                                *)
Told ==
    {s \in Slices : read[s] = 1 /\ \A w \in Workers : At(w, s) => worker[w].step \notin {"read", "unlocked"}}
ReadOnce == {s \in Slices : read[s] = 1}
Failures == {s \in Slices : ~jobs[s].there /\ Overflowed(s)}
AllEnded == \A s \in Slices : read[s] = 1 \/ Overflowed(s)

(* Each failure is that of one slice.                                      *)
FailuresAreCounted == batch.failed <= Cardinality(Failures)

(* The worker that has read a slice is alone in having read it.            *)
OneReader ==
    \A v, w \in Workers, s \in Slices :
        At(v, s) /\ At(w, s) /\ Past(v) /\ Past(w) => v = w

(* The batch has counted no slice that was not read, nor the import.       *)
ToldAreCounted == batch.pending >= Total - Cardinality(Told)
ReadAreCounted == import.processed = Cardinality(ReadOnce)

(* Whoever found the counts equal found every slice ended.                 *)
LastFindsAllEnded ==
    import.completed \/ (\E w \in Workers : worker[w].step = "last") => AllEnded

CountInv ==
    /\ FailuresAreCounted
    /\ Once => OneReader /\ ToldAreCounted /\ ReadAreCounted /\ LastFindsAllEnded

(* Sets of slices are counted in order.                                    *)
LEMMA Counts ==
    ASSUME NEW B \in SUBSET Slices, NEW A \in SUBSET B
    PROVE  /\ IsFiniteSet(A) /\ IsFiniteSet(B)
           /\ Cardinality(A) \in Nat /\ Cardinality(B) \in Nat
           /\ Cardinality(A) <= Cardinality(B) /\ Cardinality(B) <= Total
           /\ Cardinality(A) = Cardinality(B) => A = B
<1>1. IsFiniteSet(Slices)
  BY ImportQueueAssumption
<1>2. IsFiniteSet(B) /\ Cardinality(B) <= Total
  BY <1>1, FS_Subset DEF Total
<1>3. IsFiniteSet(A) /\ Cardinality(A) <= Cardinality(B) /\ (Cardinality(A) = Cardinality(B) => A = B)
  BY <1>2, FS_Subset
<1> QED
  BY <1>2, <1>3, FS_CardinalityType

(* Nothing that ended is undone.                                           *)
LEMMA EndsStay ==
    ASSUME TypeOK, TypeOK', [Next]_vars, NEW s \in Slices
    PROVE  /\ read[s] <= read'[s]
           /\ Overflowed(s) => Overflowed(s)'
           /\ ~jobs[s].there => ~jobs'[s].there
           /\ EndedTwice(s) => EndedTwice(s)'
<1>1. read[s] \in 0..2 /\ read'[s] \in 0..2 /\ jobs[s] \in Job /\ jobs'[s] \in Job
  BY DEF TypeOK
<1>2. read[s] <= read'[s]
  <2>1. CASE UNCHANGED read
    BY <1>1, <2>1
  <2>2. ASSUME NEW w \in Workers, Read(w) PROVE read[s] <= read'[s]
    BY <1>1, <2>2 DEF Read, TypeOK, AtMost
  <2> QED
    BY <2>1, <2>2 DEF Next, Work, vars, Begin, PutBack, Overflow, Unlock, Record, Finally, Delete, Die, Tick
<1>3. (Overflowed(s) => Overflowed(s)') /\ (~jobs[s].there => ~jobs'[s].there)
  <2>1. CASE UNCHANGED jobs
    BY <2>1 DEF Overflowed
  <2>2. ASSUME NEW w \in Workers, NEW t \in Slices, Begin(w, t) \/ PutBack(w, t)
        PROVE  (Overflowed(s) => Overflowed(s)') /\ (~jobs[s].there => ~jobs'[s].there)
    <3>1. jobs[t].there /\ jobs[t].attempts # AttemptLimit
      BY <2>2, Numbers DEF Begin, PutBack, CanTake, Available, Fits
    <3>2. t # s => jobs'[s] = jobs[s]
      BY <2>2 DEF Begin, PutBack, TypeOK
    <3> QED
      BY <3>1, <3>2 DEF Overflowed
  <2>3. ASSUME NEW w \in Workers, NEW t \in Slices, Overflow(w, t)
        PROVE  (Overflowed(s) => Overflowed(s)') /\ (~jobs[s].there => ~jobs'[s].there)
    BY <2>3 DEF Overflow, Overflowed, TypeOK, Job
  <2>4. ASSUME NEW w \in Workers, Delete(w)
        PROVE  (Overflowed(s) => Overflowed(s)') /\ (~jobs[s].there => ~jobs'[s].there)
    <3>1. CASE jobs' = jobs
      BY <3>1 DEF Overflowed
    <3>2. CASE jobs' = [jobs EXCEPT ![worker[w].slice] = [@ EXCEPT !.there = FALSE, !.timer = 0]]
      BY <3>2 DEF Overflowed, TypeOK, Job
    <3> QED
      BY <2>4, <3>1, <3>2 DEF Delete
  <2>5. ASSUME Tick
        PROVE  (Overflowed(s) => Overflowed(s)') /\ (~jobs[s].there => ~jobs'[s].there)
    BY <2>5 DEF Tick, Overflowed, TypeOK, Job
  <2> QED
    BY <2>1, <2>2, <2>3, <2>4, <2>5 DEF Next, Work, vars, Read, Unlock, Record, Finally, Die
<1> QED
  BY <1>1, <1>2, <1>3 DEF EndedTwice

(* So it is when nothing is read and nothing told, and no worker comes     *)
(* nearer to telling.                                                      *)
LEMMA NotCountingKeepsCount ==
    ASSUME QueueInv, QueueInv', CountInv, [Next]_vars, UNCHANGED <<read, batch, import>>,
           \A w \in Workers : /\ worker'[w].step = "last" => worker[w].step = "last"
                              /\ Past(w)' => Past(w) /\ worker'[w].slice = worker[w].slice
                              /\ worker'[w].step \in {"read", "unlocked"}
                                     => worker[w].step \in {"read", "unlocked"}
    PROVE  CountInv'
<1> USE DEF QueueInv
<1>1. FailuresAreCounted'
  <2>1. Failures \subseteq Failures' /\ Failures' \subseteq Slices
    BY EndsStay DEF Failures
  <2>2. Cardinality(Failures) <= Cardinality(Failures') /\ Cardinality(Failures) \in Nat
        /\ Cardinality(Failures') \in Nat
    BY <2>1, Counts
  <2> QED
    BY <2>2 DEF CountInv, FailuresAreCounted, TypeOK
<1>2. ASSUME Once'
      PROVE  OneReader' /\ ToldAreCounted' /\ ReadAreCounted' /\ LastFindsAllEnded'
  <2>1. Once /\ OneReader /\ ToldAreCounted /\ ReadAreCounted /\ LastFindsAllEnded
    BY <1>2, EndsStay DEF Once, CountInv
  <2>2. OneReader'
    BY <2>1 DEF OneReader, At, Past
  <2>3. ToldAreCounted'
    <3>1. Told \subseteq Told' /\ Told' \subseteq Slices
      BY DEF Told, At, Past
    <3>2. Cardinality(Told) <= Cardinality(Told') /\ Cardinality(Told) \in Nat
          /\ Cardinality(Told') \in Nat
      BY <3>1, Counts
    <3> QED
      BY <2>1, <3>2, Numbers DEF ToldAreCounted, TypeOK
  <2>4. ReadAreCounted'
    BY <2>1 DEF ReadAreCounted, ReadOnce
  <2>5. LastFindsAllEnded'
    BY <2>1, EndsStay DEF LastFindsAllEnded, AllEnded
  <2> QED
    BY <2>2, <2>3, <2>4, <2>5
<1> QED
  BY <1>1, <1>2 DEF CountInv

(* When the counts meet, every slice is among the told or the failed.      *)
LEMMA CountsMeet ==
    ASSUME NEW T \in SUBSET Slices, NEW F \in SUBSET Slices, T \cap F = {}, NEW n \in Int,
           n >= Total - Cardinality(T), n <= Cardinality(F)
    PROVE  T \cup F = Slices
<1>1. IsFiniteSet(T) /\ IsFiniteSet(F) /\ Cardinality(T) \in Nat /\ Cardinality(F) \in Nat
  BY Counts
<1>2. Cardinality(T \cup F) = Cardinality(T) + Cardinality(F)
  <2>1. Cardinality(T \cup F) = Cardinality(T) + Cardinality(F) - Cardinality(T \cap F)
    BY <1>1, FS_Union
  <2>2. Cardinality(T \cap F) = 0
    BY FS_EmptySet
  <2> QED
    BY <1>1, <2>1, <2>2
<1>3. Cardinality(T \cup F) <= Cardinality(Slices)
      /\ (Cardinality(T \cup F) = Cardinality(Slices) => T \cup F = Slices)
  BY Counts
<1>4. Cardinality(T \cup F) >= Cardinality(Slices)
  BY <1>1, <1>2, Numbers DEF Total
<1> QED
  BY <1>1, <1>2, <1>3, <1>4, Numbers DEF Total

(* A slice read for the first time is counted by the import, and not yet   *)
(* by the batch.                                                           *)
LEMMA ReadKeepsCount ==
    ASSUME QueueInv, QueueInv', CountInv, NEW w \in Workers, Read(w)
    PROVE  CountInv'
<1> DEFINE s == worker[w].slice
<1> USE DEF QueueInv
<1>1. [Next]_vars
  BY DEF Next, Work
<1>2. s \in Slices /\ worker[w].step = "reading"
  BY DEF Read, BusyHaveASlice
<1>3. /\ worker'[w].step = "read" /\ worker'[w].slice = s
      /\ \A v \in Workers \ {w} : worker'[v] = worker[v]
  BY GoesOnStep DEF Read, Steps
<1>4. /\ read' = [read EXCEPT ![s] = AtMost(@ + 1, 2)]
      /\ import'.processed = AtMost(import.processed + 1, Total)
      /\ import'.completed = import.completed
      /\ UNCHANGED <<jobs, batch>>
  BY DEF Read, TypeOK
<1> HIDE DEF s
<1>5. FailuresAreCounted'
  BY <1>4 DEF CountInv, FailuresAreCounted, Failures, Overflowed
<1>6. ASSUME Once'
      PROVE  OneReader' /\ ToldAreCounted' /\ ReadAreCounted' /\ LastFindsAllEnded'
  <2>1. Once /\ OneReader /\ ToldAreCounted /\ ReadAreCounted /\ LastFindsAllEnded
    BY <1>1, <1>6, EndsStay DEF Once, CountInv
  <2>2. read[s] = 0 /\ read'[s] = 1 /\ \A t \in Slices \ {s} : read'[t] = read[t]
    <3>1. read[s] \in 0..2 /\ read'[s] = AtMost(read[s] + 1, 2) /\ ~(read'[s] > 1)
      BY <1>2, <1>4, <1>6 DEF TypeOK, Once, EndedTwice
    <3> QED
      BY <1>4, <3>1 DEF AtMost, TypeOK
  <2>3. \A v \in Workers : ~(At(v, s) /\ Past(v))
    BY <2>2 DEF BusyHaveASlice, At, Past
  <2>4. \A v \in Workers, t \in Slices :
           /\ At(v, t)' <=> At(v, t)
           /\ Past(v)' <=> v = w \/ Past(v)
    BY <1>2, <1>3 DEF At, Past, s
  <2>5. At(w, s) /\ \A t \in Slices : At(w, t) => t = s
    BY <1>2 DEF At, s
  <2>6. OneReader'
    BY <2>1, <2>3, <2>4, <2>5 DEF OneReader
  <2>7. Told' = Told
    <3>1. s \notin Told' /\ s \notin Told
      BY <1>3, <2>2, <2>4, <2>5 DEF Told
    <3>2. ASSUME NEW t \in Slices, t # s PROVE t \in Told' <=> t \in Told
      <4>1. \A v \in Workers : At(v, t)' => worker'[v] = worker[v]
        BY <1>3, <2>4, <2>5, <3>2
      <4> QED
        BY <2>2, <2>4, <3>2, <4>1 DEF Told
    <3>3. Told \subseteq Slices /\ Told' \subseteq Slices
      BY DEF Told
    <3> QED
      BY <3>1, <3>2, <3>3
  <2>8. ToldAreCounted'
    BY <1>4, <2>1, <2>7 DEF ToldAreCounted
  <2>9. ReadAreCounted'
    <3>1. ReadOnce' = ReadOnce \cup {s} /\ s \notin ReadOnce /\ ReadOnce' \subseteq Slices
      BY <1>2, <2>2 DEF ReadOnce
    <3>2. Cardinality(ReadOnce') = Cardinality(ReadOnce) + 1 /\ Cardinality(ReadOnce') <= Total
      BY <3>1, Counts, FS_AddElement
    <3> QED
      BY <1>4, <2>1, <3>2, Numbers DEF ReadAreCounted, TypeOK, AtMost
  <2>10. LastFindsAllEnded'
    <3>1. AllEnded => AllEnded'
      BY <1>4, <2>2 DEF AllEnded, Overflowed
    <3> QED
      BY <1>3, <1>4, <2>1, <3>1 DEF LastFindsAllEnded
  <2> QED
    BY <2>6, <2>8, <2>9, <2>10
<1> QED
  BY <1>5, <1>6 DEF CountInv

(* A worker tells the batch of the slice it has read, which nobody else    *)
(* will: if the count meets that of the failures, every slice has ended.   *)
LEMMA RecordKeepsCount ==
    ASSUME QueueInv, QueueInv', CountInv, NEW w \in Workers, Record(w)
    PROVE  CountInv'
<1> DEFINE s == worker[w].slice
<1> USE DEF QueueInv
<1>1. [Next]_vars
  BY DEF Next, Work
<1>2. s \in Slices /\ worker[w].step = "unlocked" /\ read[s] > 0 /\ At(w, s)
  BY DEF Record, BusyHaveASlice, At
<1>3. /\ UNCHANGED <<jobs, read, import>> /\ batch'.failed = batch.failed
      /\ batch'.pending = IF batch.pending < 0 THEN batch.pending ELSE batch.pending - 1
  BY DEF Record, TypeOK
<1>4. /\ worker'[w].step = IF batch'.pending = batch.failed THEN "last" ELSE "recorded"
      /\ worker'[w].slice = s
      /\ \A v \in Workers \ {w} : worker'[v] = worker[v]
  BY GoesOnStep DEF Record, Steps
<1> HIDE DEF s
<1>5. FailuresAreCounted'
  BY <1>3 DEF CountInv, FailuresAreCounted, Failures, Overflowed
<1>6. ASSUME Once'
      PROVE  OneReader' /\ ToldAreCounted' /\ ReadAreCounted' /\ LastFindsAllEnded'
  <2>1. Once /\ OneReader /\ ToldAreCounted /\ ReadAreCounted /\ LastFindsAllEnded
    BY <1>1, <1>6, EndsStay DEF Once, CountInv
  <2>2. \A v \in Workers, t \in Slices : /\ At(v, t)' <=> At(v, t)
                                         /\ Past(v)' <=> Past(v)
    BY <1>2, <1>4 DEF At, Past, s
  <2>3. \A t \in Slices : At(w, t) => t = s
    BY <1>2 DEF At, s
  <2>4. \A v \in Workers \ {w} : At(v, s) => ~Past(v)
    BY <1>2, <2>1 DEF OneReader, Past
  <2>5. read[s] = 1
    BY <1>2, <2>1 DEF TypeOK, Once, EndedTwice
  <2>6. OneReader'
    BY <2>1, <2>2 DEF OneReader
  <2>7. Told' = Told \cup {s} /\ s \notin Told /\ Told' \subseteq Slices
    <3>1. s \notin Told
      BY <1>2 DEF Told
    <3>2. s \in Told'
      <4>1. ASSUME NEW v \in Workers, NEW t \in Slices, t = s, At(v, t)'
            PROVE  worker'[v].step \notin {"read", "unlocked"}
        <5>1. CASE v = w
          BY <1>4, <5>1
        <5>2. CASE v # w
          <6>1. worker'[v] = worker[v] /\ ~Past(v)
            BY <1>4, <2>2, <2>4, <4>1, <5>2
          <6> QED
            BY <6>1 DEF Past
        <5> QED
          BY <5>1, <5>2
      <4>2. s \in Slices /\ read'[s] = 1
        BY <1>2, <1>3, <2>5
      <4> QED
        BY <4>1, <4>2 DEF Told
    <3>3. ASSUME NEW t \in Slices, t # s PROVE t \in Told' <=> t \in Told
      <4>1. \A v \in Workers : At(v, t) => worker'[v] = worker[v]
        BY <1>4, <2>3, <3>3
      <4> QED
        BY <1>3, <2>2, <4>1 DEF Told
    <3>4. Told \subseteq Slices /\ Told' \subseteq Slices
      BY DEF Told
    <3> QED
      BY <1>2, <3>1, <3>2, <3>3, <3>4
  <2>8. Cardinality(Told') = Cardinality(Told) + 1 /\ Cardinality(Told) \in Nat
        /\ Cardinality(Told') <= Total
    BY <2>7, Counts, FS_AddElement
  <2>9. ToldAreCounted'
    BY <1>3, <2>1, <2>8, Numbers DEF ToldAreCounted, TypeOK
  <2>10. ReadAreCounted'
    BY <1>3, <2>1 DEF ReadAreCounted, ReadOnce
  <2>11. LastFindsAllEnded'
    <3>1. AllEnded' <=> AllEnded
      BY <1>3 DEF AllEnded, Overflowed
    <3>2. CASE batch'.pending = batch.failed
      <4>1. batch'.failed \in Nat /\ batch'.pending = batch'.failed
        BY <1>3, <3>2 DEF TypeOK
      <4>2. batch'.failed >= Total - Cardinality(Told')
        BY <2>9, <4>1 DEF ToldAreCounted
      <4>3. batch'.failed <= Cardinality(Failures')
        BY <1>5 DEF FailuresAreCounted
      <4>4. Cardinality(Failures') \in Nat
        BY Counts DEF Failures
      <4>5. Told' \cup Failures' = Slices
        <5>1. Told' \cap Failures' = {} /\ Told' \subseteq Slices /\ Failures' \subseteq Slices
          BY <1>6 DEF Told, Failures, Once, EndedTwice
        <5> QED
          BY <4>1, <4>2, <4>3, <5>1, CountsMeet
      <4>6. AllEnded'
        BY <4>5 DEF AllEnded, Told, Failures
      <4> QED
        BY <4>6 DEF LastFindsAllEnded
    <3>3. CASE batch'.pending # batch.failed
      BY <1>3, <1>4, <2>1, <3>1, <3>3 DEF LastFindsAllEnded
    <3> QED
      BY <3>2, <3>3
  <2> QED
    BY <2>6, <2>9, <2>10, <2>11
<1> QED
  BY <1>5, <1>6 DEF CountInv

(* The import is complete when every slice has ended.                      *)
LEMMA FinallyKeepsCount ==
    ASSUME QueueInv, QueueInv', CountInv, NEW w \in Workers, Finally(w)
    PROVE  CountInv'
<1> USE DEF QueueInv
<1>1. [Next]_vars /\ worker[w].step = "last"
  BY DEF Next, Work, Finally
<1>2. UNCHANGED <<jobs, batch, read>> /\ import'.processed = import.processed
  BY DEF Finally, TypeOK
<1>3. /\ worker'[w].step = "recorded" /\ worker'[w].slice = worker[w].slice
      /\ \A v \in Workers \ {w} : worker'[v] = worker[v]
  BY GoesOnStep DEF Finally, Steps
<1>4. FailuresAreCounted'
  BY <1>2 DEF CountInv, FailuresAreCounted, Failures, Overflowed
<1>5. ASSUME Once'
      PROVE  OneReader' /\ ToldAreCounted' /\ ReadAreCounted' /\ LastFindsAllEnded'
  <2>1. Once /\ OneReader /\ ToldAreCounted /\ ReadAreCounted /\ LastFindsAllEnded
    BY <1>1, <1>5, EndsStay DEF Once, CountInv
  <2>2. \A v \in Workers, t \in Slices :
           /\ At(v, t)' <=> At(v, t)
           /\ Past(v)' <=> Past(v)
           /\ worker'[v].step \in {"read", "unlocked"} <=> worker[v].step \in {"read", "unlocked"}
    BY <1>1, <1>3 DEF At, Past
  <2>3. OneReader'
    BY <2>1, <2>2 DEF OneReader
  <2>4. Told' = Told
    BY <1>2, <2>2 DEF Told
  <2>5. ToldAreCounted' /\ ReadAreCounted'
    BY <1>2, <2>1, <2>4 DEF ToldAreCounted, ReadAreCounted, ReadOnce
  <2>6. LastFindsAllEnded'
    BY <1>1, <1>2, <2>1 DEF LastFindsAllEnded, AllEnded, Overflowed
  <2> QED
    BY <2>3, <2>5, <2>6
<1> QED
  BY <1>4, <1>5 DEF CountInv

(* One failure more, of a slice that had none: if the count of those meets *)
(* that of the slices not told, every slice has ended.                     *)
LEMMA OverflowKeepsCount ==
    ASSUME QueueInv, QueueInv', CountInv, NEW w \in Workers, NEW s \in Slices, Overflow(w, s)
    PROVE  CountInv'
<1> USE DEF QueueInv
<1>1. [Next]_vars
  BY DEF Next, Work
<1>2. jobs[s].there /\ jobs[s].attempts = AttemptLimit
  <2>1. jobs[s].there /\ ~(jobs[s].attempts < AttemptLimit)
    BY DEF Overflow, CanTake, Available, Fits
  <2>2. jobs[s].attempts \in 0..AttemptLimit
    BY DEF TypeOK, Job
  <2> QED
    BY <2>1, <2>2, Numbers
<1>3. /\ UNCHANGED <<worker, read>> /\ import'.processed = import.processed
      /\ batch'.failed = batch.failed + 1 /\ batch'.pending = batch.pending
  BY DEF Overflow, TypeOK
<1>4. import'.completed => import.completed \/ batch.pending = batch'.failed
  BY DEF Overflow, TypeOK
<1>5. \A t \in Slices : /\ jobs'[t].attempts = jobs[t].attempts
                        /\ jobs'[t].there <=> t # s /\ jobs[t].there
  BY DEF Overflow, TypeOK, Job
<1>6. Failures' = Failures \cup {s} /\ s \notin Failures /\ Failures' \subseteq Slices
  BY <1>2, <1>5 DEF Failures, Overflowed
<1>7. Cardinality(Failures') = Cardinality(Failures) + 1 /\ Cardinality(Failures) \in Nat
  BY <1>6, Counts, FS_AddElement
<1>8. FailuresAreCounted'
  BY <1>3, <1>7 DEF CountInv, FailuresAreCounted, TypeOK
<1>9. ASSUME Once'
      PROVE  OneReader' /\ ToldAreCounted' /\ ReadAreCounted' /\ LastFindsAllEnded'
  <2>1. Once /\ OneReader /\ ToldAreCounted /\ ReadAreCounted /\ LastFindsAllEnded
    BY <1>1, <1>9, EndsStay DEF Once, CountInv
  <2>2. OneReader' /\ ReadAreCounted' /\ Told' = Told
    BY <1>3, <2>1 DEF OneReader, At, Past, ReadAreCounted, ReadOnce, Told
  <2>3. ToldAreCounted'
    BY <1>3, <2>1, <2>2 DEF ToldAreCounted
  <2>4. AllEnded => AllEnded'
    BY <1>3, <1>5 DEF AllEnded, Overflowed
  <2>5. ASSUME batch.pending = batch'.failed PROVE LastFindsAllEnded'
    <3>1. Told' \cap Failures' = {} /\ Told' \subseteq Slices /\ Failures' \subseteq Slices
      BY <1>9 DEF Told, Failures, Once, EndedTwice
    <3>2. /\ batch'.failed \in Int /\ batch'.failed <= Cardinality(Failures')
          /\ batch'.failed >= Total - Cardinality(Told')
      BY <1>3, <1>8, <2>3, <2>5 DEF FailuresAreCounted, ToldAreCounted, TypeOK
    <3>3. Told' \cup Failures' = Slices
      BY <3>1, <3>2, CountsMeet
    <3>4. AllEnded'
      BY <3>3 DEF AllEnded, Told, Failures
    <3> QED
      BY <3>4 DEF LastFindsAllEnded
  <2>6. ASSUME batch.pending # batch'.failed PROVE LastFindsAllEnded'
    BY <1>3, <1>4, <2>1, <2>4, <2>6 DEF LastFindsAllEnded
  <2> QED
    BY <2>2, <2>3, <2>5, <2>6
<1> QED
  BY <1>8, <1>9 DEF CountInv

(* The other steps count nothing.                                          *)
LEMMA QuietStepKeepsCount ==
    ASSUME QueueInv, QueueInv', CountInv,
           \/ \E w \in Workers, s \in Slices : Begin(w, s) \/ PutBack(w, s)
           \/ \E w \in Workers : Unlock(w) \/ Delete(w) \/ Die(w)
           \/ Tick
    PROVE  CountInv'
<1> USE DEF QueueInv
<1> DEFINE Nearer(w) ==
             /\ worker'[w].step = "last" => worker[w].step = "last"
             /\ Past(w)' => Past(w) /\ worker'[w].slice = worker[w].slice
             /\ worker'[w].step \in {"read", "unlocked"} => worker[w].step \in {"read", "unlocked"}
<1>1. [Next]_vars
  BY DEF Next, Work
<1>2. UNCHANGED <<read, batch, import>>
  BY DEF Begin, PutBack, Unlock, Delete, Die, Tick
<1>3. ASSUME NEW v \in Workers PROVE Nearer(v)
  <2>1. ASSUME NEW w \in Workers, NEW s \in Slices, Begin(w, s) PROVE Nearer(v)
    BY <2>1 DEF Begin, TypeOK, Past
  <2>2. ASSUME NEW w \in Workers, NEW s \in Slices, PutBack(w, s) PROVE Nearer(v)
    <3>1. worker[v] \in Worker
      BY DEF TypeOK
    <3>2. worker'[v].step = worker[v].step /\ worker'[v].slice = worker[v].slice
      BY <2>2, <3>1 DEF PutBack, Worker
    <3> QED
      BY <3>2 DEF Past
  <2>3. ASSUME NEW w \in Workers, Unlock(w) PROVE Nearer(v)
    <3>1. worker[w].step = "read" /\ GoesOn(w, "unlocked")
      BY <2>3 DEF Unlock
    <3>2. /\ worker'[w].step = "unlocked" /\ worker'[w].slice = worker[w].slice
          /\ \A u \in Workers \ {w} : worker'[u] = worker[u]
      BY <3>1, GoesOnStep DEF Steps
    <3> QED
      BY <3>1, <3>2 DEF Past
  <2>4. ASSUME NEW w \in Workers, Delete(w) \/ Die(w) PROVE Nearer(v)
    <3>1. worker' = [worker EXCEPT ![w] = Idle]
      BY <2>4 DEF Delete, Die
    <3>2. worker'[v] = worker[v] \/ worker'[v].step = "idle"
      BY <3>1 DEF TypeOK, Idle
    <3> QED
      BY <3>2 DEF Past
  <2>5. ASSUME Tick PROVE Nearer(v)
    <3>1. worker[v].step \in {"idle", "reading"} /\ worker[v] \in Worker
      BY <2>5 DEF Tick, TypeOK
    <3>2. worker'[v].step \in {"idle", "reading"}
      BY <2>5, <3>1 DEF Tick, Worker, Idle
    <3> QED
      BY <3>2 DEF Past
  <2> QED
    BY <2>1, <2>2, <2>3, <2>4, <2>5
<1> QED
  BY <1>1, <1>2, <1>3, NotCountingKeepsCount

(* Nothing is counted at first, and nothing has ended.                     *)
LEMMA InitHasCount == Init => CountInv
<1> SUFFICES ASSUME Init PROVE CountInv
  OBVIOUS
<1>1. FailuresAreCounted
  <2>1. Cardinality(Failures) \in Nat
    BY Counts DEF Failures
  <2> QED
    BY <2>1 DEF Init, FailuresAreCounted
<1>2. OneReader /\ LastFindsAllEnded
  BY DEF Init, Idle, OneReader, LastFindsAllEnded, Past
<1>3. Told = {} /\ ReadOnce = {}
  BY DEF Init, Told, ReadOnce
<1>4. ToldAreCounted /\ ReadAreCounted
  BY <1>3, Numbers, FS_EmptySet DEF Init, ToldAreCounted, ReadAreCounted
<1> QED
  BY <1>1, <1>2, <1>4 DEF CountInv

(* Every step keeps the counts.                                            *)
LEMMA NextKeepsCount == QueueInv /\ QueueInv' /\ CountInv /\ [Next]_vars => CountInv'
<1> SUFFICES ASSUME QueueInv, QueueInv', CountInv, [Next]_vars PROVE CountInv'
  OBVIOUS
<1>1. ASSUME NEW w \in Workers, Read(w) \/ Record(w) \/ Finally(w) PROVE CountInv'
  BY <1>1, ReadKeepsCount, RecordKeepsCount, FinallyKeepsCount
<1>2. ASSUME NEW w \in Workers, NEW s \in Slices, Overflow(w, s) PROVE CountInv'
  BY <1>2, OverflowKeepsCount
<1>3. CASE \/ \E w \in Workers, s \in Slices : Begin(w, s) \/ PutBack(w, s)
           \/ \E w \in Workers : Unlock(w) \/ Delete(w) \/ Die(w)
           \/ Tick
  BY <1>3, QuietStepKeepsCount
<1>4. CASE UNCHANGED vars
  BY <1>4 DEF vars, CountInv, FailuresAreCounted, Failures, Overflowed, Once, EndedTwice, OneReader,
              ToldAreCounted, Told, ReadAreCounted, ReadOnce, LastFindsAllEnded, AllEnded, At, Past
<1> QED
  BY <1>1, <1>2, <1>3, <1>4 DEF Next, Work

(* The batch and the import count what was read and what failed, until a   *)
(* slice ends twice.                                                       *)
THEOREM QueueCounts == Spec => []CountInv
<1>1. Init => CountInv
  BY InitHasCount
<1>2. QueueInv /\ QueueInv' /\ CountInv /\ [Next]_vars => CountInv'
  BY NextKeepsCount
<1> QED
  BY <1>1, <1>2, QueueInvariant, PTL DEF Spec

(* A completed import has read or failed every slice, and its count is     *)
(* that of the slices read, unless a slice ended twice.                    *)
THEOREM QueueCompleted == Spec => []CompletedTellsTheTruth
<1>1. CountInv => CompletedTellsTheTruth
  BY DEF CountInv, CompletedTellsTheTruth, Once, LastFindsAllEnded, AllEnded, ReadAreCounted, ReadOnce
<1> QED
  BY <1>1, QueueCounts, PTL

-----------------------------------------------------------------------------
(* The queue implements SliceReading                                       *)

ReadingStep == [R!ReadingNext]_(R!readingVars)

(* Who reads, reads a slice; who has the lock is the one reader in time.   *)
LEMMA ReadersAtSlices ==
    ASSUME QueueInv
    PROVE  /\ R!Reading = {w \in Workers : worker[w].step = "reading"}
           /\ LockIsFree => R!Reading \subseteq lateWorkers
<1>1. \A w \in Workers : worker[w].step = "reading" => worker[w].slice \in Slices
  BY DEF QueueInv, BusyHaveASlice
<1>2. R!Reading = {w \in Workers : worker[w].step = "reading"}
  BY <1>1, ImportQueueAssumption DEF R!Reading, readBy
<1>3. ASSUME LockIsFree, NEW w \in Workers, worker[w].step = "reading"
      PROVE  worker[w].time = LockExpires
  <2>1. lock.owner # w
    BY <1>3, ImportQueueAssumption DEF LockIsFree, Free
  <2>2. ~(worker[w].time < LockExpires)
    BY <1>3, <2>1 DEF QueueInv, TakersHoldTheLock
  <2>3. worker[w].time \in 0..LockExpires
    BY DEF QueueInv, TypeOK, Worker
  <2> QED
    BY <2>2, <2>3, Numbers
<1> QED
  BY <1>2, <1>3 DEF lateWorkers

(* A function changed at one place.                                        *)
LEMMA SetAt ==
    ASSUME NEW f, NEW g, NEW D, f = [d \in D |-> f[d]], g = [d \in D |-> g[d]],
           NEW d \in D, NEW e, g[d] = e, \A c \in D \ {d} : g[c] = f[c]
    PROVE  g = [f EXCEPT ![d] = e]
<1> DEFINE h == [f EXCEPT ![d] = e]
<1>1. h = [c \in D |-> IF c = d THEN e ELSE f[c]]
  OBVIOUS
<1>2. \A c \in D : g[c] = h[c]
  BY <1>1
<1> QED
  BY <1>1, <1>2

(* Workers go about what is not reading.                                   *)
LEMMA SameReaders ==
    ASSUME \A w \in Workers :
               \/ worker[w].step # "reading" /\ worker'[w].step # "reading"
               \/ /\ worker'[w].step = worker[w].step
                  /\ worker'[w].slice = worker[w].slice
                  /\ worker'[w].time = worker[w].time
    PROVE  UNCHANGED <<readBy, lateWorkers>>
<1>1. readBy' = readBy
  BY DEF readBy
<1>2. lateWorkers' = lateWorkers
  BY DEF lateWorkers
<1> QED
  BY <1>1, <1>2

(* A worker stops reading.                                                 *)
LEMMA ReaderLeaves ==
    ASSUME TypeOK, NEW w \in Workers, NEW new \in Worker, new.step # "reading",
           worker' = [worker EXCEPT ![w] = new]
    PROVE  R!Leaves(w)
<1>1. worker'[w] = new /\ \A v \in Workers \ {w} : worker'[v] = worker[v]
  BY WorkerStep
<1>2. readBy' = [readBy EXCEPT ![w] = NoSlice]
  <2>1. worker'[w].step # "reading"
    BY <1>1
  <2>2. readBy'[w] = NoSlice /\ \A v \in Workers \ {w} : readBy'[v] = readBy[v]
    BY <1>1, <2>1 DEF readBy
  <2>3. readBy = [v \in Workers |-> readBy[v]] /\ readBy' = [v \in Workers |-> readBy'[v]]
    BY DEF readBy
  <2> QED
    BY <2>2, <2>3, SetAt
<1>3. lateWorkers' = lateWorkers \ {w}
  BY <1>1 DEF lateWorkers
<1> QED
  BY <1>2, <1>3 DEF R!Leaves

(* A slice is tried once more.                                             *)
LEMMA TryRefines ==
    ASSUME QueueInv, NEW s \in Slices, jobs[s].there, Fits(s),
           NEW timer \in {RetryAfter, ReleaseAfter},
           jobs' = [jobs EXCEPT ![s] = Reserved(s, timer)]
    PROVE  R!Try(s) /\ UNCHANGED queuedSlices
<1>1. jobs \in [Slices -> Job] /\ jobs[s] \in Job
  BY DEF QueueInv, TypeOK
<1>2. Reserved(s, timer).there
  BY <1>1, ReservedType DEF Fits
<1>3. jobs'[s] = Reserved(s, timer) /\ \A t \in Slices \ {s} : jobs'[t] = jobs[t]
  BY <1>1
<1>4. queuedSlices' = queuedSlices
  BY <1>2, <1>3 DEF queuedSlices
<1>5. s \in queuedSlices \ spentSlices
  BY <1>1, Numbers DEF queuedSlices, spentSlices, Overflowed, Fits
<1>6. \A t \in Slices \ {s} : Overflowed(t)' <=> Overflowed(t)
  BY <1>3 DEF Overflowed
<1>7. spentSlices' = spentSlices \/ spentSlices' = spentSlices \cup {s}
  <2>1. \A t \in Slices \ {s} : t \in spentSlices' <=> t \in spentSlices
    BY <1>6 DEF spentSlices
  <2>2. spentSlices \subseteq Slices /\ spentSlices' \subseteq Slices
    BY DEF spentSlices
  <2> QED
    BY <1>5, <2>1, <2>2
<1> QED
  BY <1>4, <1>5, <1>7 DEF R!Try

(* Whoever completes the import may.                                       *)
LEMMA CompletesInTime ==
    ASSUME QueueInv, Once => AllEnded
    PROVE  R!MayBeComplete
<1>1. \A s \in Slices : read[s] \in 0..2
  BY DEF QueueInv, TypeOK
<1>2. CASE Once
  <2>1. \A s \in Slices : read[s] > 0 \/ Overflowed(s)
    BY <1>2 DEF AllEnded
  <2> QED
    BY <2>1 DEF R!MayBeComplete, queuedSlices, readSlices, spentSlices
<1>3. CASE ~Once
  <2>1. PICK s \in Slices : read[s] > 1 \/ (read[s] > 0 /\ Overflowed(s))
    BY <1>3 DEF Once, EndedTwice
  <2> QED
    BY <2>1 DEF R!MayBeComplete, rereadSlices, readSlices, spentSlices
<1> QED
  BY <1>2, <1>3

LEMMA BeginRefines ==
    ASSUME QueueInv, NEW w \in Workers, NEW s \in Slices, Begin(w, s)
    PROVE  R!Begin(w, s)
<1>1. TypeOK /\ worker[w] \in Worker
  BY DEF QueueInv, TypeOK
<1>2. /\ jobs[s].there /\ Fits(s) /\ LockIsFree /\ worker[w].step = "idle"
      /\ jobs' = [jobs EXCEPT ![s] = Reserved(s, RetryAfter)]
      /\ worker' = [worker EXCEPT ![w] = [step |-> "reading", slice |-> s, owns |-> TRUE, time |-> 0]]
      /\ UNCHANGED <<crew, import, read, slow, deaths>>
  BY DEF Begin, CanTake, Available
<1>3. R!Try(s) /\ UNCHANGED queuedSlices
  BY <1>2, TryRefines
<1>4. w \notin R!Reading /\ R!Reading \subseteq lateWorkers
  BY <1>2, ReadersAtSlices
<1>5. /\ worker'[w] = [step |-> "reading", slice |-> s, owns |-> TRUE, time |-> 0]
      /\ \A v \in Workers \ {w} : worker'[v] = worker[v]
  BY <1>1, <1>2 DEF TypeOK
<1>6. readBy' = [readBy EXCEPT ![w] = s]
  <2>1. worker'[w].step = "reading" /\ worker'[w].slice = s
    BY <1>5
  <2>2. readBy'[w] = s /\ \A v \in Workers \ {w} : readBy'[v] = readBy[v]
    BY <1>5, <2>1 DEF readBy
  <2>3. readBy = [v \in Workers |-> readBy[v]] /\ readBy' = [v \in Workers |-> readBy'[v]]
    BY DEF readBy
  <2> QED
    BY <2>2, <2>3, SetAt
<1>7. lateWorkers' = lateWorkers
  BY <1>2, <1>5, Numbers DEF lateWorkers
<1>8. UNCHANGED <<readSlices, rereadSlices, Disturbed, import.completed>>
  BY <1>2 DEF readSlices, rereadSlices, Disturbed, Alone
<1> QED
  BY <1>3, <1>4, <1>6, <1>7, <1>8 DEF R!Begin

LEMMA PutBackRefines ==
    ASSUME QueueInv, NEW w \in Workers, NEW s \in Slices, PutBack(w, s)
    PROVE  R!TryInVain(s)
<1>1. TypeOK
  BY DEF QueueInv
<1>2. /\ jobs[s].there /\ Fits(s)
      /\ jobs' = [jobs EXCEPT ![s] = Reserved(s, ReleaseAfter)]
      /\ UNCHANGED <<crew, import, read, slow, deaths>>
  BY DEF PutBack, CanTake, Available
<1>3. R!Try(s) /\ UNCHANGED queuedSlices
  BY <1>2, TryRefines
<1>4. \A v \in Workers : /\ worker'[v].step = worker[v].step
                         /\ worker'[v].slice = worker[v].slice
                         /\ worker'[v].time = worker[v].time
  BY <1>1 DEF PutBack, TypeOK, Worker
<1>5. UNCHANGED <<readBy, lateWorkers>>
  BY <1>4, SameReaders
<1>6. UNCHANGED <<readSlices, rereadSlices, Disturbed, import.completed>>
  BY <1>2 DEF readSlices, rereadSlices, Disturbed, Alone
<1> QED
  BY <1>3, <1>5, <1>6 DEF R!TryInVain

LEMMA OverflowRefines ==
    ASSUME QueueInv, CountInv', NEW w \in Workers, NEW s \in Slices, Overflow(w, s)
    PROVE  R!Leave(s)
<1>1. jobs \in [Slices -> Job] /\ jobs[s] \in Job
  BY DEF QueueInv, TypeOK
<1>2. /\ jobs[s].there /\ ~Fits(s)
      /\ jobs' = [jobs EXCEPT ![s].there = FALSE]
      /\ UNCHANGED <<crew, worker, read, slow, deaths>>
  BY DEF Overflow, CanTake, Available
<1>3. /\ ~jobs'[s].there /\ \A t \in Slices \ {s} : jobs'[t] = jobs[t]
      /\ \A t \in Slices : jobs'[t].attempts = jobs[t].attempts
  BY <1>1, <1>2 DEF Job
<1>4. s \in queuedSlices /\ s \in spentSlices
  <2>1. jobs[s].attempts \in 0..AttemptLimit /\ ~(jobs[s].attempts < AttemptLimit)
    BY <1>1, <1>2 DEF Job, Fits
  <2> QED
    BY <1>2, <2>1, Numbers DEF queuedSlices, spentSlices, Overflowed
<1>5. queuedSlices' = queuedSlices \ {s}
  BY <1>3 DEF queuedSlices
<1>6. UNCHANGED spentSlices
  BY <1>3 DEF spentSlices, Overflowed
<1>7. UNCHANGED <<readBy, lateWorkers, readSlices, rereadSlices, Disturbed>>
  BY <1>2 DEF readBy, lateWorkers, readSlices, rereadSlices, Disturbed, Alone
<1>8. import.completed' = import.completed \/ (import.completed' = TRUE /\ R!MayBeComplete)
  <2>1. import.completed \in BOOLEAN /\ import.completed' \in BOOLEAN
        /\ (import.completed => import.completed')
    <3>1. import \in [processed : 0..Total, completed : BOOLEAN]
      BY DEF QueueInv, TypeOK
    <3> QED
      BY <3>1, Zenon DEF Overflow
  <2>2. CASE import.completed'
    <3>1. Once' => AllEnded'
      BY <2>2 DEF CountInv, LastFindsAllEnded
    <3>2. Once => AllEnded
      BY <1>2, <1>3, <3>1 DEF Once, EndedTwice, AllEnded, Overflowed
    <3>3. R!MayBeComplete
      BY <3>2, CompletesInTime
    <3> QED
      BY <2>1, <2>2, <3>3
  <2>3. CASE ~import.completed'
    BY <2>1, <2>3
  <2> QED
    BY <2>2, <2>3
<1> QED
  BY <1>4, <1>5, <1>6, <1>7, <1>8 DEF R!Leave

LEMMA ReadRefines ==
    ASSUME QueueInv, ReadAgainOnlyAfterATimeout', NEW w \in Workers, Read(w)
    PROVE  R!Finish(w)
<1>1. TypeOK /\ worker[w] \in Worker /\ read \in [Slices -> 0..2]
  BY DEF QueueInv, TypeOK
<1> DEFINE s == worker[w].slice
<1>2. worker[w].step = "reading" /\ s \in Slices
  BY DEF Read, QueueInv, BusyHaveASlice
<1>3. w \in R!Reading /\ readBy[w] = s
  BY <1>2, ReadersAtSlices DEF readBy
<1>4. R!Leaves(w)
  <2>1. [worker[w] EXCEPT !.step = "read"] \in Worker
        /\ [worker[w] EXCEPT !.step = "read"].step # "reading"
    BY <1>1 DEF Worker, Steps
  <2>2. worker' = [worker EXCEPT ![w] = [worker[w] EXCEPT !.step = "read"]]
    BY <1>1 DEF Read, GoesOn, TypeOK
  <2> QED
    BY <1>1, <2>1, <2>2, ReaderLeaves
<1>5. /\ read' = [read EXCEPT ![s] = AtMost(@ + 1, 2)]
      /\ UNCHANGED <<crew, jobs, slow, deaths>> /\ import.completed' = import.completed
  <2>1. import \in [processed : 0..Total, completed : BOOLEAN]
    BY DEF QueueInv, TypeOK
  <2> QED
    BY <2>1 DEF Read
<1> HIDE DEF s
<1>6. /\ read'[s] > 0 /\ (read'[s] > 1 <=> read[s] > 0)
      /\ \A t \in Slices \ {s} : read'[t] = read[t]
  BY <1>1, <1>2, <1>5 DEF AtMost
<1>7. readSlices' = readSlices \cup {s}
  BY <1>2, <1>6 DEF readSlices
<1>8. rereadSlices' = rereadSlices \cup ({s} \cap readSlices)
  <2>1. s \in rereadSlices => s \in readSlices
    BY <1>1, <1>2 DEF rereadSlices, readSlices
  <2>2. s \in rereadSlices' <=> s \in readSlices
    BY <1>2, <1>6 DEF rereadSlices, readSlices
  <2>3. \A t \in Slices \ {s} : t \in rereadSlices' <=> t \in rereadSlices
    BY <1>6 DEF rereadSlices
  <2>4. rereadSlices \subseteq Slices /\ rereadSlices' \subseteq Slices
    BY DEF rereadSlices
  <2> QED
    BY <1>2, <2>1, <2>2, <2>3, <2>4
<1>9. UNCHANGED <<queuedSlices, spentSlices, Disturbed, import.completed>>
  BY <1>5 DEF queuedSlices, spentSlices, Overflowed, Disturbed, Alone
<1>10. s \in readSlices => Disturbed
  <2>1. s \in readSlices => Disturbed'
    BY <1>2, <1>6 DEF readSlices, ReadAgainOnlyAfterATimeout, Disturbed
  <2> QED
    BY <1>9, <2>1
<1> QED
  BY <1>3, <1>4, <1>7, <1>8, <1>9, <1>10 DEF R!Finish

(* What a worker does between reading and deleting the row.                *)
LEMMA QuietStepRefines ==
    ASSUME QueueInv, NEW w \in Workers, Unlock(w) \/ Record(w)
    PROVE  UNCHANGED R!readingVars
<1>1. TypeOK /\ worker \in [Workers -> Worker] /\ worker[w] \in Worker
  BY DEF QueueInv, TypeOK
<1>2. PICK step \in Steps \ {"reading"} : GoesOn(w, step)
  BY DEF Unlock, Record, Steps
<1>3. UNCHANGED <<readBy, lateWorkers>>
  <2>1. worker[w].step # "reading"
    BY DEF Unlock, Record
  <2>2. worker'[w].step # "reading" /\ \A v \in Workers \ {w} : worker'[v] = worker[v]
    BY <1>1, <1>2 DEF GoesOn, Worker
  <2> QED
    BY <2>1, <2>2, SameReaders
<1>4. UNCHANGED <<crew, jobs, import, read, slow, deaths>>
  BY DEF Unlock, Record
<1>5. UNCHANGED <<queuedSlices, readSlices, rereadSlices, spentSlices, Disturbed, import.completed>>
  BY <1>4 DEF queuedSlices, readSlices, rereadSlices, spentSlices, Overflowed, Disturbed, Alone
<1> QED
  BY <1>3, <1>5 DEF R!readingVars

LEMMA FinallyRefines ==
    ASSUME QueueInv, CountInv, NEW w \in Workers, Finally(w)
    PROVE  R!Complete
<1>1. TypeOK /\ worker \in [Workers -> Worker] /\ worker[w] \in Worker
      /\ import \in [processed : 0..Total, completed : BOOLEAN]
  BY DEF QueueInv, TypeOK
<1>2. R!MayBeComplete
  <2>1. Once => AllEnded
    BY DEF Finally, CountInv, LastFindsAllEnded
  <2> QED
    BY <2>1, CompletesInTime
<1>3. UNCHANGED <<readBy, lateWorkers>>
  <2>1. worker[w].step # "reading"
    BY DEF Finally
  <2>2. worker'[w].step # "reading" /\ \A v \in Workers \ {w} : worker'[v] = worker[v]
    BY <1>1 DEF Finally, GoesOn, Worker
  <2> QED
    BY <2>1, <2>2, SameReaders
<1>4. UNCHANGED <<crew, jobs, read, slow, deaths>> /\ import.completed' = TRUE
  BY <1>1 DEF Finally
<1>5. UNCHANGED <<queuedSlices, readSlices, rereadSlices, spentSlices, Disturbed>>
  BY <1>4 DEF queuedSlices, readSlices, rereadSlices, spentSlices, Overflowed, Disturbed, Alone
<1> QED
  BY <1>2, <1>3, <1>4, <1>5 DEF R!Complete

LEMMA DeleteRefines ==
    ASSUME QueueInv, NEW w \in Workers, Delete(w)
    PROVE  (\E s \in Slices : R!Leave(s)) \/ UNCHANGED R!readingVars
<1>1. /\ TypeOK /\ worker \in [Workers -> Worker] /\ jobs \in [Slices -> Job]
  BY DEF QueueInv, TypeOK
<1> DEFINE s == worker[w].slice
<1>2. worker[w].step = "recorded" /\ s \in Slices /\ read[s] > 0
  BY DEF Delete, QueueInv, BusyHaveASlice
<1>3. UNCHANGED <<crew, import, read, slow, deaths>> /\ worker' = [worker EXCEPT ![w] = Idle]
  BY DEF Delete
<1>4. UNCHANGED <<readBy, lateWorkers>>
  <2>1. worker'[w].step # "reading" /\ \A v \in Workers \ {w} : worker'[v] = worker[v]
    BY <1>1, <1>3 DEF Idle
  <2> QED
    BY <1>2, <2>1, SameReaders
<1>5. UNCHANGED <<readSlices, rereadSlices, Disturbed, import.completed>>
  BY <1>3 DEF readSlices, rereadSlices, Disturbed, Alone
<1>6. \/ jobs' = jobs
      \/ jobs' = [jobs EXCEPT ![s] = [@ EXCEPT !.there = FALSE, !.timer = 0]]
  BY DEF Delete
<1> HIDE DEF s
<1>7. CASE jobs' = jobs
  <2>1. UNCHANGED <<queuedSlices, spentSlices>>
    BY <1>7 DEF queuedSlices, spentSlices, Overflowed
  <2> QED
    BY <1>4, <1>5, <2>1 DEF R!readingVars
<1>8. CASE jobs' = [jobs EXCEPT ![s] = [@ EXCEPT !.there = FALSE, !.timer = 0]]
  <2>1. /\ ~jobs'[s].there /\ \A t \in Slices \ {s} : jobs'[t] = jobs[t]
        /\ \A t \in Slices : jobs'[t].attempts = jobs[t].attempts
    BY <1>1, <1>2, <1>8 DEF Job
  <2>2. queuedSlices' = queuedSlices \ {s}
    BY <2>1 DEF queuedSlices
  <2>3. UNCHANGED spentSlices
    BY <2>1 DEF spentSlices, Overflowed
  <2>4. CASE s \in queuedSlices
    <3>1. s \in readSlices
      BY <1>2 DEF readSlices
    <3>2. R!Leave(s)
      BY <1>4, <1>5, <2>2, <2>3, <2>4, <3>1 DEF R!Leave
    <3> QED
      BY <1>2, <3>2
  <2>5. CASE s \notin queuedSlices
    <3>1. queuedSlices' = queuedSlices
      BY <2>2, <2>5
    <3> QED
      BY <1>4, <1>5, <2>3, <3>1 DEF R!readingVars
  <2> QED
    BY <2>4, <2>5
<1> QED
  BY <1>6, <1>7, <1>8

LEMMA DieRefines ==
    ASSUME QueueInv, NEW w \in Workers, Die(w)
    PROVE  R!Die(w)
<1>1. TypeOK /\ deaths \in Nat
  BY Numbers DEF QueueInv, TypeOK
<1>2. R!Leaves(w)
  <2>1. Idle.step # "reading"
    BY DEF Idle
  <2> QED
    BY <1>1, <2>1, IdleType, ReaderLeaves DEF Die
<1>3. Disturbed' = TRUE
  BY <1>1 DEF Die, Disturbed
<1>4. UNCHANGED <<jobs, import, read>>
  BY DEF Die
<1>5. UNCHANGED <<queuedSlices, readSlices, rereadSlices, spentSlices, import.completed>>
  BY <1>4 DEF queuedSlices, readSlices, rereadSlices, spentSlices, Overflowed
<1> QED
  BY <1>2, <1>3, <1>5 DEF R!Die

LEMMA TickRefines ==
    ASSUME QueueInv, Tick
    PROVE  R!Outstay \/ UNCHANGED R!readingVars
<1>1. /\ TypeOK /\ worker \in [Workers -> Worker] /\ jobs \in [Slices -> Job] /\ slow \in BOOLEAN
  BY DEF QueueInv, TypeOK
<1>2. \A w \in Workers : IF worker[w].step = "idle" THEN worker'[w] = Idle
                         ELSE worker'[w] = [worker[w] EXCEPT !.time = AtMost(@ + 1, LockExpires)]
  BY DEF Tick
<1>3. \A w \in Workers : worker[w].step \in {"idle", "reading"}
  BY DEF Tick
<1>4. \A w \in Workers : /\ worker'[w].step = worker[w].step
                         /\ worker[w].step = "reading" => worker'[w].slice = worker[w].slice
  <2> SUFFICES ASSUME NEW w \in Workers
               PROVE  /\ worker'[w].step = worker[w].step
                      /\ worker[w].step = "reading" => worker'[w].slice = worker[w].slice
    OBVIOUS
  <2>1. CASE worker[w].step = "idle"
    <3>1. worker'[w] = Idle
      BY <1>2, <2>1
    <3> QED
      BY <2>1, <3>1 DEF Idle
  <2>2. CASE worker[w].step # "idle"
    <3>1. worker[w] \in Worker
      BY <1>1
    <3>2. worker'[w] = [worker[w] EXCEPT !.time = AtMost(@ + 1, LockExpires)]
      BY <1>2, <2>2
    <3> QED
      BY <3>1, <3>2 DEF Worker
  <2> QED
    BY <2>1, <2>2
<1>5. readBy' = readBy
  BY <1>4 DEF readBy
<1>6. lateWorkers \subseteq lateWorkers'
  <2>1. SUFFICES ASSUME NEW w \in Workers, worker[w].step = "reading", worker[w].time = LockExpires
                 PROVE  worker'[w].time = LockExpires
    BY <1>4 DEF lateWorkers
  <2>2. worker'[w].time = AtMost(worker[w].time + 1, LockExpires)
    BY <1>1, <1>2, <2>1 DEF Worker
  <2> QED
    BY <2>1, <2>2, Numbers DEF AtMost
<1>7. lateWorkers' \in SUBSET R!Reading
  BY <1>4, ReadersAtSlices DEF lateWorkers
<1>8. UNCHANGED <<crew, import, read, deaths>> /\ \A s \in Slices : /\ jobs'[s].there = jobs[s].there
                                                                   /\ jobs'[s].attempts = jobs[s].attempts
  BY <1>1 DEF Tick, Job
<1>9. UNCHANGED <<queuedSlices, readSlices, rereadSlices, spentSlices, import.completed>>
  BY <1>8 DEF queuedSlices, readSlices, rereadSlices, spentSlices, Overflowed
<1>10. CASE R!Reading # {}
  <2>1. Disturbed \in BOOLEAN /\ Disturbed' \in BOOLEAN
    BY DEF Disturbed
  <2>2. Disturbed => Disturbed'
    BY <1>8 DEF Tick, Disturbed, Alone
  <2>3. Disturbed' \in {Disturbed, TRUE}
    BY <2>1, <2>2
  <2> QED
    BY <1>5, <1>6, <1>7, <1>9, <1>10, <2>3 DEF R!Outstay
<1>11. CASE R!Reading = {}
  <2>1. lateWorkers' = lateWorkers
    BY <1>6, <1>7, <1>11
  <2>2. \A w \in Workers : worker'[w].time = 0
    <3>1. \A w \in Workers : worker[w].step = "idle"
      BY <1>3, <1>11, ReadersAtSlices
    <3>2. \A w \in Workers : worker'[w] = Idle
      BY <1>2, <3>1
    <3> QED
      BY <3>2 DEF Idle
  <2>3. slow' = slow
    BY <1>1, <2>2, Numbers DEF Tick
  <2>4. Disturbed' = Disturbed
    BY <1>8, <2>3 DEF Disturbed, Alone
  <2> QED
    BY <1>5, <1>9, <2>1, <2>4 DEF R!readingVars
<1> QED
  BY <1>10, <1>11

(* Every step of the queue is a step of SliceReading or none.              *)
LEMMA QueueStepRefines ==
    QueueInv /\ ReadAgainOnlyAfterATimeout' /\ CountInv /\ CountInv' /\ [Next]_vars
        => [R!ReadingNext]_(R!readingVars)
<1> SUFFICES ASSUME QueueInv, ReadAgainOnlyAfterATimeout', CountInv, CountInv', [Next]_vars
             PROVE  ReadingStep
  BY DEF ReadingStep
<1>1. ASSUME NEW w \in Workers, NEW s \in Slices, Begin(w, s) \/ PutBack(w, s) \/ Overflow(w, s)
      PROVE  ReadingStep
  BY <1>1, BeginRefines, PutBackRefines, OverflowRefines DEF ReadingStep, R!ReadingNext
<1>2. ASSUME NEW w \in Workers, Read(w) \/ Die(w)
      PROVE  ReadingStep
  BY <1>2, ReadRefines, DieRefines DEF ReadingStep, R!ReadingNext
<1>3. ASSUME NEW w \in Workers, Unlock(w) \/ Record(w) \/ Finally(w)
      PROVE  ReadingStep
  BY <1>3, QuietStepRefines, FinallyRefines DEF ReadingStep, R!ReadingNext
<1>4. ASSUME NEW w \in Workers, Delete(w)
      PROVE  ReadingStep
  BY <1>4, DeleteRefines DEF ReadingStep, R!ReadingNext
<1>5. CASE Tick
  BY <1>5, TickRefines DEF ReadingStep, R!ReadingNext
<1>6. CASE UNCHANGED vars
  <2>1. UNCHANGED <<queuedSlices, readBy, lateWorkers, readSlices, rereadSlices, spentSlices, Disturbed,
                    import.completed>>
    BY <1>6 DEF vars, queuedSlices, readBy, lateWorkers, readSlices, rereadSlices, spentSlices,
                Overflowed, Disturbed, Alone
  <2> QED
    BY <2>1 DEF ReadingStep, R!readingVars
<1> QED
  BY <1>1, <1>2, <1>3, <1>4, <1>5, <1>6 DEF Next, Work

LEMMA QueueInitRefines == Init => R!ReadingInit
<1> SUFFICES ASSUME Init PROVE R!ReadingInit
  OBVIOUS
<1>1. queuedSlices = Slices /\ readSlices = {} /\ rereadSlices = {}
  BY DEF Init, queuedSlices, readSlices, rereadSlices
<1>2. spentSlices = {}
  BY Numbers DEF Init, spentSlices, Overflowed
<1>3. readBy = [w \in Workers |-> NoSlice] /\ lateWorkers = {}
  BY DEF Init, readBy, lateWorkers, Idle
<1>4. Disturbed = FALSE /\ import.completed = FALSE
  BY DEF Init, Disturbed
<1> QED
  BY <1>1, <1>2, <1>3, <1>4 DEF R!ReadingInit

(* Any number of workers, who die at any point and take as long as they    *)
(* like, read the slices of an import as SliceReading promises.            *)
THEOREM QueueImplementsReading == Spec => ImplementsReading
<1>1. Spec => R!ReadingSpec
  BY QueueInitRefines, QueueStepRefines, QueueInvariant, QueueReadAgain, QueueCounts, PTL
     DEF Spec, R!ReadingSpec
<1> QED
  BY <1>1 DEF ImplementsReading

-----------------------------------------------------------------------------
(* The attempts of a lone worker                                           *)

(* The lock a dead worker left runs out while a slice is put back K times  *)
(* (6 times 20 s outlast the 120 s), and the column holds one attempt and  *)
(* those K for each death that may happen.                                 *)
LimitSuffices(K) ==
    /\ K \in Nat
    /\ LockExpires <= K * ReleaseAfter
    /\ MaxDeaths * (K + 1) < AttemptLimit

(* The attempts that the deaths so far excuse and a slice has not had.     *)
Slack(s, K) == deaths * (K + 1) - jobs[s].attempts

(* What is left of the lock is less than a slice can still wait. The slice *)
(* the worker is at has had one attempt more.                              *)
SlackOutlasts(w, K) ==
    \A s \in Slices : jobs[s].there =>
        /\ At(w, s) => Slack(s, K) >= -1
        /\ ~At(w, s) => Slack(s, K) >= 0
        /\ worker[w].step = "idle"
              => lock.left <= jobs[s].timer + Slack(s, K) * ReleaseAfter

(* The lock is the worker's, alive or dead, and never while it is past     *)
(* giving it back.                                                         *)
Lone(w, K) ==
    /\ LockIsFree \/ (lock.owner = w /\ lock.left > 0)
    /\ worker[w].step \in {"unlocked", "last", "recorded"} => LockIsFree
    /\ worker[w].step # "idle" => worker[w].owns
    /\ SlackOutlasts(w, K)
    /\ batch.failed = 0

LoneInv(K) == \A w \in Workers : crew = {w} => Lone(w, K)

(* One wait more costs an attempt and is worth as much.                    *)
LEMMA WaitedFor ==
    ASSUME NEW m \in Int, NEW r \in Nat \ {0}, NEW left \in Nat \ {0}, left <= m * r
    PROVE  m >= 1 /\ left <= r + (m - 1) * r
<1>1. m >= 1
  <2>1. ASSUME m <= 0 PROVE m * r <= 0
    BY <2>1
  <2>2. m * r \in Int
    OBVIOUS
  <2> QED
    BY <2>1, <2>2
<1>2. (m - 1) * r = m * r - r
  OBVIOUS
<1>3. m * r \in Int
  OBVIOUS
<1> QED
  BY <1>1, <1>2, <1>3

(* A death excuses K + 1 attempts.                                         *)
LEMMA Excused ==
    ASSUME NEW d \in Nat, NEW max \in Nat, d <= max, NEW K \in Nat
    PROVE  /\ d * (K + 1) \in Nat /\ max * (K + 1) \in Nat
           /\ (d + 1) * (K + 1) = d * (K + 1) + K + 1
           /\ d * (K + 1) <= max * (K + 1)
OBVIOUS

(* What a slice can wait does not shrink when it may wait more.            *)
LEMMA MoreIsMore ==
    ASSUME NEW m \in Int, NEW k \in Nat, k <= m, NEW r \in Nat
    PROVE  k * r <= m * r /\ k * r \in Nat /\ m * r \in Int
OBVIOUS

(* The slack of a row is a number.                                         *)
LEMMA SlackIsInt ==
    ASSUME TypeOK, NEW s \in Slices, NEW K \in Nat
    PROVE  Slack(s, K) \in Int /\ deaths * (K + 1) \in Nat /\ jobs[s].attempts \in 0..AttemptLimit
           /\ jobs[s].timer \in Nat /\ lock.left \in 0..LockExpires
<1>1. deaths \in Nat /\ jobs[s].attempts \in 0..AttemptLimit
      /\ jobs[s].timer \in Nat /\ lock.left \in 0..LockExpires
  BY Numbers DEF TypeOK, Job
<1>2. deaths * (K + 1) \in Nat
  BY <1>1
<1> QED
  BY <1>1, <1>2, Numbers DEF Slack

(* Only the lone worker takes slices and is at one.                        *)
LEMMA LoneActs ==
    ASSUME BusyHaveASlice, NEW w \in Workers, crew = {w}, NEW v \in Workers,
           v \in crew \/ worker[v].step # "idle"
    PROVE  v = w
BY DEF BusyHaveASlice

(* It begins: one attempt more, of the slice it is at.                     *)
LEMMA BeginKeepsLone ==
    ASSUME QueueInv, NEW K, LimitSuffices(K), NEW w \in Workers, Lone(w, K),
           NEW s \in Slices, Begin(w, s)
    PROVE  Lone(w, K)'
<1> USE DEF QueueInv
<1>1. /\ worker'[w] = [step |-> "reading", slice |-> s, owns |-> TRUE, time |-> 0]
      /\ lock' = [owner |-> w, left |-> LockExpires] /\ batch' = batch /\ deaths' = deaths
  BY DEF Begin, TypeOK
<1>2. /\ worker'[w].step = "reading" /\ worker'[w].slice = s /\ worker'[w].owns
      /\ worker[w].step = "idle"
  BY <1>1 DEF Begin, CanTake
<1>3. /\ \A t \in Slices \ {s} : jobs'[t] = jobs[t]
      /\ jobs'[s].attempts = jobs[s].attempts + 1 /\ jobs[s].there
  BY DEF Begin, TypeOK, Reserved, Job, CanTake, Available
<1>4. SlackOutlasts(w, K)'
  <2> SUFFICES ASSUME NEW t \in Slices, jobs'[t].there
               PROVE  /\ At(w, t)' => Slack(t, K)' >= -1
                      /\ ~At(w, t)' => Slack(t, K)' >= 0
    BY <1>2 DEF SlackOutlasts
  <2>1. ~At(w, t) /\ (At(w, t)' <=> t = s)
    BY <1>2 DEF At
  <2>2. jobs[t].there /\ Slack(t, K) >= 0 /\ Slack(t, K) \in Int
    BY <1>3, <2>1, SlackIsInt DEF LimitSuffices, Lone, SlackOutlasts
  <2>3. Slack(t, K)' = IF t = s THEN Slack(t, K) - 1 ELSE Slack(t, K)
    BY <1>1, <1>3, SlackIsInt DEF LimitSuffices, Slack
  <2> QED
    BY <2>1, <2>2, <2>3
<1> QED
  BY <1>1, <1>2, <1>4, Numbers DEF Lone

(* It puts a slice back: an attempt less, and as long a wait.              *)
LEMMA PutBackKeepsLone ==
    ASSUME QueueInv, NEW K, LimitSuffices(K), NEW w \in Workers, Lone(w, K),
           NEW s \in Slices, PutBack(w, s)
    PROVE  Lone(w, K)'
<1> USE DEF QueueInv
<1>1. /\ worker'[w].step = "idle" /\ worker[w].step = "idle"
      /\ UNCHANGED <<lock, batch, deaths>> /\ ~LockIsFree
  BY DEF PutBack, CanTake, TypeOK, Worker
<1>2. /\ \A t \in Slices \ {s} : jobs'[t] = jobs[t]
      /\ jobs'[s].attempts = jobs[s].attempts + 1 /\ jobs'[s].timer = ReleaseAfter
      /\ jobs[s].there /\ jobs[s].timer = 0
  BY DEF PutBack, TypeOK, Reserved, Job, CanTake, Available
<1>3. SlackOutlasts(w, K)'
  <2> SUFFICES ASSUME NEW t \in Slices, jobs'[t].there
               PROVE  /\ Slack(t, K)' >= 0
                      /\ lock'.left <= jobs'[t].timer + Slack(t, K)' * ReleaseAfter
    BY <1>1 DEF SlackOutlasts, At
  <2>1. /\ jobs[t].there /\ Slack(t, K) >= 0 /\ Slack(t, K) \in Int
        /\ lock.left <= jobs[t].timer + Slack(t, K) * ReleaseAfter
    BY <1>1, <1>2, SlackIsInt DEF LimitSuffices, Lone, SlackOutlasts, At
  <2>2. CASE t # s
    BY <1>1, <1>2, <2>1, <2>2 DEF Slack
  <2>3. CASE t = s
    <3>1. Slack(s, K)' = Slack(s, K) - 1
      BY <1>1, <1>2, SlackIsInt DEF LimitSuffices, Slack
    <3>2. lock.left \in Nat \ {0} /\ Slack(s, K) * ReleaseAfter \in Int
      BY <1>1, <2>1, <2>3, Numbers DEF Lone, TypeOK
    <3>3. lock.left <= Slack(s, K) * ReleaseAfter
      BY <1>2, <2>1, <2>3, <3>2
    <3>4. Slack(s, K) >= 1 /\ lock.left <= ReleaseAfter + (Slack(s, K) - 1) * ReleaseAfter
      BY <2>1, <2>3, <3>2, <3>3, WaitedFor, Numbers
    <3> QED
      BY <1>1, <1>2, <2>1, <2>3, <3>1, <3>4
  <2> QED
    BY <2>2, <2>3
<1> QED
  BY <1>1, <1>3 DEF Lone, LockIsFree

(* No slice of it overflows.                                               *)
LEMMA LoneNeverOverflows ==
    ASSUME QueueInv, NEW K, LimitSuffices(K), NEW w \in Workers, Lone(w, K),
           NEW s \in Slices, Overflow(w, s)
    PROVE  FALSE
<1> USE DEF QueueInv
<1>1. jobs[s].there /\ ~At(w, s) /\ ~(jobs[s].attempts < AttemptLimit)
  BY DEF Overflow, CanTake, Available, Fits, At
<1>2. Slack(s, K) >= 0
  BY <1>1 DEF Lone, SlackOutlasts
<1>3. deaths \in Nat /\ deaths <= MaxDeaths /\ K \in Nat
  BY Numbers DEF TypeOK, LimitSuffices
<1>4. deaths * (K + 1) <= MaxDeaths * (K + 1) /\ MaxDeaths * (K + 1) \in Nat
  BY <1>3, Numbers, Excused
<1> QED
  BY <1>1, <1>2, <1>3, <1>4, SlackIsInt, Numbers DEF LimitSuffices, Slack

(* It reads, gives the lock back, and tells the batch.                     *)
LEMMA GoingOnKeepsLone ==
    ASSUME QueueInv, NEW K, LimitSuffices(K), NEW w \in Workers, Lone(w, K),
           Read(w) \/ Unlock(w) \/ Record(w) \/ Finally(w)
    PROVE  Lone(w, K)'
<1> USE DEF QueueInv
<1>1. PICK step \in Steps \ {"idle", "reading"} : GoesOn(w, step)
  BY DEF Read, Unlock, Record, Finally, Steps
<1>2. worker'[w].step = step /\ worker'[w].slice = worker[w].slice /\ worker'[w].owns = worker[w].owns
  BY <1>1, GoesOnStep
<1>3. worker[w].step # "idle" /\ UNCHANGED <<jobs, deaths>> /\ batch'.failed = batch.failed
  BY DEF Read, Unlock, Record, Finally, TypeOK
<1>4. /\ LockIsFree' \/ (lock'.owner = w /\ lock'.left > 0)
      /\ worker'[w].step \in {"unlocked", "last", "recorded"} => LockIsFree'
  <2>1. CASE Read(w)
    <3>1. lock' = lock /\ worker'[w].step = "read"
      BY <2>1, GoesOnStep DEF Read, Steps
    <3> QED
      BY <3>1 DEF Lone, LockIsFree
  <2>2. CASE Unlock(w)
    BY <2>2 DEF Unlock, Lone, LockIsFree
  <2>3. CASE Record(w) \/ Finally(w)
    BY <2>3 DEF Record, Finally, Lone, LockIsFree
  <2> QED
    BY <2>1, <2>2, <2>3
<1>5. SlackOutlasts(w, K)'
  BY <1>2, <1>3 DEF Lone, SlackOutlasts, At, Slack
<1> QED
  BY <1>2, <1>3, <1>4, <1>5 DEF Lone

(* It ends: the row of the slice goes.                                     *)
LEMMA DeleteKeepsLone ==
    ASSUME QueueInv, NEW K, LimitSuffices(K), NEW w \in Workers, Lone(w, K), Delete(w)
    PROVE  Lone(w, K)'
<1> USE DEF QueueInv
<1> DEFINE s == worker[w].slice
<1>1. s \in Slices /\ worker[w].owns /\ LockIsFree
  BY DEF Delete, Lone, BusyHaveASlice
<1>2. jobs' = [jobs EXCEPT ![s] = [@ EXCEPT !.there = FALSE, !.timer = 0]]
  BY <1>1 DEF Delete
<1>3. /\ \A t \in Slices : jobs'[t].there => t # s /\ jobs[t].there
      /\ \A t \in Slices \ {s} : jobs'[t] = jobs[t]
  BY <1>1, <1>2 DEF TypeOK, Job
<1>4. \A t \in Slices : At(w, t) => t = s
  BY DEF At
<1> HIDE DEF s
<1>5. worker'[w].step = "idle" /\ UNCHANGED <<lock, batch, deaths>>
  BY DEF Delete, TypeOK, Idle
<1>6. SlackOutlasts(w, K)'
  <2> SUFFICES ASSUME NEW t \in Slices, jobs'[t].there
               PROVE  /\ Slack(t, K)' >= 0
                      /\ lock'.left <= jobs'[t].timer + Slack(t, K)' * ReleaseAfter
    BY <1>5 DEF SlackOutlasts, At
  <2>1. jobs[t].there /\ jobs'[t] = jobs[t] /\ Slack(t, K) >= 0 /\ Slack(t, K)' = Slack(t, K)
    BY <1>3, <1>4, <1>5 DEF Lone, SlackOutlasts, Slack
  <2>2. lock'.left = 0 /\ jobs'[t].timer \in Nat /\ Slack(t, K) \in Int
    BY <1>1, <1>5, <2>1, SlackIsInt DEF LockIsFree, Free, LimitSuffices
  <2>3. 0 * ReleaseAfter <= Slack(t, K) * ReleaseAfter /\ Slack(t, K) * ReleaseAfter \in Int
    BY <2>1, <2>2, MoreIsMore, Numbers
  <2> QED
    BY <2>1, <2>2, <2>3, Numbers
<1> QED
  BY <1>1, <1>5, <1>6 DEF Lone, LockIsFree

(* It dies: every slice can wait until the lock it left has expired.       *)
LEMMA DieKeepsLone ==
    ASSUME QueueInv, NEW K, LimitSuffices(K), NEW w \in Workers, Lone(w, K), Die(w)
    PROVE  Lone(w, K)'
<1> USE DEF QueueInv
<1>1. worker'[w].step = "idle" /\ deaths' = deaths + 1 /\ UNCHANGED <<jobs, lock, batch>>
  BY DEF Die, TypeOK, Idle
<1>2. SlackOutlasts(w, K)'
  <2> SUFFICES ASSUME NEW t \in Slices, jobs[t].there
               PROVE  /\ Slack(t, K)' >= 0
                      /\ lock.left <= jobs[t].timer + Slack(t, K)' * ReleaseAfter
    BY <1>1 DEF SlackOutlasts, At
  <2>1. Slack(t, K) >= -1 /\ K \in Nat
    BY SlackIsInt DEF Lone, SlackOutlasts, LimitSuffices
  <2>2. Slack(t, K)' = Slack(t, K) + K + 1
    <3>1. deaths \in Nat
      BY Numbers DEF TypeOK
    <3>2. (deaths + 1) * (K + 1) = deaths * (K + 1) + K + 1
      BY <2>1, <3>1, Excused
    <3> QED
      BY <1>1, <2>1, <3>2, SlackIsInt DEF Slack
  <2>3. Slack(t, K)' \in Int /\ K <= Slack(t, K)'
    BY <2>1, <2>2, SlackIsInt
  <2>4. K * ReleaseAfter <= Slack(t, K)' * ReleaseAfter
        /\ K * ReleaseAfter \in Nat /\ Slack(t, K)' * ReleaseAfter \in Int
    BY <2>1, <2>3, MoreIsMore, Numbers
  <2>5. lock.left <= K * ReleaseAfter /\ jobs[t].timer \in Nat /\ lock.left \in Nat
    BY <2>1, <2>4, SlackIsInt, Numbers DEF LimitSuffices
  <2> QED
    BY <2>1, <2>3, <2>4, <2>5
<1> QED
  BY <1>1, <1>2 DEF Lone, LockIsFree

(* Time passes: no slice waits longer than the lock lasts.                 *)
LEMMA TickKeepsLone ==
    ASSUME QueueInv, NEW K, LimitSuffices(K), NEW w \in Workers, Lone(w, K), Tick
    PROVE  Lone(w, K)'
<1> USE DEF QueueInv
<1>1. worker[w].step \in {"idle", "reading"} /\ worker[w] \in Worker
  BY DEF Tick, TypeOK
<1>2. /\ worker'[w].step = worker[w].step
      /\ worker[w].step # "idle" => worker'[w].slice = worker[w].slice /\ worker'[w].owns = worker[w].owns
  BY <1>1 DEF Tick, Worker, Idle
<1>3. /\ \A s \in Slices : /\ jobs'[s].there = jobs[s].there
                          /\ jobs'[s].attempts = jobs[s].attempts
                          /\ jobs'[s].timer = Less(jobs[s].timer)
      /\ UNCHANGED <<batch, deaths>>
  BY DEF Tick, TypeOK, Job
<1>4. /\ lock' = IF lock.left <= 1 THEN Free ELSE [lock EXCEPT !.left = lock.left - 1]
      /\ lock.left \in Nat
  BY Numbers DEF Tick, TypeOK
<1>5. LockIsFree' \/ (lock'.owner = w /\ lock'.left > 0)
  BY <1>4 DEF Lone, LockIsFree, Free, TypeOK
<1>6. lock'.left = Less(lock.left)
  BY <1>4 DEF Free, Less, TypeOK
<1>7. SlackOutlasts(w, K)'
  <2> SUFFICES ASSUME NEW s \in Slices, jobs'[s].there
               PROVE  /\ At(w, s)' => Slack(s, K)' >= -1
                      /\ ~At(w, s)' => Slack(s, K)' >= 0
                      /\ worker'[w].step = "idle"
                            => lock'.left <= jobs'[s].timer + Slack(s, K)' * ReleaseAfter
    BY DEF SlackOutlasts
  <2>1. jobs[s].there /\ Slack(s, K)' = Slack(s, K) /\ (At(w, s)' <=> At(w, s))
    BY <1>2, <1>3 DEF Slack, At
  <2>2. ASSUME worker[w].step = "idle"
        PROVE  lock'.left <= jobs'[s].timer + Slack(s, K) * ReleaseAfter
    <3>1. /\ lock.left <= jobs[s].timer + Slack(s, K) * ReleaseAfter
          /\ Slack(s, K) >= 0 /\ Slack(s, K) \in Int /\ jobs[s].timer \in Nat
      BY <2>1, <2>2, SlackIsInt DEF Lone, SlackOutlasts, At, LimitSuffices
    <3>2. 0 * ReleaseAfter <= Slack(s, K) * ReleaseAfter /\ Slack(s, K) * ReleaseAfter \in Int
      BY <3>1, MoreIsMore, Numbers
    <3> DEFINE wait == Slack(s, K) * ReleaseAfter
    <3>3. wait \in Int /\ wait >= 0 /\ lock.left <= jobs[s].timer + wait
      BY <3>1, <3>2, Numbers
    <3> HIDE DEF wait
    <3>4. Less(lock.left) <= Less(jobs[s].timer) + wait
      BY <1>4, <3>1, <3>3 DEF Less
    <3> QED
      BY <1>3, <1>6, <3>4 DEF wait
  <2> QED
    BY <1>2, <2>1, <2>2 DEF Lone, SlackOutlasts
<1> QED
  BY <1>1, <1>2, <1>3, <1>5, <1>7 DEF Lone

(* Every step of an import with one worker keeps its slack.                *)
LEMMA NextKeepsLone ==
    ASSUME QueueInv, NEW K, LimitSuffices(K), LoneInv(K), [Next]_vars
    PROVE  LoneInv(K)'
<1>1. crew' = crew
  BY DEF Next, Work, vars, Begin, PutBack, Overflow, Read, Unlock, Record, Finally, Delete, Die, Tick
<1> SUFFICES ASSUME NEW w \in Workers, crew = {w} PROVE Lone(w, K)'
  BY <1>1 DEF LoneInv
<1>2. Lone(w, K)
  BY DEF LoneInv
<1>3. ASSUME NEW v \in Workers, NEW s \in Slices, Begin(v, s) \/ PutBack(v, s) \/ Overflow(v, s)
      PROVE  Lone(w, K)'
  <2>1. v = w
    BY <1>3, LoneActs DEF QueueInv, Begin, PutBack, Overflow, CanTake
  <2> QED
    BY <1>2, <1>3, <2>1, BeginKeepsLone, PutBackKeepsLone, LoneNeverOverflows
<1>4. ASSUME NEW v \in Workers, Read(v) \/ Unlock(v) \/ Record(v) \/ Finally(v) \/ Delete(v) \/ Die(v)
      PROVE  Lone(w, K)'
  <2>1. v = w
    BY <1>4, LoneActs DEF QueueInv, Read, Unlock, Record, Finally, Delete, Die
  <2> QED
    BY <1>2, <1>4, <2>1, GoingOnKeepsLone, DeleteKeepsLone, DieKeepsLone
<1>5. CASE Tick
  BY <1>2, <1>5, TickKeepsLone
<1>6. CASE UNCHANGED vars
  BY <1>2, <1>6 DEF vars, Lone, LockIsFree, SlackOutlasts, Slack, At
<1> QED
  BY <1>3, <1>4, <1>5, <1>6 DEF Next, Work

(* No attempt has been made yet.                                           *)
LEMMA InitIsLone ==
    ASSUME NEW K, LimitSuffices(K), Init
    PROVE  LoneInv(K)
<1> SUFFICES ASSUME NEW w \in Workers PROVE Lone(w, K)
  BY DEF LoneInv
<1>1. LockIsFree /\ lock.left = 0 /\ batch.failed = 0 /\ worker[w].step = "idle"
  BY DEF Init, LockIsFree, Free, Idle
<1>2. \A s \in Slices : Slack(s, K) = 0 /\ jobs[s].timer = 0
  BY DEF Init, Slack, LimitSuffices
<1>3. SlackOutlasts(w, K)
  BY <1>1, <1>2, Numbers DEF SlackOutlasts, At
<1> QED
  BY <1>1, <1>3 DEF Lone

(* With one worker, waiting for the lock a dead one left uses up the       *)
(* attempts of no slice, as long as the column holds those the deaths may  *)
(* cost: at most 36 deaths with the periods and the column of the code.    *)
THEOREM QueueOneWorker ==
    ASSUME NEW CONSTANT K, LimitSuffices(K)
    PROVE  Spec => []OneWorkerFailsNoSlice
<1>1. Init => LoneInv(K)
  BY InitIsLone
<1>2. QueueInv /\ LoneInv(K) /\ [Next]_vars => LoneInv(K)'
  BY NextKeepsLone
<1>3. LoneInv(K) => OneWorkerFailsNoSlice
  BY DEF LoneInv, Lone, OneWorkerFailsNoSlice, Alone
<1> QED
  BY <1>1, <1>2, <1>3, QueueInvariant, PTL DEF Spec

=============================================================================
