------------------------- MODULE ImportQueueReading -------------------------
(***************************************************************************)
(* The queue of slices implements SliceReading.                            *)
(***************************************************************************)
EXTENDS ImportQueue

(* The refinement mapping: a slice is queued while its row is there, and   *)
(* spent when its attempts are; who reads is late when his time is up; and *)
(* what disturbs is a death, or a slow slice while another worker runs.    *)
queuedSlices == {s \in Slices : jobs[s].there}
spentSlices == {s \in Slices : Overflowed(s)}
readSlices == {s \in Slices : read[s] > 0}
rereadSlices == {s \in Slices : read[s] > 1}
readBy == [w \in Workers |-> IF worker[w].step = "reading" THEN worker[w].slice ELSE NoSlice]
lateWorkers == {w \in Workers : worker[w].step = "reading" /\ worker[w].time = LockExpires}
Disturbed == deaths > 0 \/ (slow /\ ~Alone)

R == INSTANCE SliceReading WITH
        queued <- queuedSlices, at <- readBy, late <- lateWorkers,
        through <- readSlices, again <- rereadSlices, spent <- spentSlices,
        disturbed <- Disturbed, completed <- import.completed

(* Whatever the workers, their clocks and their deaths do, the slices are  *)
(* read, left and counted the way SliceReading allows.                     *)
ImplementsReading == R!ReadingSpec

=============================================================================
