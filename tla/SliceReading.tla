---------------------------- MODULE SliceReading ----------------------------
(***************************************************************************)
(* What the queue of an import promises, without rows of `jobs`, clocks or *)
(* a batch: slices are read one at a time, but for workers who outstayed   *)
(* the lock; a slice stays queued until it was read or can be tried no     *)
(* more; it is read again only after something went wrong; and the import  *)
(* is not complete before every slice ended, unless one ended twice.       *)
(***************************************************************************)
CONSTANTS Slices, Workers, NoSlice

VARIABLES
    queued,    \* the slices still in the queue
    at,        \* the slice each worker is reading
    late,      \* the workers who outstayed the lock
    through,   \* the slices read to their end
    again,     \* those of them that were read again
    spent,     \* the slices that may not be tried once more
    disturbed, \* a worker died, or a slice was taken from under another
    completed

readingVars == <<queued, at, late, through, again, spent, disturbed, completed>>

Reading == {w \in Workers : at[w] # NoSlice}
Leaves(w) == at' = [at EXCEPT ![w] = NoSlice] /\ late' = late \ {w}

(* Every slice ended, or one ended twice and was counted for another.      *)
MayBeComplete ==
    \/ queued \subseteq through \cup spent
    \/ again # {} \/ through \cap spent # {}

-----------------------------------------------------------------------------
ReadingInit ==
    /\ queued = Slices
    /\ at = [w \in Workers |-> NoSlice]
    /\ {late, through, again, spent} = {{}}
    /\ disturbed = FALSE
    /\ completed = FALSE

(* Each try may be the last.                                               *)
Try(s) == s \in queued \ spent /\ spent' \in {spent, spent \cup {s}}

Begin(w, s) ==
    /\ Try(s)
    /\ w \notin Reading
    /\ Reading \subseteq late
    /\ at' = [at EXCEPT ![w] = s]
    /\ UNCHANGED <<queued, late, through, again, disturbed, completed>>

TryInVain(s) ==
    /\ Try(s)
    /\ UNCHANGED <<queued, at, late, through, again, disturbed, completed>>

Finish(w) ==
    /\ w \in Reading
    /\ at[w] \in through => disturbed
    /\ Leaves(w)
    /\ through' = through \cup {at[w]}
    /\ again' = again \cup ({at[w]} \cap through)
    /\ UNCHANGED <<queued, spent, disturbed, completed>>

(* A slice leaves the queue, and the import may be complete by that.       *)
Leave(s) ==
    /\ s \in queued \cap (through \cup spent)
    /\ queued' = queued \ {s}
    /\ completed' \in {completed, completed \/ MayBeComplete}
    /\ UNCHANGED <<at, late, through, again, spent, disturbed>>

Complete ==
    /\ MayBeComplete
    /\ completed' = TRUE
    /\ UNCHANGED <<queued, at, late, through, again, spent, disturbed>>

Die(w) ==
    /\ Leaves(w)
    /\ disturbed' = TRUE
    /\ UNCHANGED <<queued, through, again, spent, completed>>

(* Time passes over those who read.                                        *)
Outstay ==
    /\ Reading # {}
    /\ late \subseteq late' /\ late' \in SUBSET Reading
    /\ disturbed' \in {disturbed, TRUE}
    /\ UNCHANGED <<queued, at, through, again, spent, completed>>

ReadingNext ==
    \/ \E s \in Slices : TryInVain(s) \/ Leave(s)
    \/ \E w \in Workers : Finish(w) \/ Die(w) \/ \E s \in Slices : Begin(w, s)
    \/ Complete
    \/ Outstay

ReadingSpec == ReadingInit /\ [][ReadingNext]_readingVars

=============================================================================
