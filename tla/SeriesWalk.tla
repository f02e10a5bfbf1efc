----------------------------- MODULE SeriesWalk -----------------------------
(***************************************************************************)
(* The walk of descendants() in app/Models/Series.php, which the edit page *)
(* and the import call through disallowedParentIds(). SeriesTree says what *)
(* the walk gives (Below); here is how it goes.                            *)
(***************************************************************************)
EXTENDS SeriesTree

(* A call is at some point of its loop over the children of a series: todo *)
(* is what the loop has not come to, seen the list that all calls share.   *)
Calls == [todo : SUBSET Series, seen : SUBSET Series]

(* What is seen when the loop ends. A child seen before is passed over;    *)
(* any other is marked, and the loop over its own children runs first.     *)
Loop(of, hidden, visit, call) ==
    LET c == CHOOSE c \in call.todo : TRUE
        others(seen) == visit[[todo |-> call.todo \ {c}, seen |-> seen]] IN
    IF call.todo = {} THEN call.seen
    ELSE IF c \in call.seen THEN others(call.seen)
    ELSE others(visit[[todo |-> Children(of, hidden, c), seen |-> call.seen \cup {c}]])

Visit(of, hidden) ==
    LET visit[call \in Calls] == Loop(of, hidden, visit, call) IN visit

(* Mutant: the series itself is not marked as visited.                     *)
DescendantsUnmarked(of, hidden, s) ==
    Visit(of, hidden)[[todo |-> Children(of, hidden, s), seen |-> {}]]

Descendants(of, hidden, s) ==
    Visit(of, hidden)[[todo |-> Children(of, hidden, s), seen |-> {s}]] \ {s}

(* descendants() ends and gives every series below that is reached through *)
(* series not archived, and never the series itself, loops or not: on the  *)
(* tables, and on what a slice sees with its own rows written.             *)
DescendantsAreThoseBelow ==
    LET right(of, hidden) ==
            \A s \in Series : Descendants(of, hidden, s) = Below(of, hidden, s) \ {s}
    IN /\ right(parent, archived)
       /\ \A r \in Requests : Is(r, "slice") => right(request[r].parent, request[r].archived)

=============================================================================
