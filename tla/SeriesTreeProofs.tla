-------------------------- MODULE SeriesTreeProofs --------------------------
(***************************************************************************)
(* Proofs about the hierarchy of series: the tables and the requests keep  *)
(* their types, and one save or one import after the other builds no loop  *)
(* that its check could see.                                               *)
(*                                                                         *)
(* What is above and what is below a series are least sets, so every fact  *)
(* about them comes from a set closed under the relation. That the walk of *)
(* the code gives the set below takes induction, on how much is left to    *)
(* see.                                                                    *)
(***************************************************************************)
EXTENDS SeriesWalk, FiniteSetTheorems, TLAPS

-----------------------------------------------------------------------------
(* The tree                                                                *)

Parents == [Series -> Series \cup {NoSeries}]

(* S holds the parent of s and the parents of its members.                 *)
ClosedAbove(of, s, S) == \A x \in S \cup {s} : of[x] \in S \cup {NoSeries}

(* What is above a series is closed, and the least such set.               *)
LEMMA AboveIsClosed ==
    ASSUME NEW of \in Parents, NEW s \in Series
    PROVE  /\ Above(of, s) \subseteq Series
           /\ ClosedAbove(of, s, Above(of, s))
<1>1. Above(of, s) \subseteq Series
  BY DEF Above
<1>2. ASSUME NEW x \in Above(of, s) \cup {s}, of[x] # NoSeries
      PROVE  of[x] \in Above(of, s)
  <2>1. of[x] \in Series
    BY <1>1, <1>2 DEF Parents
  <2>2. ASSUME NEW S \in SUBSET Series, ClosedAbove(of, s, S)
        PROVE  of[x] \in S
    <3>1. x \in S \cup {s}
      BY <2>2 DEF Above, ClosedAbove
    <3>2. QED
      BY <1>2, <2>2, <3>1 DEF ClosedAbove
  <2>3. QED
    BY <2>1, <2>2 DEF Above, ClosedAbove
<1>3. QED
  BY <1>1, <1>2 DEF ClosedAbove

LEMMA AboveIsLeast ==
    ASSUME NEW of, NEW s, NEW S \in SUBSET Series, ClosedAbove(of, s, S)
    PROVE  Above(of, s) \subseteq S
BY DEF Above, ClosedAbove

(* What is above s is its parent and what is above the parent.             *)
LEMMA AboveUnfolds ==
    ASSUME NEW of \in Parents, NEW s \in Series, NEW a \in Above(of, s)
    PROVE  /\ of[s] \in Series
           /\ a = of[s] \/ a \in Above(of, of[s])
<1>1. of[s] \in Series
  <2>1. CASE of[s] = NoSeries
    <3>1. ClosedAbove(of, s, {})
      BY <2>1 DEF ClosedAbove
    <3>2. QED
      BY <3>1, AboveIsLeast
  <2>2. QED
    BY <2>1 DEF Parents
<1> DEFINE S == {of[s]} \cup Above(of, of[s])
<1>2. S \in SUBSET Series /\ ClosedAbove(of, of[s], Above(of, of[s]))
  BY <1>1, AboveIsClosed
<1>3. ClosedAbove(of, s, S)
  BY <1>2 DEF ClosedAbove
<1>4. QED
  BY <1>1, <1>2, <1>3, AboveIsLeast

(* On a loop each series is above each other one.                          *)
LEMMA LoopReturns ==
    ASSUME NEW of \in Parents, NEW t \in OnLoops(of), NEW x \in Above(of, t)
    PROVE  t \in Above(of, x)
<1> DEFINE G == {y \in Above(of, t) : t \in Above(of, y)}
<1>1. t \in Series /\ t \in Above(of, t)
  BY DEF OnLoops
<1>2. ClosedAbove(of, t, Above(of, t)) /\ Above(of, t) \subseteq Series
  BY <1>1, AboveIsClosed
<1>3. ASSUME NEW y \in G \cup {t}
      PROVE  of[y] \in G
  <2>1. y \in Series /\ t \in Above(of, y) /\ y \in Above(of, t)
    BY <1>1, <1>2
  <2>2. of[y] \in Series /\ (t = of[y] \/ t \in Above(of, of[y]))
    BY <2>1, AboveUnfolds
  <2>3. of[y] \in Above(of, t)
    BY <1>2, <2>1, <2>2, SeriesAssumption DEF ClosedAbove
  <2>4. QED
    BY <1>1, <2>2, <2>3
<1>4. ClosedAbove(of, t, G)
  BY <1>3 DEF ClosedAbove
<1>5. G \in SUBSET Series
  BY <1>2
<1> HIDE DEF G
<1>6. Above(of, t) \subseteq G
  BY <1>4, <1>5, AboveIsLeast
<1>7. QED
  BY <1>6 DEF G

(* What is below s holds the children of s and of its members.             *)
LEMMA BelowIsClosed ==
    ASSUME NEW of \in Parents, NEW hidden, NEW s \in Series,
           NEW c \in Series \ hidden, of[c] \in Below(of, hidden, s) \cup {s}
    PROVE  c \in Below(of, hidden, s)
<1>1. ASSUME NEW S \in SUBSET Series,
             \A x \in S \cup {s} : Children(of, hidden, x) \subseteq S
      PROVE  c \in S
  <2>1. of[c] \in S \cup {s}
    BY <1>1 DEF Below
  <2>2. c \in Children(of, hidden, of[c])
    BY DEF Children
  <2>3. QED
    BY <1>1, <2>1, <2>2
<1>2. QED
  BY <1>1 DEF Below

(* A loop that does not pass through s was there before s was moved.       *)
LEMMA LoopElsewhere ==
    ASSUME NEW of \in Parents, NEW of2 \in Parents, NEW s \in Series,
           \A x \in Series \ {s} : of2[x] = of[x],
           NEW t \in OnLoops(of2), s \notin Above(of2, t)
    PROVE  /\ t \in OnLoops(of)
           /\ Above(of, t) = Above(of2, t)
<1>1. t \in Series /\ t \in Above(of2, t)
  BY DEF OnLoops
<1>2. ClosedAbove(of2, t, Above(of2, t)) /\ Above(of2, t) \subseteq Series
  BY <1>1, AboveIsClosed
<1>3. ClosedAbove(of, t, Above(of2, t))
  BY <1>1, <1>2 DEF ClosedAbove
<1>4. Above(of, t) \subseteq Above(of2, t)
  BY <1>2, <1>3, AboveIsLeast
<1>5. ClosedAbove(of, t, Above(of, t)) /\ Above(of, t) \subseteq Series
  BY <1>1, AboveIsClosed
<1>6. ClosedAbove(of2, t, Above(of, t))
  BY <1>1, <1>4, <1>5 DEF ClosedAbove
<1>7. Above(of2, t) \subseteq Above(of, t)
  BY <1>5, <1>6, AboveIsLeast
<1>8. t \in Above(of, t)
  BY <1>1, <1>7
<1>9. QED
  BY <1>1, <1>4, <1>7, <1>8 DEF OnLoops

(* A move that the check allows closes no loop of series that it sees.     *)
LEMMA AllowedMoveClosesNoLoop ==
    ASSUME NEW of \in Parents, NEW hidden, NEW s \in Series, NEW p \in Series,
           MayPutUnder(of, hidden, s, p),
           NEW of2 \in Parents, of2[s] = p, \A x \in Series \ {s} : of2[x] = of[x],
           NEW t \in OnLoops(of2), Above(of2, t) \cap hidden = {}
    PROVE  /\ t \in OnLoops(of)
           /\ Above(of, t) = Above(of2, t)
<1> DEFINE T == Above(of2, t)
           B == Below(of, hidden, s) \cup {s}
           U == T \ B
<1>2. T \cap hidden = {}
  OBVIOUS
<1>3. p \notin B
  BY DEF MayPutUnder, Disallowed
<1>4. \A c \in Series \ hidden : of[c] \in B => c \in B
  BY BelowIsClosed
<1>5. s \in B
  OBVIOUS
<1>1. ASSUME s \notin T
       PROVE  t \in OnLoops(of) /\ Above(of, t) = T
  BY <1>1, LoopElsewhere
<1>6. SUFFICES ASSUME s \in T PROVE FALSE
  BY <1>1, Zenon
<1> HIDE DEF B
<1>7. t \in Series /\ t \in T
  BY <1>2 DEF OnLoops
<1>8. ClosedAbove(of2, t, T) /\ T \subseteq Series
  BY <1>7, AboveIsClosed
<1>9. \A x \in U : of2[x] \in U \cup {NoSeries}
  BY <1>2, <1>4, <1>5, <1>8 DEF ClosedAbove
<1>10. t \in Above(of2, s)
  BY <1>2, <1>6, LoopReturns
<1>11. t = p \/ t \in Above(of2, p)
  BY <1>10, AboveUnfolds
<1>12. p \in U
  BY <1>3, <1>6, <1>8, SeriesAssumption DEF ClosedAbove
<1>13. ClosedAbove(of2, p, U)
  BY <1>9, <1>12 DEF ClosedAbove
<1>14. U \in SUBSET Series
  BY <1>8
<1> HIDE DEF T, U
<1>15. t \in U
  BY <1>11, <1>12, <1>13, <1>14, AboveIsLeast
<1>16. ClosedAbove(of2, t, U)
  BY <1>9, <1>15 DEF ClosedAbove
<1>17. T \subseteq U
  BY <1>14, <1>16, AboveIsLeast DEF T
<1>18. QED
  BY <1>5, <1>6, <1>17 DEF U

(* Put at the top level, a series closes no loop.                          *)
LEMMA TopLevelClosesNoLoop ==
    ASSUME NEW of \in Parents, NEW s \in Series,
           NEW of2 \in Parents, of2[s] = NoSeries, \A x \in Series \ {s} : of2[x] = of[x],
           NEW t \in OnLoops(of2)
    PROVE  t \in OnLoops(of)
<1>2. SUFFICES ASSUME s \in Above(of2, t) PROVE FALSE
  BY LoopElsewhere
<1>3. t \in Above(of2, s)
  BY <1>2, LoopReturns
<1>4. QED
  BY <1>3, AboveUnfolds, SeriesAssumption

-----------------------------------------------------------------------------
(* The invariant                                                           *)

(* Only what is on a loop is excused, so an excuse does not outlive it.    *)
ExcusedAreOnLoops == excused \subseteq OnLoops(parent)

(* Of a request since whose first read no other has written. What a page   *)
(* has checked still holds.                                                *)
CheckedPageHolds(r) ==
    Is(r, "page") => MayPutUnder(parent, archived, request[r].series, request[r].to)

(* A slice sees the tables with its own rows written.                      *)
SliceSeesTheTables(r) ==
    Is(r, "slice") =>
        /\ request[r].archived = archived \ request[r].revived
        /\ \A s \in Series \ request[r].moved : request[r].parent[s] = parent[s]

(* What a slice is about to leave on a loop was there, or passes through a *)
(* series that was archived.                                               *)
SliceClosesNoLoop(r) ==
    Is(r, "slice") =>
        \A t \in OnLoops(request[r].parent) :
            \/ t \in excused
            \/ Above(request[r].parent, t) \cap (request[r].archived \cup request[r].revived) # {}

UpToDate(r) == CheckedPageHolds(r) /\ SliceSeesTheTables(r) /\ SliceClosesNoLoop(r)

TreeInv ==
    /\ TypeOK
    /\ LoopsWereOutOfSight
    /\ ExcusedAreOnLoops
    /\ \A r \in Requests \ outdated : UpToDate(r)

(* A request is of its kind.                                               *)
LEMMA Kinds ==
    ASSUME TypeOK, NEW r \in Requests
    PROVE  /\ Is(r, "idle") <=> request[r] = Idle
           /\ Is(r, "page") <=> request[r] \in Page
           /\ Is(r, "slice") <=> request[r] \in Slice
<1>1. request[r] = Idle \/ request[r] \in Page \/ request[r] \in Slice
  BY DEF TypeOK
<1>2. QED
  BY <1>1 DEF Is, Idle, Page, Slice

LEMMA InitInv == Init => TreeInv
<1> SUFFICES ASSUME Init PROVE TreeInv
  OBVIOUS
<1>1. TypeOK
  BY DEF Init, TypeOK
<1>2. OnLoops(parent) = {}
  <2>1. ASSUME NEW s \in OnLoops(parent)
        PROVE  FALSE
    <3>1. parent \in Parents /\ s \in Series /\ s \in Above(parent, s) /\ parent[s] = NoSeries
      BY DEF Init, OnLoops, Parents
    <3>2. QED
      BY <3>1, AboveUnfolds, SeriesAssumption
  <2>2. QED
    BY <2>1
<1>3. \A r \in Requests : ~Is(r, "page") /\ ~Is(r, "slice")
  BY DEF Init, Is, Idle
<1>4. QED
  BY <1>1, <1>2, <1>3 DEF TreeInv, LoopsWereOutOfSight, ExcusedAreOnLoops, UpToDate, CheckedPageHolds,
     SliceSeesTheTables, SliceClosesNoLoop, Init

(* The step that ends r and may write the tables, whatever it writes: if   *)
(* what it leaves on a loop is excused or due to be, the invariant holds.  *)
LEMMA NoteKeepsInv ==
    ASSUME TreeInv, NEW r \in Requests, NEW revived, Note(r, revived),
           parent' \in Parents, archived' \subseteq Series,
           request' = [request EXCEPT ![r] = Idle],
           \A t \in OnLoops(parent') :
               \/ t \in excused \/ r \in outdated
               \/ Above(parent', t) \cap (archived' \cup revived) # {}
    PROVE  TreeInv'
<1> USE DEF TreeInv
<1>1. \A q \in Requests : /\ request'[q] = IF q = r THEN Idle ELSE request[q]
                          /\ request'[q].kind # "idle" => q # r /\ request'[q] = request[q]
  BY DEF TypeOK, Idle
<1>2. OnLoops(parent') \subseteq Series
  BY DEF OnLoops
<1>3. excused' = OnLoops(parent')
  BY DEF Note
<1>4. TypeOK'
  <2>1. request' \in [Requests -> {Idle} \cup Page \cup Slice]
    BY DEF TypeOK
  <2>2. outdated' \subseteq Requests
    BY DEF Note, TypeOK
  <2>3. QED
    BY <1>2, <1>3, <2>1, <2>2 DEF TypeOK, Parents
<1>5. LoopsWereOutOfSight' /\ ExcusedAreOnLoops'
  BY <1>3 DEF LoopsWereOutOfSight, ExcusedAreOnLoops
<1>6. CASE <<parent, archived>>' # <<parent, archived>>
  <2>1. \A q \in Requests \ outdated' : ~Is(q, "page")' /\ ~Is(q, "slice")'
    BY <1>6 DEF Note, Is
  <2>2. QED
    BY <1>4, <1>5, <2>1 DEF UpToDate, CheckedPageHolds, SliceSeesTheTables, SliceClosesNoLoop
<1>7. CASE parent' = parent /\ archived' = archived
  <2>1. excused \subseteq excused'
    BY <1>3, <1>7 DEF ExcusedAreOnLoops
  <2>2. outdated' = {q \in outdated : request'[q].kind # "idle"}
    BY <1>7 DEF Note
  <2>3. ASSUME NEW q \in Requests \ outdated'
        PROVE  UpToDate(q)'
    <3>1. CASE request'[q].kind = "idle"
      BY <3>1 DEF UpToDate, CheckedPageHolds, SliceSeesTheTables, SliceClosesNoLoop, Is
    <3>2. CASE request'[q].kind # "idle"
      <4>1. q \notin outdated /\ request'[q] = request[q]
        BY <1>1, <2>2, <3>2
      <4>2. UpToDate(q)
        BY <4>1
      <4>3. QED
        BY <1>7, <2>1, <4>1, <4>2
        DEF UpToDate, CheckedPageHolds, SliceSeesTheTables, SliceClosesNoLoop, Is
    <3>3. QED
      BY <3>1, <3>2
  <2>4. QED
    BY <1>4, <1>5, <2>3
<1>8. QED
  BY <1>6, <1>7

(* A step of r that writes no table keeps the invariant when it keeps what *)
(* the invariant says of r.                                                *)
LEMMA OwnStepKeepsInv ==
    ASSUME TreeInv, NEW r \in Requests, UNCHANGED <<parent, archived, excused>>,
           NEW to \in {Idle} \cup Page \cup Slice,
           request' = [request EXCEPT ![r] = to],
           outdated' \in {outdated, outdated \ {r}},
           r \notin outdated' => UpToDate(r)'
    PROVE  TreeInv'
<1> USE DEF TreeInv
<1>1. TypeOK'
  BY DEF TypeOK
<1>2. LoopsWereOutOfSight' /\ ExcusedAreOnLoops'
  BY DEF LoopsWereOutOfSight, ExcusedAreOnLoops
<1>3. ASSUME NEW q \in Requests \ outdated', q # r
      PROVE  UpToDate(q)'
  <2>1. UpToDate(q) /\ request'[q] = request[q]
    BY <1>3 DEF TypeOK
  <2>2. QED
    BY <2>1 DEF UpToDate, CheckedPageHolds, SliceSeesTheTables, SliceClosesNoLoop, Is
<1>4. QED
  BY <1>1, <1>2, <1>3

-----------------------------------------------------------------------------
(* The edit page                                                           *)

LEMMA CheckPageInv ==
    ASSUME TreeInv, NEW r \in Requests, NEW s \in Series, NEW p \in Series, CheckPage(r, s, p)
    PROVE  TreeInv'
<1> DEFINE to == [kind |-> "page", series |-> s, to |-> p]
<1>1. to \in Page /\ request' = [request EXCEPT ![r] = to]
  BY DEF CheckPage, Page
<1>2. request'[r] = to
  BY <1>1 DEF TreeInv, TypeOK
<1>3. CheckedPageHolds(r)'
  BY <1>2 DEF CheckedPageHolds, CheckPage
<1>4. ~Is(r, "slice")'
  BY <1>2 DEF Is
<1>5. UpToDate(r)'
  BY <1>3, <1>4 DEF UpToDate, SliceSeesTheTables, SliceClosesNoLoop
<1> HIDE DEF to
<1>6. QED
  BY <1>1, <1>5, OwnStepKeepsInv DEF CheckPage

(* The page put its series under one that, if nobody wrote since, was not  *)
(* below it: a loop that is left anew passes through an archived series.   *)
LEMMA SavePageInv ==
    ASSUME TreeInv, NEW r \in Requests, SavePage(r)
    PROVE  TreeInv'
<1> DEFINE s == request[r].series
           p == request[r].to
<1>1. request[r] \in Page
  BY Kinds DEF SavePage, TreeInv
<1>2. s \in Series /\ p \in Series
  BY <1>1 DEF Page
<1>3. parent \in Parents /\ parent' = [parent EXCEPT ![s] = p]
  BY DEF TreeInv, TypeOK, SavePage, Parents
<1>4. /\ parent' \in Parents /\ parent'[s] = p
      /\ \A x \in Series \ {s} : parent'[x] = parent[x]
  BY <1>2, <1>3 DEF Parents
<1>5. r \notin outdated => MayPutUnder(parent, archived, s, p)
  BY DEF TreeInv, UpToDate, CheckedPageHolds, SavePage
<1> HIDE DEF s, p
<1>6. ASSUME NEW t \in OnLoops(parent'), t \notin excused, r \notin outdated
      PROVE  Above(parent', t) \cap (archived' \cup {}) # {}
  <2>1. t \notin OnLoops(parent)
    BY <1>6 DEF TreeInv, LoopsWereOutOfSight
  <2>2. Above(parent', t) \cap archived # {}
    BY <1>2, <1>3, <1>4, <1>5, <1>6, <2>1, AllowedMoveClosesNoLoop
  <2>3. QED
    BY <2>2 DEF SavePage
<1>7. /\ Note(r, {}) /\ archived' \subseteq Series
      /\ request' = [request EXCEPT ![r] = Idle]
  BY DEF SavePage, TreeInv, TypeOK
<1>8. QED
  BY <1>4, <1>6, <1>7, NoteKeepsInv

LEMMA TouchInv ==
    ASSUME TreeInv, NEW r \in Requests, NEW s \in Series, Touch(r, s)
    PROVE  TreeInv'
<1>1. parent \in Parents /\ request[r] = Idle
  BY Kinds DEF TreeInv, TypeOK, Parents, Touch
<1>2. request' = [request EXCEPT ![r] = Idle]
  BY <1>1 DEF TreeInv, TypeOK, Touch
<1>3. parent' \in Parents /\ OnLoops(parent') \subseteq OnLoops(parent)
  <2>1. CASE parent' = [parent EXCEPT ![s] = NoSeries]
    <3>1. /\ parent' \in Parents /\ parent'[s] = NoSeries
          /\ \A x \in Series \ {s} : parent'[x] = parent[x]
      BY <1>1, <2>1 DEF Parents
    <3>2. QED
      BY <1>1, <3>1, TopLevelClosesNoLoop
  <2>2. CASE parent' = parent
    BY <1>1, <2>2
  <2>3. QED
    BY <2>1, <2>2 DEF Touch
<1>4. \A t \in OnLoops(parent') : t \in excused
  BY <1>3 DEF TreeInv, LoopsWereOutOfSight
<1>5. archived' \subseteq Series /\ Note(r, {})
  BY DEF TreeInv, TypeOK, Touch
<1>6. QED
  BY <1>2, <1>3, <1>4, <1>5, NoteKeepsInv

-----------------------------------------------------------------------------
(* The import                                                              *)

LEMMA BeginSliceInv ==
    ASSUME TreeInv, NEW r \in Requests, BeginSlice(r)
    PROVE  TreeInv'
<1> DEFINE to == [kind |-> "slice", parent |-> parent, archived |-> archived,
                  moved |-> {}, revived |-> {}]
<1>1. to \in Slice /\ request' = [request EXCEPT ![r] = to]
  BY DEF BeginSlice, Slice, TreeInv, TypeOK
<1>2. request'[r] = to /\ UNCHANGED <<parent, archived, outdated, excused>>
  BY <1>1 DEF TreeInv, TypeOK, BeginSlice
<1>3. ~Is(r, "page")'
  BY <1>2 DEF Is
<1>4. SliceSeesTheTables(r)'
  BY <1>2 DEF SliceSeesTheTables
<1>5. SliceClosesNoLoop(r)'
  BY <1>2 DEF SliceClosesNoLoop, TreeInv, LoopsWereOutOfSight
<1>6. UpToDate(r)'
  BY <1>3, <1>4, <1>5 DEF UpToDate, CheckedPageHolds
<1> HIDE DEF to
<1>7. QED
  BY <1>1, <1>2, <1>6, OwnStepKeepsInv

(* A row puts s under p in what the slice sees. What was archived for its  *)
(* check is archived or revived after it.                                  *)
LEMMA RowWithParentInv ==
    ASSUME TreeInv, NEW r \in Requests, NEW s \in Series, NEW p \in Series, RowWithParent(r, s, p)
    PROVE  TreeInv'
<1> DEFINE was == request[r]
           to == [was EXCEPT !.parent[s] = p,
                      !.moved = IF was.parent[s] = p THEN @ ELSE @ \cup {s},
                      !.archived = @ \ {s},
                      !.revived = IF s \in was.archived THEN @ \cup {s} ELSE @]
<1>1. was \in Slice
  BY Kinds DEF TreeInv, RowWithParent
<1>2. /\ was.parent \in Parents /\ was.archived \subseteq Series
      /\ was.moved \subseteq Series /\ was.revived \subseteq Series
  BY <1>1 DEF Slice, Parents
<1>3. request' = [request EXCEPT ![r] = to]
  BY DEF RowWithParent
<1>4. /\ to.kind = "slice"
      /\ to.parent = [was.parent EXCEPT ![s] = p]
      /\ to.moved = IF was.parent[s] = p THEN was.moved ELSE was.moved \cup {s}
      /\ to.archived = was.archived \ {s}
      /\ to.revived = IF s \in was.archived THEN was.revived \cup {s} ELSE was.revived
  BY <1>1 DEF Slice
<1>5. to \in Slice
  <2>1. to.parent \in [Series -> Series \cup {NoSeries}]
    BY <1>2, <1>4 DEF Parents
  <2>2. to.moved \subseteq Series /\ to.archived \subseteq Series /\ to.revived \subseteq Series
    BY <1>2, <1>4
  <2>3. PICK f \in Parents, a \in SUBSET Series, m \in SUBSET Series, v \in SUBSET Series :
            was = [kind |-> "slice", parent |-> f, archived |-> a, moved |-> m, revived |-> v]
    BY <1>1 DEF Slice, Parents
  <2> HIDE DEF was
  <2>4. to = [x \in {"kind", "parent", "archived", "moved", "revived"} |-> to[x]]
    BY <2>3
  <2> HIDE DEF to
  <2>5. QED
    BY <1>4, <2>1, <2>2, <2>4 DEF Slice
<1>6. request'[r] = to /\ UNCHANGED <<parent, archived, outdated, excused>>
  BY <1>3 DEF TreeInv, TypeOK, RowWithParent
<1>7. MayPutUnder(was.parent, was.archived, s, p) /\ Is(r, "slice")
  BY DEF RowWithParent
<1> HIDE DEF was, to
<1>8. ASSUME r \notin outdated
      PROVE  UpToDate(r)'
  <2>1. SliceSeesTheTables(r) /\ SliceClosesNoLoop(r)
    BY <1>8 DEF TreeInv, UpToDate
  <2>2. to.parent \in Parents /\ to.parent[s] = p /\ \A x \in Series \ {s} : to.parent[x] = was.parent[x]
    BY <1>2, <1>4 DEF Parents
  <2>3. was.archived \subseteq to.archived \cup to.revived /\ was.revived \subseteq to.revived
    BY <1>4
  <2>4. SliceSeesTheTables(r)'
    <3>1. was.archived = archived \ was.revived
          /\ \A x \in Series \ was.moved : was.parent[x] = parent[x]
      BY <1>7, <2>1 DEF SliceSeesTheTables, was
    <3>2. to.archived = archived \ to.revived
      BY <1>4, <3>1
    <3>3. \A x \in Series \ to.moved : to.parent[x] = parent[x]
      BY <1>4, <2>2, <3>1
    <3>4. QED
      BY <1>6, <3>2, <3>3 DEF SliceSeesTheTables
  <2>5. ASSUME NEW t \in OnLoops(to.parent), t \notin excused
        PROVE  Above(to.parent, t) \cap (to.archived \cup to.revived) # {}
    <3>1. CASE Above(to.parent, t) \cap was.archived # {}
      BY <2>3, <3>1
    <3>2. CASE Above(to.parent, t) \cap was.archived = {}
      <4>1. t \in OnLoops(was.parent) /\ Above(was.parent, t) = Above(to.parent, t)
        BY <1>2, <1>7, <2>2, <3>2, AllowedMoveClosesNoLoop
      <4>2. Above(was.parent, t) \cap (was.archived \cup was.revived) # {}
        BY <1>7, <2>1, <2>5, <4>1 DEF SliceClosesNoLoop, was
      <4>3. QED
        BY <2>3, <4>1, <4>2
    <3>3. QED
      BY <3>1, <3>2
  <2>6. SliceClosesNoLoop(r)'
    BY <1>6, <2>5 DEF SliceClosesNoLoop
  <2>7. CheckedPageHolds(r)'
    BY <1>4, <1>6 DEF CheckedPageHolds, Is
  <2>8. QED
    BY <2>4, <2>6, <2>7 DEF UpToDate
<1>9. QED
  BY <1>3, <1>5, <1>6, <1>8, OwnStepKeepsInv

LEMMA RowRevivingInv ==
    ASSUME TreeInv, NEW r \in Requests, NEW s \in Series, RowReviving(r, s)
    PROVE  TreeInv'
<1> DEFINE was == request[r]
           to == [was EXCEPT !.archived = @ \ {s}, !.revived = @ \cup {s}]
<1>1. was \in Slice /\ Is(r, "slice")
  BY Kinds DEF TreeInv, RowReviving
<1>2. request' = [request EXCEPT ![r] = to]
  BY DEF RowReviving
<1>3. /\ to \in Slice /\ to.kind = "slice" /\ to.parent = was.parent /\ to.moved = was.moved
      /\ to.archived = was.archived \ {s} /\ to.revived = was.revived \cup {s}
  BY <1>1 DEF Slice
<1>4. request'[r] = to /\ UNCHANGED <<parent, archived, outdated, excused>>
  BY <1>2 DEF TreeInv, TypeOK, RowReviving
<1> HIDE DEF to
<1>5. ASSUME r \notin outdated
      PROVE  UpToDate(r)'
  <2>1. SliceSeesTheTables(r) /\ SliceClosesNoLoop(r)
    BY <1>5 DEF TreeInv, UpToDate
  <2>2. SliceSeesTheTables(r)'
    BY <1>1, <1>3, <1>4, <2>1 DEF SliceSeesTheTables
  <2>3. SliceClosesNoLoop(r)'
    BY <1>1, <1>3, <1>4, <2>1 DEF SliceClosesNoLoop
  <2>4. CheckedPageHolds(r)'
    BY <1>3, <1>4 DEF CheckedPageHolds, Is
  <2>5. QED
    BY <2>2, <2>3, <2>4 DEF UpToDate
<1>6. QED
  BY <1>2, <1>3, <1>4, <1>5, OwnStepKeepsInv

(* If nobody wrote since the slice began, what it commits is what it saw.  *)
LEMMA CommitSliceInv ==
    ASSUME TreeInv, NEW r \in Requests, CommitSlice(r)
    PROVE  TreeInv'
<1> DEFINE was == request[r]
<1>1. was \in Slice /\ Is(r, "slice")
  BY Kinds DEF TreeInv, CommitSlice
<1>2. /\ was.parent \in Parents /\ was.moved \subseteq Series /\ was.revived \subseteq Series
  BY <1>1 DEF Slice, Parents
<1>3. /\ parent' = [s \in Series |-> IF s \in was.moved THEN was.parent[s] ELSE parent[s]]
      /\ archived' = archived \ was.revived
      /\ request' = [request EXCEPT ![r] = Idle] /\ Note(r, was.revived)
  BY DEF CommitSlice
<1>4. parent' \in Parents /\ archived' \subseteq Series
  BY <1>2, <1>3 DEF TreeInv, TypeOK, Parents
<1>5. ASSUME NEW t \in OnLoops(parent'), t \notin excused, r \notin outdated
      PROVE  Above(parent', t) \cap (archived' \cup was.revived) # {}
  <2>1. SliceSeesTheTables(r) /\ SliceClosesNoLoop(r)
    BY <1>5 DEF TreeInv, UpToDate
  <2>2. parent' = was.parent
    <3>1. \A s \in Series : parent'[s] = was.parent[s]
      BY <1>1, <1>3, <2>1 DEF SliceSeesTheTables
    <3>2. QED
      BY <1>2, <1>4, <3>1 DEF Parents
  <2>3. archived' = was.archived
    BY <1>1, <1>3, <2>1 DEF SliceSeesTheTables
  <2>4. QED
    BY <1>1, <1>5, <2>1, <2>2, <2>3 DEF SliceClosesNoLoop
<1> HIDE DEF was
<1>6. QED
  BY <1>3, <1>4, <1>5, NoteKeepsInv

LEMMA GiveUpInv ==
    ASSUME TreeInv, NEW r \in Requests, GiveUp(r)
    PROVE  TreeInv'
<1>1. Idle \in {Idle} \cup Page \cup Slice /\ request'[r] = Idle
  BY DEF TreeInv, TypeOK, GiveUp
<1>2. UpToDate(r)'
  BY <1>1 DEF UpToDate, CheckedPageHolds, SliceSeesTheTables, SliceClosesNoLoop, Is, Idle
<1>3. QED
  BY <1>1, <1>2, OwnStepKeepsInv DEF GiveUp

-----------------------------------------------------------------------------
(* The walk of descendants()                                               *)
(*                                                                         *)
(* Its recursion is nested: what one loop has seen is handed to the next.  *)
(* That a function does what the loop says, and that it gives what is      *)
(* below, are two inductions on the weight of a call.                      *)

(* A set of numbers has a least one. It stands in for the induction        *)
(* theorems of the library: intervals from 1, ordered by inclusion.        *)
LEMMA LeastNatural ==
    ASSUME NEW T \in SUBSET Nat, T # {}
    PROVE  \E n \in T : \A m \in T : n <= m
<1>1. PICK top \in T : TRUE
  OBVIOUS
<1> DEFINE Upto == {1..k : k \in {k \in T : k <= top}}
           R == StrictSubsetOrdering(1..top)
<1>2. IsFiniteSet(1..top)
  BY FS_Interval
<1>3. IsWellFoundedOn(R, SUBSET (1..top))
  BY <1>2, FS_StrictSubsetOrderingWellFounded, FS_FiniteSubsetsOfFinite
<1>4. Upto \subseteq SUBSET (1..top) /\ Upto # {}
  OBVIOUS
<1>5. PICK least \in Upto : \A I \in Upto : <<I, least>> \notin R
  <2> HIDE DEF R, Upto
  <2>1. QED
    BY <1>3, <1>4, WFMin
<1>6. PICK n \in T : n <= top /\ least = 1..n
  OBVIOUS
<1>7. ASSUME NEW m \in T, m < n
      PROVE  FALSE
  <2>1. 1..m \in Upto
    BY <1>6, <1>7
  <2>2. 1..m \subseteq 1..n /\ 1..m # 1..n /\ 1..n \in SUBSET (1..top)
    <3>1. n \in 1..n /\ n \notin 1..m
      BY <1>7
    <3>2. QED
      BY <1>6, <1>7, <3>1
  <2>3. <<1..m, least>> \in R
    BY <1>6, <2>2 DEF StrictSubsetOrdering
  <2>4. QED
    BY <1>5, <2>1, <2>3
<1>8. QED
  BY <1>6, <1>7

(* A call weighs less when more is seen, or as much and less is to do.     *)
Weight(call) == (Cardinality(Series) + 1) * Cardinality(Series \ call.seen)
                + Cardinality(call.todo)
Heaviest == (Cardinality(Series) + 1) * Cardinality(Series) + Cardinality(Series)

LEMMA Weights ==
    ASSUME NEW call \in Calls
    PROVE  /\ Weight(call) \in Nat /\ Heaviest \in Nat
           /\ Weight(call) <= Heaviest
<1> DEFINE N == Cardinality(Series)
           a == Cardinality(Series \ call.seen)
           b == Cardinality(call.todo)
<1>1. N \in Nat /\ a \in Nat /\ b \in Nat /\ a <= N /\ b <= N
  <2>1. call.todo \in SUBSET Series /\ Series \ call.seen \in SUBSET Series
    BY DEF Calls
  <2>2. QED
    BY <2>1, SeriesAssumption, FS_Subset, FS_CardinalityType
<1>2. Weight(call) = (N + 1) * a + b /\ Heaviest = (N + 1) * N + N
  BY DEF Weight, Heaviest
<1> HIDE DEF N, a, b
<1>3. (N + 1) * a <= (N + 1) * N /\ (N + 1) * a \in Nat /\ (N + 1) * N \in Nat
  BY <1>1
<1>4. QED
  BY <1>1, <1>2, <1>3

LEMMA LoopGoesOn ==
    ASSUME NEW call \in Calls, NEW c \in call.todo,
           NEW seen \in SUBSET Series, call.seen \subseteq seen
    PROVE  /\ [todo |-> call.todo \ {c}, seen |-> seen] \in Calls
           /\ Weight([todo |-> call.todo \ {c}, seen |-> seen]) < Weight(call)
<1> DEFINE N == Cardinality(Series)
           a == Cardinality(Series \ call.seen)
           b == Cardinality(call.todo)
           a2 == Cardinality(Series \ seen)
           b2 == Cardinality(call.todo \ {c})
<1>1. call.todo \in SUBSET Series /\ Series \ call.seen \in SUBSET Series
      /\ Series \ seen \in SUBSET (Series \ call.seen)
  BY DEF Calls
<1>2. IsFiniteSet(call.todo) /\ IsFiniteSet(Series \ call.seen)
  BY <1>1, SeriesAssumption, FS_Subset
<1>3. N \in Nat /\ a \in Nat /\ b \in Nat /\ a2 \in Nat /\ a2 <= a /\ b2 = b - 1 /\ b2 \in Nat
  <2>1. a2 \in Nat /\ a2 <= a
    BY <1>1, <1>2, FS_Subset, FS_CardinalityType
  <2>2. b2 = b - 1 /\ IsFiniteSet(call.todo \ {c})
    BY <1>2, FS_RemoveElement
  <2>3. b2 \in Nat
    BY <2>2, FS_CardinalityType
  <2>4. QED
    BY <1>2, <2>1, <2>2, <2>3, SeriesAssumption, FS_CardinalityType
<1>4. Weight(call) = (N + 1) * a + b
      /\ Weight([todo |-> call.todo \ {c}, seen |-> seen]) = (N + 1) * a2 + b2
  BY DEF Weight
<1> HIDE DEF N, a, b, a2, b2
<1>5. (N + 1) * a2 <= (N + 1) * a /\ (N + 1) * a2 \in Nat /\ (N + 1) * a \in Nat
  BY <1>3
<1>6. Weight([todo |-> call.todo \ {c}, seen |-> seen]) < Weight(call)
  BY <1>3, <1>4, <1>5
<1>7. QED
  BY <1>1, <1>6 DEF Calls

LEMMA LoopGoesDown ==
    ASSUME NEW call \in Calls, NEW c \in Series \ call.seen, NEW kids \in SUBSET Series
    PROVE  /\ [todo |-> kids, seen |-> call.seen \cup {c}] \in Calls
           /\ Weight([todo |-> kids, seen |-> call.seen \cup {c}]) < Weight(call)
<1> DEFINE N == Cardinality(Series)
           a == Cardinality(Series \ call.seen)
           b == Cardinality(call.todo)
           a2 == Cardinality(Series \ (call.seen \cup {c}))
           b2 == Cardinality(kids)
<1>1. /\ call.todo \in SUBSET Series /\ Series \ call.seen \in SUBSET Series
      /\ Series \ (call.seen \cup {c}) = (Series \ call.seen) \ {c}
  BY DEF Calls
<1>2. IsFiniteSet(call.todo) /\ IsFiniteSet(Series \ call.seen)
  BY <1>1, SeriesAssumption, FS_Subset
<1>3. N \in Nat /\ a \in Nat /\ b \in Nat /\ a2 \in Nat /\ a2 = a - 1 /\ b2 \in Nat /\ b2 <= N
  <2>1. a2 = a - 1 /\ IsFiniteSet((Series \ call.seen) \ {c})
    BY <1>1, <1>2, FS_RemoveElement
  <2>2. a2 \in Nat
    BY <1>1, <2>1, FS_CardinalityType
  <2>3. b2 \in Nat /\ b2 <= N
    BY SeriesAssumption, FS_Subset, FS_CardinalityType
  <2>4. QED
    BY <1>2, <2>1, <2>2, <2>3, SeriesAssumption, FS_CardinalityType
<1>4. Weight(call) = (N + 1) * a + b
      /\ Weight([todo |-> kids, seen |-> call.seen \cup {c}]) = (N + 1) * a2 + b2
  BY DEF Weight
<1> HIDE DEF N, a, b, a2, b2
<1>5. (N + 1) * a2 = (N + 1) * a - (N + 1) /\ (N + 1) * a \in Nat
  BY <1>3
<1>6. Weight([todo |-> kids, seen |-> call.seen \cup {c}]) < Weight(call)
  BY <1>3, <1>4, <1>5
<1>7. QED
  BY <1>6 DEF Calls

-----------------------------------------------------------------------------
(* What a loop that is handed `call` must have seen when it ends: what was *)
(* seen, the children to do, the children of whatever it marked, and       *)
(* nothing that is not in every set closed under children.                 *)
ClosedBelow(of, hidden, S) == \A x \in S : Children(of, hidden, x) \subseteq S
IsRight(of, hidden, call, result) ==
    /\ result \in SUBSET Series
    /\ call.seen \cup call.todo \subseteq result
    /\ \A x \in result \ call.seen : Children(of, hidden, x) \subseteq result
    /\ \A S \in SUBSET Series :
           call.todo \subseteq S /\ ClosedBelow(of, hidden, S) => result \subseteq call.seen \cup S

(* A loop is right if the loops it runs are, and looks at no others.       *)
LEMMA LoopIsRight ==
    ASSUME NEW of, NEW hidden, NEW call \in Calls, NEW f,
           \A d \in Calls : Weight(d) < Weight(call) => IsRight(of, hidden, d, f[d])
    PROVE  /\ IsRight(of, hidden, call, Loop(of, hidden, f, call))
           /\ \A g : (\A d \in Calls : Weight(d) < Weight(call) => g[d] = f[d])
                        => Loop(of, hidden, g, call) = Loop(of, hidden, f, call)
<1> DEFINE c == CHOOSE c \in call.todo : TRUE
           kids == Children(of, hidden, c)
           inner == [todo |-> kids, seen |-> call.seen \cup {c}]
           rest(seen) == [todo |-> call.todo \ {c}, seen |-> seen]
<1>1. call.todo \in SUBSET Series /\ call.seen \in SUBSET Series
  BY DEF Calls
<1>2. CASE call.todo = {}
  <2>1. \A g : Loop(of, hidden, g, call) = call.seen
    BY <1>2 DEF Loop
  <2>2. IsRight(of, hidden, call, call.seen)
    BY <1>1, <1>2 DEF IsRight
  <2>3. QED
    BY <2>1, <2>2
<1>3. CASE call.todo # {} /\ c \in call.seen
  <2>1. c \in call.todo
    BY <1>3
  <2>2. \A g : Loop(of, hidden, g, call) = g[rest(call.seen)]
    BY <1>3 DEF Loop
  <2> HIDE DEF c
  <2>3. rest(call.seen) \in Calls /\ Weight(rest(call.seen)) < Weight(call)
    BY <1>1, <2>1, LoopGoesOn
  <2>4. IsRight(of, hidden, rest(call.seen), f[rest(call.seen)])
    BY <2>3
  <2>5. IsRight(of, hidden, call, f[rest(call.seen)])
    BY <1>3, <2>4 DEF IsRight
  <2>6. QED
    BY <2>2, <2>3, <2>5
<1>4. CASE call.todo # {} /\ c \notin call.seen
  <2>1. c \in call.todo /\ c \in Series \ call.seen
    BY <1>1, <1>4
  <2>2. \A g : Loop(of, hidden, g, call) = g[rest(g[inner])]
    BY <1>4 DEF Loop
  <2> DEFINE within == f[inner]
             result == f[rest(within)]
  <2>3. inner \in Calls /\ Weight(inner) < Weight(call)
    <3>1. kids \in SUBSET Series
      BY DEF Children
    <3> HIDE DEF c, kids
    <3>2. QED
      BY <2>1, <3>1, LoopGoesDown
  <2>4. IsRight(of, hidden, inner, within)
    BY <2>3
  <2>5. /\ within \in SUBSET Series
        /\ call.seen \cup {c} \cup kids \subseteq within
        /\ \A x \in within \ (call.seen \cup {c}) : Children(of, hidden, x) \subseteq within
        /\ \A S \in SUBSET Series :
              kids \subseteq S /\ ClosedBelow(of, hidden, S)
                  => within \subseteq call.seen \cup {c} \cup S
    <3> HIDE DEF c, kids, within
    <3>1. QED
      BY <2>4 DEF IsRight
  <2> HIDE DEF within
  <2>6. rest(within) \in Calls /\ Weight(rest(within)) < Weight(call)
    <3> HIDE DEF c
    <3>1. QED
      BY <2>1, <2>5, LoopGoesOn
  <2>7. IsRight(of, hidden, rest(within), result)
    BY <2>6
  <2>8. /\ result \in SUBSET Series
        /\ within \cup (call.todo \ {c}) \subseteq result
        /\ \A x \in result \ within : Children(of, hidden, x) \subseteq result
        /\ \A S \in SUBSET Series :
              call.todo \ {c} \subseteq S /\ ClosedBelow(of, hidden, S)
                  => result \subseteq within \cup S
    <3> HIDE DEF c, result
    <3>1. QED
      BY <2>7 DEF IsRight
  <2>9. IsRight(of, hidden, call, result)
    <3> HIDE DEF result, inner, rest
    <3>1. call.seen \cup call.todo \subseteq result
      BY <2>5, <2>8
    <3>2. ASSUME NEW x \in result \ call.seen
          PROVE  Children(of, hidden, x) \subseteq result
      <4>1. CASE x = c
        BY <2>5, <2>8, <4>1
      <4>2. CASE x # c
        <5> HIDE DEF c, kids
        <5>1. QED
          BY <2>5, <2>8, <4>2
      <4>3. QED
        BY <4>1, <4>2
    <3>3. ASSUME NEW S \in SUBSET Series, call.todo \subseteq S, ClosedBelow(of, hidden, S)
          PROVE  result \subseteq call.seen \cup S
      <4>1. c \in S /\ kids \subseteq S
        BY <2>1, <3>3 DEF ClosedBelow
      <4> HIDE DEF c, kids
      <4>2. within \subseteq call.seen \cup S
        BY <2>5, <3>3, <4>1
      <4>3. result \subseteq within \cup S
        BY <2>8, <3>3
      <4>4. QED
        BY <4>2, <4>3
    <3>4. QED
      BY <2>8, <3>1, <3>2, <3>3 DEF IsRight
  <2>10. ASSUME NEW g, \A d \in Calls : Weight(d) < Weight(call) => g[d] = f[d]
         PROVE  Loop(of, hidden, g, call) = Loop(of, hidden, f, call)
    <3>1. g[inner] = within /\ g[rest(within)] = result
      <4> HIDE DEF inner, rest
      <4>1. QED
        BY <2>3, <2>6, <2>10 DEF within
    <3>2. QED
      BY <2>2, <3>1 DEF within
  <2>11. Loop(of, hidden, f, call) = result
    BY <2>2 DEF within
  <2>12. QED
    BY <2>9, <2>10, <2>11
<1>5. QED
  BY <1>2, <1>3, <1>4

(* Below any weight there is a function that does what the code of the     *)
(* loop says.                                                              *)
Solves(of, hidden, f, n) ==
    \A d \in Calls : Weight(d) < n =>
        f[d] = Loop(of, hidden, f, d) /\ IsRight(of, hidden, d, f[d])

LEMMA SolvableOneMore ==
    ASSUME NEW of, NEW hidden, NEW n \in Nat, NEW f, Solves(of, hidden, f, n)
    PROVE  \E g : Solves(of, hidden, g, n + 1)
<1> DEFINE g == [d \in Calls |-> IF Weight(d) < n THEN f[d] ELSE Loop(of, hidden, f, d)]
<1>1. SUFFICES ASSUME NEW d \in Calls, Weight(d) < n + 1
               PROVE  g[d] = Loop(of, hidden, g, d) /\ IsRight(of, hidden, d, g[d])
  BY DEF Solves
<1>2. Weight(d) \in Nat /\ \A e \in Calls : Weight(e) \in Nat
  BY Weights
<1>3. \A e \in Calls : Weight(e) < Weight(d) => Weight(e) < n
  BY <1>1, <1>2
<1>4. \A e \in Calls : Weight(e) < Weight(d) => g[e] = f[e] /\ IsRight(of, hidden, e, f[e])
  BY <1>3 DEF Solves
<1>5. g[d] = Loop(of, hidden, f, d)
  BY DEF Solves
<1> HIDE DEF g
<1>6. Loop(of, hidden, g, d) = Loop(of, hidden, f, d)
      /\ IsRight(of, hidden, d, Loop(of, hidden, f, d))
  BY <1>4, LoopIsRight
<1>7. QED
  BY <1>5, <1>6

LEMMA SolvableAlways ==
    ASSUME NEW of, NEW hidden
    PROVE  \A n \in Nat : \E f : Solves(of, hidden, f, n)
<1> DEFINE Unsolved == {n \in Nat : ~\E f : Solves(of, hidden, f, n)}
<1>1. SUFFICES ASSUME Unsolved # {} PROVE FALSE
  OBVIOUS
<1>2. PICK n \in Unsolved : \A m \in Unsolved : n <= m
  <2>1. Unsolved \in SUBSET Nat
    OBVIOUS
  <2> HIDE DEF Unsolved
  <2>2. QED
    BY <1>1, <2>1, LeastNatural
<1>3. n # 0
  <2>1. \A d \in Calls : ~(Weight(d) < 0)
    BY Weights
  <2>2. Solves(of, hidden, Calls, 0)
    BY <2>1 DEF Solves
  <2>3. QED
    BY <2>2
<1>4. n - 1 \in Nat /\ n - 1 \notin Unsolved /\ (n - 1) + 1 = n
  BY <1>2, <1>3
<1>5. PICK f : Solves(of, hidden, f, n - 1)
  BY <1>4
<1>6. \E g : Solves(of, hidden, g, n)
  <2>1. \E g : Solves(of, hidden, g, (n - 1) + 1)
    BY <1>4, <1>5, SolvableOneMore
  <2>2. QED
    BY <1>4, <2>1
<1>7. QED
  BY <1>6

(* The walk ends: Visit is what the code of the loop says.                 *)
LEMMA VisitLoops ==
    ASSUME NEW of, NEW hidden
    PROVE  Visit(of, hidden) = [call \in Calls |-> Loop(of, hidden, Visit(of, hidden), call)]
<1>1. Heaviest + 1 \in Nat /\ \A d \in Calls : Weight(d) < Heaviest + 1
  <2>1. \A d \in Calls : Weight(d) \in Nat /\ Heaviest \in Nat /\ Weight(d) <= Heaviest
    BY Weights
  <2>2. [todo |-> {}, seen |-> {}] \in Calls
    BY DEF Calls
  <2>3. QED
    BY <2>1, <2>2
<1>2. PICK f : Solves(of, hidden, f, Heaviest + 1)
  BY <1>1, SolvableAlways
<1> DEFINE g == [d \in Calls |-> f[d]]
<1>3. \A d \in Calls : f[d] = Loop(of, hidden, f, d) /\ IsRight(of, hidden, d, f[d])
  BY <1>1, <1>2 DEF Solves
<1>4. \A d \in Calls : g[d] = f[d]
  OBVIOUS
<1>5. ASSUME NEW d \in Calls
      PROVE  g[d] = Loop(of, hidden, g, d)
  <2> HIDE DEF g
  <2>1. Loop(of, hidden, g, d) = Loop(of, hidden, f, d)
    BY <1>3, <1>4, LoopIsRight
  <2>2. QED
    BY <1>3, <1>4, <2>1
<1>6. g = [call \in Calls |-> Loop(of, hidden, g, call)]
  <2>1. g = [d \in Calls |-> g[d]]
    OBVIOUS
  <2> HIDE DEF g
  <2>2. QED
    BY <1>5, <2>1
<1> HIDE DEF g
<1>7. QED
  BY <1>6 DEF Visit

(* and is right.                                                           *)
LEMMA VisitIsRight ==
    ASSUME NEW of, NEW hidden
    PROVE  \A d \in Calls : IsRight(of, hidden, d, Visit(of, hidden)[d])
<1> DEFINE V == Visit(of, hidden)
           Wrong == {d \in Calls : ~IsRight(of, hidden, d, V[d])}
<1>1. SUFFICES ASSUME Wrong # {} PROVE FALSE
  OBVIOUS
<1> DEFINE Heavy == {Weight(d) : d \in Wrong}
<1>2. Heavy \in SUBSET Nat /\ Heavy # {}
  BY <1>1, Weights
<1>3. PICK n \in Heavy : \A m \in Heavy : n <= m
  <2> HIDE DEF Heavy
  <2>1. QED
    BY <1>2, LeastNatural
<1>4. PICK d \in Wrong : n = Weight(d)
  OBVIOUS
<1>5. \A e \in Calls : Weight(e) < Weight(d) => IsRight(of, hidden, e, V[e])
  <2>1. \A e \in Wrong : ~(Weight(e) < Weight(d))
    BY <1>3, <1>4, Weights
  <2>2. QED
    BY <2>1
<1>6. V[d] = Loop(of, hidden, V, d)
  BY VisitLoops
<1> HIDE DEF V
<1>7. IsRight(of, hidden, d, V[d])
  BY <1>5, <1>6, LoopIsRight
<1>8. QED
  BY <1>7

(* descendants() gives what is below.                                      *)
LEMMA WalkIsBelow ==
    ASSUME NEW of, NEW hidden, NEW s \in Series
    PROVE  Descendants(of, hidden, s) = Below(of, hidden, s) \ {s}
<1> DEFINE kids == Children(of, hidden, s)
           call == [todo |-> kids, seen |-> {s}]
           result == Visit(of, hidden)[call]
<1>1. call \in Calls /\ kids \in SUBSET Series
  BY DEF Calls, Children
<1>2. IsRight(of, hidden, call, result)
  BY <1>1, VisitIsRight
<1>3. /\ result \in SUBSET Series
      /\ {s} \cup kids \subseteq result
      /\ \A x \in result \ {s} : Children(of, hidden, x) \subseteq result
      /\ \A S \in SUBSET Series :
             kids \subseteq S /\ ClosedBelow(of, hidden, S) => result \subseteq {s} \cup S
  <2> HIDE DEF result, kids
  <2>1. QED
    BY <1>2 DEF IsRight
<1>4. Descendants(of, hidden, s) = result \ {s}
  BY DEF Descendants
<1> HIDE DEF result, call
<1>5. Below(of, hidden, s) \subseteq result
  <2>1. \A x \in result \cup {s} : Children(of, hidden, x) \subseteq result
    BY <1>3
  <2>2. QED
    BY <1>3, <2>1 DEF Below
<1>6. Below(of, hidden, s) \in SUBSET Series
  BY DEF Below
<1>7. kids \subseteq Below(of, hidden, s)
  BY DEF Below, Children
<1>8. ClosedBelow(of, hidden, Below(of, hidden, s))
  <2>1. SUFFICES ASSUME NEW x \in Below(of, hidden, s), NEW c \in Children(of, hidden, x)
                 PROVE  c \in Below(of, hidden, s)
    BY DEF ClosedBelow
  <2>2. c \in Series
    BY DEF Children
  <2>3. ASSUME NEW S \in SUBSET Series,
               \A y \in S \cup {s} : Children(of, hidden, y) \subseteq S
        PROVE  c \in S
    <3>1. x \in S
      BY <2>3 DEF Below
    <3>2. QED
      BY <2>3, <3>1
  <2>4. QED
    BY <2>2, <2>3 DEF Below
<1>9. result \subseteq {s} \cup Below(of, hidden, s)
  BY <1>3, <1>6, <1>7, <1>8
<1>10. QED
  BY <1>4, <1>5, <1>9

-----------------------------------------------------------------------------
(* The theorems                                                            *)

LEMMA NextInv == TreeInv /\ [Next]_vars => TreeInv'
<1> SUFFICES ASSUME TreeInv, [Next]_vars PROVE TreeInv'
  OBVIOUS
<1>1. CASE Next
  <2> PICK r \in Requests :
          \/ \E s, p \in Series : CheckPage(r, s, p) \/ RowWithParent(r, s, p)
          \/ \E s \in Series : Touch(r, s) \/ RowReviving(r, s)
          \/ SavePage(r) \/ BeginSlice(r) \/ CommitSlice(r) \/ GiveUp(r)
    BY <1>1 DEF Next
  <2>1. QED
    BY CheckPageInv, RowWithParentInv, TouchInv, RowRevivingInv, SavePageInv, BeginSliceInv,
       CommitSliceInv, GiveUpInv
<1>2. CASE UNCHANGED vars
  BY <1>2 DEF vars, TreeInv, TypeOK, LoopsWereOutOfSight, ExcusedAreOnLoops, UpToDate,
     CheckedPageHolds, SliceSeesTheTables, SliceClosesNoLoop, Is
<1>3. QED
  BY <1>1, <1>2

(* The invariant of the hierarchy holds in every reachable state.          *)
THEOREM TreeInvariant == Spec => []TreeInv
BY InitInv, NextInv, PTL DEF Spec

(* The series keep a parent that is a series or none, and the requests of  *)
(* the edit page and of the import keep their shape.                       *)
THEOREM TreeTypes == Spec => []TypeOK
<1>1. TreeInv => TypeOK
  BY DEF TreeInv
<1>2. QED
  BY <1>1, TreeInvariant, PTL

(* The check of the edit page and of the import lets no loop through, of   *)
(* any length, save by requests that overlapped or through a series that   *)
(* was archived when the check was made.                                   *)
THEOREM TreeLoops == Spec => []LoopsWereOutOfSight
<1>1. TreeInv => LoopsWereOutOfSight
  BY DEF TreeInv
<1>2. QED
  BY <1>1, TreeInvariant, PTL

(* descendants(), as the code walks, ends and gives the series below, on   *)
(* any tables, with loops or without.                                      *)
THEOREM TreeWalk == Spec => []DescendantsAreThoseBelow
<1>1. DescendantsAreThoseBelow
  BY WalkIsBelow DEF DescendantsAreThoseBelow
<1>2. QED
  BY <1>1, PTL

=============================================================================
