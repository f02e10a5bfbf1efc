------------------------- MODULE BoxRequestsProofs -------------------------
(***************************************************************************)
(* What BoxRequests promises for any number of requests, documents and     *)
(* barcodes: types, HistoryTellsTheBox, MirrorUnlessTorn and               *)
(* PermOutUnlessOutdated.                                                  *)
(*                                                                         *)
(* No lock keeps two requests apart. What a request may rely on is that    *)
(* whoever writes a row warns those that had read it: Reliable says what   *)
(* holds of a request nobody has warned.                                   *)
(***************************************************************************)
EXTENDS BoxRequests, TLAPS

(* A request at a document has one; a page save that goes on to mirror has *)
(* changed the status.                                                     *)
Carries(q) ==
    /\ q.step \in {"picked", "looked", "moving", "placing"} => q.doc \in Docs
    /\ q.step = "told" => StatusDirty(q)

(* The change of status or barcode that a request is about to write.       *)
WritesBox(q) == q.step = "loaded" \/ (q.step = "looked" /\ q.wasIn)

(* It passed C2.2 and F4 against the row that was read.                    *)
PassedGuards(q) ==
    /\ WritesBox(q) => MayBecome(q.seen, q.goal)
    /\ q.step = "looked" /\ q.wasIn => q.goal.barcode = q.seen.barcode

(* Until it is warned, what it read is what is there.                      *)
ReadsAreFresh(q, b, ds) ==
    ~q.outdated =>
        /\ WritesBox(q) \/ q.step = "placing" => q.seen = b
        /\ q.step \in {"moving", "placing"} => q.was = ds[q.doc].status

(* Until the box is written again it is what a page save made of it: the   *)
(* status the save changed in any case, the whole row if it was fresh.     *)
UpdateStands(q, b) ==
    q.step \in {"updated", "told"} /\ ~q.overtaken =>
        /\ ~q.outdated => q.goal = b
        /\ StatusDirty(q) => q.goal.status = b.status

Reliable(q, b, ds) ==
    /\ Carries(q)
    /\ PassedGuards(q)
    /\ ReadsAreFresh(q, b, ds)
    /\ UpdateStands(q, b)

AllReliable == \A r \in Requests : Reliable(requests[r], box, docs)

RequestsInv ==
    /\ TypeOK
    /\ AllReliable
    /\ HistoryTellsTheBox
    /\ MirrorUnlessTorn

-----------------------------------------------------------------------------
(* Facts about the operators                                               *)

(* A request idles with nothing to rely on.                                *)
LEMMA IdleIsReliable ==
    /\ Idle \in Request
    /\ \A b, ds : Reliable(Idle, b, ds)
  <1>1. AnyRow \in BoxRow
    BY BoxRequestsAssumption DEF AnyRow, BoxRow, Statuses
  <1>2. Idle \in Request
    BY <1>1 DEF Idle, Request, Steps, Statuses
  <1>3. Idle.step = "idle"
    BY DEF Idle
  <1> HIDE DEF Idle
  <1> QED
    BY <1>2, <1>3 DEF Reliable, Carries, PassedGuards, WritesBox, ReadsAreFresh, UpdateStands

(* A warning changes no more than what may still be relied on.             *)
LEMMA WarnedKeeps ==
    ASSUME NEW q \in Request, NEW boxChanged \in BOOLEAN, NEW changed
    PROVE  LET w == Warned(q, boxChanged, changed) IN
           /\ w \in Request
           /\ w.step = q.step /\ w.seen = q.seen /\ w.goal = q.goal
           /\ w.doc = q.doc /\ w.wasIn = q.wasIn /\ w.was = q.was
           /\ q.step \in {"updated", "told"} =>
                 /\ w.overtaken <=> (q.overtaken \/ boxChanged)
                 /\ w.outdated <=> q.outdated
           /\ q.step \notin {"updated", "told", "idle"} =>
                 (w.outdated <=>
                     \/ q.outdated
                     \/ boxChanged /\ q.step # "picked" /\ q.step # "moving"
                     \/ q.doc \in changed)
  <1> DEFINE late == \/ q.outdated
                     \/ boxChanged /\ q.step # "picked" /\ q.step # "moving"
                     \/ q.doc \in changed
             over == q.overtaken \/ boxChanged
  <1>1. late \in BOOLEAN /\ over \in BOOLEAN
    BY Zenon
  <1>2. Warned(q, boxChanged, changed) =
           IF q.step \in {"updated", "told"} THEN [q EXCEPT !.overtaken = over]
           ELSE IF q.step = "idle" THEN q ELSE [q EXCEPT !.outdated = late]
    BY Zenon DEF Warned
  <1> HIDE DEF late, over
  <1>3. CASE q.step \in {"updated", "told"}
    <2>1. Warned(q, boxChanged, changed) = [q EXCEPT !.overtaken = over]
      BY <1>2, <1>3
    <2>2. [q EXCEPT !.overtaken = over].overtaken = over
      BY DEF Request
    <2>3. [q EXCEPT !.overtaken = over].outdated = q.outdated
      BY DEF Request
    <2>4. [q EXCEPT !.overtaken = over] \in Request
      BY <1>1 DEF Request
    <2>5. (q.overtaken \/ boxChanged) <=> over
      BY Zenon DEF over
    <2> DEFINE w == [q EXCEPT !.overtaken = over]
    <2>6. /\ w.step = q.step /\ w.seen = q.seen /\ w.goal = q.goal
          /\ w.doc = q.doc /\ w.wasIn = q.wasIn /\ w.was = q.was
      BY DEF Request
    <2>7. w \in Request /\ w.overtaken = over /\ w.outdated = q.outdated
      BY <2>2, <2>3, <2>4
    <2>8. Warned(q, boxChanged, changed) = w
      BY <2>1
    <2> HIDE DEF w
    <2> QED BY <2>5, <2>6, <2>7, <2>8, <1>3, Zenon
  <1>4. CASE q.step = "idle"
    <2>1. Warned(q, boxChanged, changed) = q
      BY <1>2, <1>4
    <2> QED BY <2>1, <1>4, Zenon
  <1>5. CASE q.step \notin {"updated", "told", "idle"}
    <2> DEFINE w == [q EXCEPT !.outdated = late]
    <2>1. Warned(q, boxChanged, changed) = w
      BY <1>2, <1>5
    <2>2. /\ w.step = q.step /\ w.seen = q.seen /\ w.goal = q.goal
          /\ w.doc = q.doc /\ w.wasIn = q.wasIn /\ w.was = q.was
      BY DEF Request
    <2>3. w \in Request /\ w.outdated = late
      BY <1>1 DEF Request
    <2>4. late <=> \/ q.outdated
                   \/ boxChanged /\ q.step # "picked" /\ q.step # "moving"
                   \/ q.doc \in changed
      BY Zenon DEF late
    <2> HIDE DEF w
    <2> QED BY <2>1, <2>2, <2>3, <2>4, <1>5, Zenon
  <1> QED BY <1>3, <1>4, <1>5

(* What a warning never touches.                                           *)
LEMMA WarnedStays ==
    ASSUME NEW q \in Request, NEW boxChanged \in BOOLEAN, NEW changed, NEW w,
           w = Warned(q, boxChanged, changed)
    PROVE  w.step = q.step /\ w.seen = q.seen /\ w.goal = q.goal
  <1> QED BY WarnedKeeps

(* Whoever writes and warns leaves the others as reliable as they were.    *)
LEMMA WarningIsEnough ==
    ASSUME NEW q \in Request, NEW b, NEW c, NEW ds, NEW es, NEW changed,
           NEW boxChanged \in BOOLEAN,
           ~boxChanged => c = b,
           \A d \in Docs : d \notin changed => es[d] = ds[d],
           Reliable(q, b, ds)
    PROVE  Reliable(Warned(q, boxChanged, changed), c, es)
  <1> DEFINE w == Warned(q, boxChanged, changed)
  <1>1. /\ w.step = q.step /\ w.seen = q.seen /\ w.goal = q.goal
        /\ w.doc = q.doc /\ w.wasIn = q.wasIn /\ w.was = q.was
    BY WarnedKeeps
  <1>2. q.step \in {"updated", "told"} =>
            /\ w.overtaken <=> (q.overtaken \/ boxChanged)
            /\ w.outdated <=> q.outdated
    BY WarnedKeeps, Zenon
  <1>3. q.step \notin {"updated", "told", "idle"} =>
            (w.outdated <=>
                \/ q.outdated
                \/ boxChanged /\ q.step # "picked" /\ q.step # "moving"
                \/ q.doc \in changed)
    BY WarnedKeeps, Zenon
  <1> HIDE DEF w
  <1>4. Carries(w)
    BY <1>1 DEF Reliable, Carries, StatusDirty
  <1>5. PassedGuards(w)
    BY <1>1, Zenon DEF Reliable, PassedGuards, WritesBox
  <1>6. ReadsAreFresh(w, c, es)
    <2> SUFFICES ASSUME ~w.outdated
                 PROVE  /\ WritesBox(w) \/ w.step = "placing" => w.seen = c
                        /\ w.step \in {"moving", "placing"} => w.was = es[w.doc].status
      BY DEF ReadsAreFresh
    <2>1. ASSUME WritesBox(w) \/ w.step = "placing"
          PROVE  w.seen = c
      <3>1. q.step \in {"loaded", "looked", "placing"}
        BY <2>1, <1>1 DEF WritesBox
      <3>2. WritesBox(q) \/ q.step = "placing"
        BY <2>1, <1>1, Zenon DEF WritesBox
      <3>3. ~q.outdated /\ ~boxChanged
        BY <3>1, <1>3
      <3> QED BY <3>2, <3>3, <1>1 DEF Reliable, ReadsAreFresh
    <2>2. ASSUME w.step \in {"moving", "placing"}
          PROVE  w.was = es[w.doc].status
      <3>1. q.step \in {"moving", "placing"} /\ q.doc \in Docs
        BY <2>2, <1>1 DEF Reliable, Carries
      <3>2. ~q.outdated /\ q.doc \notin changed
        BY <3>1, <1>3
      <3> QED BY <3>1, <3>2, <1>1 DEF Reliable, ReadsAreFresh
    <2> QED BY <2>1, <2>2
  <1>7. UpdateStands(w, c)
    <2> SUFFICES ASSUME w.step \in {"updated", "told"}, ~w.overtaken
                 PROVE  /\ ~w.outdated => w.goal = c
                        /\ StatusDirty(w) => w.goal.status = c.status
      BY DEF UpdateStands
    <2>1. q.step \in {"updated", "told"} /\ ~q.overtaken /\ c = b
      BY <1>1, <1>2
    <2>2. w.outdated <=> q.outdated
      BY <1>2, <2>1, Zenon
    <2>3. StatusDirty(w) <=> StatusDirty(q)
      BY <1>1, Zenon DEF StatusDirty
    <2> QED BY <1>1, <2>1, <2>2, <2>3, Zenon DEF Reliable, UpdateStands
  <1> QED BY <1>4, <1>5, <1>6, <1>7 DEF Reliable, w

-----------------------------------------------------------------------------
(* Types                                                                   *)

(* A step of r that leaves r with such a request, and warns the others.    *)
LEMMA ThenBecomesType ==
    ASSUME TypeOK, NEW r \in Requests, NEW q \in Request,
           NEW boxChanged \in BOOLEAN, NEW changed,
           ThenBecomes(r, q, boxChanged, changed)
    PROVE  requests' \in [Requests -> Request]
  <1>1. \A s \in Requests : Warned(requests[s], boxChanged, changed) \in Request
    BY WarnedKeeps DEF TypeOK
  <1> QED BY <1>1 DEF ThenBecomes

(* The others are as reliable as before if the writer warns of all it did. *)
LEMMA ThenBecomesReliable ==
    ASSUME TypeOK, AllReliable, NEW r \in Requests, NEW q \in Request,
           NEW boxChanged \in BOOLEAN, NEW changed,
           ThenBecomes(r, q, boxChanged, changed),
           ~boxChanged => box' = box,
           \A d \in Docs : d \notin changed => docs'[d] = docs[d],
           Reliable(q, box', docs')
    PROVE  AllReliable'
  <1>1. ASSUME NEW s \in Requests
        PROVE  Reliable(requests'[s], box', docs')
    <2>1. CASE s = r
      BY <2>1 DEF ThenBecomes
    <2>2. CASE s # r
      <3>1. requests'[s] = Warned(requests[s], boxChanged, changed)
        BY <2>2 DEF ThenBecomes
      <3>2. requests[s] \in Request /\ Reliable(requests[s], box, docs)
        BY DEF TypeOK, AllReliable
      <3> QED BY <3>1, <3>2, WarningIsEnough
    <2> QED BY <2>1, <2>2
  <1> QED BY <1>1 DEF AllReliable

(* Nothing but r's own request changes.                                    *)
LEMMA OwnStepReliable ==
    ASSUME TypeOK, AllReliable, NEW r \in Requests, NEW q,
           requests' = [requests EXCEPT ![r] = q],
           UNCHANGED <<box, docs>>,
           Reliable(q, box, docs)
    PROVE  AllReliable'
  <1> QED BY DEF TypeOK, AllReliable

(* The mirror writes a status to the documents in the box, and no others.  *)
LEMMA MirroredDocs ==
    ASSUME TypeOK, NEW status \in Statuses
    PROVE  /\ Mirrored(status) \in [Docs -> DocRow]
           /\ \A d \in Docs : /\ Mirrored(status)[d].inside = docs[d].inside
                              /\ docs[d].inside => Mirrored(status)[d].status = status
  <1>1. ASSUME NEW d \in Docs, docs[d].inside
        PROVE  /\ [docs[d] EXCEPT !.status = status] \in DocRow
               /\ [docs[d] EXCEPT !.status = status].inside = docs[d].inside
               /\ [docs[d] EXCEPT !.status = status].status = status
    BY DEF TypeOK, DocRow
  <1>2. \A d \in Docs : docs[d] \in DocRow
    BY DEF TypeOK
  <1> QED BY <1>1, <1>2 DEF Mirrored

(* UPDATE writes a row, and the goal if the row is as it was loaded.       *)
LEMMA WrittenRow ==
    ASSUME box \in BoxRow, NEW q \in Request
    PROVE  /\ Written(q) \in BoxRow
           /\ q.seen = box => Written(q) = q.goal
           /\ StatusDirty(q) => Written(q).status = q.goal.status
           /\ ~StatusDirty(q) => Written(q).status = box.status
  <1>1. q.seen \in BoxRow /\ q.goal \in BoxRow
    BY DEF Request
  <1> QED BY <1>1 DEF Written, BoxRow, StatusDirty

(* A row whose status alone changes.                                       *)
LEMMA RowWithStatus ==
    ASSUME NEW row \in BoxRow, NEW status \in Statuses
    PROVE  LET new == [row EXCEPT !.status = status] IN
           new \in BoxRow /\ new.status = status /\ new.barcode = row.barcode
  <1> QED BY DEF BoxRow

LEMMA RetiredType ==
    ASSUME TypeOK, NEW new \in BoxRow
    PROVE  RetiredBy(new) \in Barcodes \cup {NoRetired}
  <1> QED BY DEF TypeOK, Pasts, RetiredBy, BoxRow

-----------------------------------------------------------------------------
(* What is pending                                                         *)

(* Requests outside S are where they were, with what they carried.         *)
KeptBut(S) ==
    \A s \in Requests \ S : /\ requests'[s].step = requests[s].step
                            /\ requests'[s].seen = requests[s].seen
                            /\ requests'[s].goal = requests[s].goal

OwesMirror(q) == q.step \in {"updated", "told"} /\ StatusDirty(q)

LEMMA ThenBecomesKeeps ==
    ASSUME TypeOK, NEW r \in Requests, NEW q, NEW boxChanged \in BOOLEAN, NEW changed,
           ThenBecomes(r, q, boxChanged, changed)
    PROVE  KeptBut({r}) /\ requests'[r] = q
  <1>1. ASSUME NEW s \in Requests \ {r}
        PROVE  /\ requests'[s].step = requests[s].step
               /\ requests'[s].seen = requests[s].seen
               /\ requests'[s].goal = requests[s].goal
    <2>1. requests'[s] = Warned(requests[s], boxChanged, changed)
      BY DEF ThenBecomes
    <2>2. requests[s] \in Request
      BY DEF TypeOK
    <2> QED BY <2>1, <2>2, WarnedKeeps
  <1>2. requests'[r] = q
    BY DEF ThenBecomes
  <1> QED BY <1>1, <1>2 DEF KeptBut

LEMMA OwnStepKeeps ==
    ASSUME TypeOK, NEW r \in Requests, NEW q, requests' = [requests EXCEPT ![r] = q]
    PROVE  KeptBut({r}) /\ requests'[r] = q
  <1> QED BY DEF TypeOK, KeptBut

(* A mirror still owed by a request that stays is still pending.           *)
LEMMA MirrorStaysPending ==
    ASSUME NEW S, KeptBut(S), MirrorPending, \A r \in S : ~OwesMirror(requests[r])
    PROVE  MirrorPending'
  <1>1. PICK s \in Requests : OwesMirror(requests[s])
    BY DEF MirrorPending, OwesMirror
  <1>2. s \notin S
    BY <1>1
  <1>3. OwesMirror(requests'[s])
    BY <1>1, <1>2 DEF KeptBut, OwesMirror, StatusDirty
  <1> QED BY <1>3 DEF MirrorPending, OwesMirror

LEMMA HistoryStaysPending ==
    ASSUME NEW S, KeptBut(S), HistoryPending, \A r \in S : requests[r].step # "updated"
    PROVE  HistoryPending'
  <1>1. PICK s \in Requests : requests[s].step = "updated"
    BY DEF HistoryPending
  <1>2. s \notin S
    BY <1>1
  <1> QED BY <1>1, <1>2 DEF KeptBut, HistoryPending

(* A step of requests alone, of which r owed nothing.                      *)
LEMMA QuietStep ==
    ASSUME NEW r \in Requests, KeptBut({r}), HistoryTellsTheBox, MirrorUnlessTorn,
           requests[r].step \notin {"updated", "told"},
           UNCHANGED <<box, docs, history, past>>
    PROVE  HistoryTellsTheBox' /\ MirrorUnlessTorn'
  <1>1. HistoryTellsTheBox'
    <2>1. HistoryPending => HistoryPending'
      BY HistoryStaysPending
    <2> QED BY <2>1, Zenon DEF HistoryTellsTheBox
  <1>2. MirrorUnlessTorn'
    <2>1. MirrorPending => MirrorPending'
      BY MirrorStaysPending, Zenon DEF OwesMirror
    <2> QED BY <2>1, Zenon DEF MirrorUnlessTorn, Inside
  <1> QED BY <1>1, <1>2

-----------------------------------------------------------------------------
(* Page saves                                                              *)

LEMMA InitInv == Init => RequestsInv
  <1> SUFFICES ASSUME Init PROVE RequestsInv
    OBVIOUS
  <1>1. TypeOK
    BY IdleIsReliable DEF Init, TypeOK, BoxRow, Statuses, DocRow, Pasts
  <1>2. AllReliable
    BY IdleIsReliable DEF Init, AllReliable
  <1>3. HistoryTellsTheBox
    BY DEF Init, HistoryTellsTheBox
  <1>4. MirrorUnlessTorn
    BY DEF Init, MirrorUnlessTorn, Inside
  <1> QED BY <1>1, <1>2, <1>3, <1>4 DEF RequestsInv

LEMMA LoadBoxInv ==
    ASSUME RequestsInv, NEW r \in Requests, NEW goal \in BoxRow, LoadBox(r, goal)
    PROVE  RequestsInv'
  <1> DEFINE q == [Idle EXCEPT !.step = "loaded", !.seen = box, !.goal = goal]
  <1>1. /\ q \in Request /\ q.step = "loaded" /\ q.seen = box /\ q.goal = goal
    BY IdleIsReliable DEF Request, Steps, RequestsInv, TypeOK
  <1>2. requests' = [requests EXCEPT ![r] = q] /\ UNCHANGED <<box, docs, history, past>>
    BY DEF LoadBox
  <1>3. MayBecome(box, goal) /\ requests[r].step = "idle"
    BY DEF LoadBox, Idle
  <1> HIDE DEF q
  <1>4. TypeOK'
    BY <1>1, <1>2 DEF RequestsInv, TypeOK
  <1>5. Reliable(q, box, docs)
    BY <1>1, <1>3 DEF Reliable, Carries, PassedGuards, WritesBox, ReadsAreFresh, UpdateStands
  <1>6. AllReliable'
    BY <1>2, <1>5, OwnStepReliable DEF RequestsInv
  <1>7. KeptBut({r})
    BY <1>2, OwnStepKeeps DEF RequestsInv
  <1>8. HistoryTellsTheBox' /\ MirrorUnlessTorn'
    BY <1>2, <1>3, <1>7, QuietStep DEF RequestsInv
  <1> QED BY <1>4, <1>6, <1>8 DEF RequestsInv

LEMMA UpdateBoxInv ==
    ASSUME RequestsInv, NEW r \in Requests, UpdateBox(r)
    PROVE  RequestsInv'
  <1> DEFINE q == requests[r]
             u == [q EXCEPT !.step = "updated"]
             changed == box' # box
  <1>1. q \in Request /\ q.step = "loaded" /\ Reliable(q, box, docs)
    BY DEF UpdateBox, RequestsInv, TypeOK, AllReliable
  <1>2. /\ u \in Request /\ u.step = "updated" /\ u.seen = q.seen /\ u.goal = q.goal
        /\ u.outdated = q.outdated
    BY <1>1 DEF Request, Steps
  <1>3. /\ box' = Written(q) /\ ThenBecomes(r, u, changed, {})
        /\ UNCHANGED <<docs, history>>
        /\ past' = [past EXCEPT !.retired = RetiredBy(Written(q))]
    BY DEF UpdateBox
  <1>4. changed \in BOOLEAN /\ (~changed => box' = box)
    BY Zenon
  <1>5. /\ Written(q) \in BoxRow
        /\ q.seen = box => Written(q) = q.goal
        /\ StatusDirty(q) => Written(q).status = q.goal.status
        /\ ~StatusDirty(q) => Written(q).status = box.status
    BY <1>1, WrittenRow DEF RequestsInv, TypeOK
  <1>6. StatusDirty(u) <=> StatusDirty(q)
    BY <1>2, Zenon DEF StatusDirty
  <1> HIDE DEF u, changed
  <1>7. TypeOK'
    <2>1. requests' \in [Requests -> Request]
      BY <1>2, <1>3, <1>4, ThenBecomesType DEF RequestsInv
    <2>2. past' \in Pasts
      BY <1>3, <1>5, RetiredType DEF RequestsInv, TypeOK, Pasts
    <2> QED BY <2>1, <2>2, <1>3, <1>5 DEF RequestsInv, TypeOK
  <1>8. AllReliable'
    <2>1. UpdateStands(u, box')
      <3>1. ~q.outdated => q.goal = box'
        BY <1>1, <1>3, <1>5, Zenon DEF Reliable, ReadsAreFresh, WritesBox
      <3> QED BY <3>1, <1>2, <1>3, <1>5, <1>6, Zenon DEF UpdateStands
    <2>2. Reliable(u, box', docs')
      BY <2>1, <1>2 DEF Reliable, Carries, PassedGuards, WritesBox, ReadsAreFresh
    <2> QED BY <2>2, <1>2, <1>3, <1>4, ThenBecomesReliable DEF RequestsInv
  <1>9. KeptBut({r}) /\ requests'[r] = u
    BY <1>3, <1>4, ThenBecomesKeeps DEF RequestsInv
  <1>10. HistoryTellsTheBox'
    BY <1>2, <1>9 DEF HistoryTellsTheBox, HistoryPending
  <1>11. MirrorUnlessTorn'
    <2>1. CASE StatusDirty(q)
      <3>1. MirrorPending'
        BY <2>1, <1>2, <1>6, <1>9 DEF MirrorPending
      <3> QED BY <3>1 DEF MirrorUnlessTorn
    <2>2. CASE ~StatusDirty(q)
      <3>1. MirrorPending => MirrorPending'
        BY <1>1, <1>9, MirrorStaysPending DEF OwesMirror
      <3>2. box'.status = box.status /\ past'.torn = past.torn /\ Inside' = Inside
        BY <2>2, <1>3, <1>5 DEF Inside, RequestsInv, TypeOK, Pasts
      <3> QED BY <3>1, <3>2, <1>3, Zenon DEF RequestsInv, MirrorUnlessTorn
    <2> QED BY <2>1, <2>2
  <1> QED BY <1>7, <1>8, <1>10, <1>11 DEF RequestsInv

LEMMA WriteHistoryInv ==
    ASSUME RequestsInv, NEW r \in Requests, WriteHistory(r)
    PROVE  RequestsInv'
  <1> DEFINE q == requests[r]
             told == [q EXCEPT !.step = "told"]
             next == IF StatusDirty(q) THEN told ELSE Idle
             late == q.outdated \/ q.overtaken
  <1>1. q \in Request /\ q.step = "updated" /\ Reliable(q, box, docs)
    BY DEF WriteHistory, RequestsInv, TypeOK, AllReliable
  <1>2. /\ told \in Request /\ told.step = "told" /\ told.seen = q.seen /\ told.goal = q.goal
        /\ told.outdated = q.outdated /\ told.overtaken = q.overtaken
    BY <1>1 DEF Request, Steps
  <1>3. /\ history' = q.goal /\ requests' = [requests EXCEPT ![r] = next]
        /\ past' = [past EXCEPT !.untold = late]
        /\ UNCHANGED <<box, docs>>
    BY DEF WriteHistory
  <1>4. late \in BOOLEAN /\ (~late => q.goal = box)
    <2>1. late \in BOOLEAN
      BY Zenon
    <2>2. ASSUME ~late PROVE q.goal = box
      <3>1. ~q.outdated /\ ~q.overtaken
        BY <2>2, Zenon
      <3> QED BY <3>1, <1>1 DEF Reliable, UpdateStands
    <2> QED BY <2>1, <2>2
  <1>5. StatusDirty(told) <=> StatusDirty(q)
    BY <1>2, Zenon DEF StatusDirty
  <1> HIDE DEF told, late
  <1>6. TypeOK'
    <2>1. next \in Request
      BY <1>2, IdleIsReliable
    <2>2. past' \in Pasts
      BY <1>3, <1>4 DEF RequestsInv, TypeOK, Pasts
    <2>3. q.goal \in BoxRow
      BY <1>1 DEF Request
    <2> QED BY <2>1, <2>2, <2>3, <1>3 DEF RequestsInv, TypeOK
  <1>7. AllReliable'
    <2>1. UpdateStands(told, box)
      BY <1>1, <1>2, <1>5, Zenon DEF Reliable, UpdateStands
    <2>2. StatusDirty(q) => Reliable(told, box, docs)
      BY <2>1, <1>2, <1>5 DEF Reliable, Carries, PassedGuards, WritesBox, ReadsAreFresh
    <2>3. Reliable(next, box, docs)
      BY <2>2, IdleIsReliable
    <2> QED BY <2>3, <1>3, OwnStepReliable DEF RequestsInv
  <1>8. KeptBut({r}) /\ requests'[r] = next
    BY <1>3, OwnStepKeeps DEF RequestsInv
  <1>9. HistoryTellsTheBox'
    <2>1. past'.untold = late
      BY <1>3 DEF RequestsInv, TypeOK, Pasts
    <2> QED BY <2>1, <1>3, <1>4 DEF HistoryTellsTheBox
  <1>10. MirrorUnlessTorn'
    <2>1. past'.torn = past.torn
      BY <1>3 DEF RequestsInv, TypeOK, Pasts
    <2>2. MirrorPending => MirrorPending'
      <3>1. CASE StatusDirty(q)
        <4>1. OwesMirror(requests'[r])
          BY <3>1, <1>2, <1>5, <1>8 DEF OwesMirror
        <4> QED BY <4>1 DEF MirrorPending, OwesMirror
      <3>2. CASE ~StatusDirty(q)
        BY <3>2, <1>8, MirrorStaysPending DEF OwesMirror
      <3> QED BY <3>1, <3>2
    <2> QED BY <2>1, <2>2, <1>3, Zenon DEF RequestsInv, MirrorUnlessTorn, Inside
  <1> QED BY <1>6, <1>7, <1>9, <1>10 DEF RequestsInv

LEMMA MirrorStatusInv ==
    ASSUME RequestsInv, NEW r \in Requests, MirrorStatus(r)
    PROVE  RequestsInv'
  <1> DEFINE q == requests[r]
             torn == IF q.overtaken THEN past.torn \cup Inside ELSE past.torn \ Inside
  <1>1. q \in Request /\ q.step = "told" /\ Reliable(q, box, docs)
    BY DEF MirrorStatus, RequestsInv, TypeOK, AllReliable
  <1>2. /\ docs' = Mirrored(q.goal.status) /\ ThenBecomes(r, Idle, FALSE, Changed(docs'))
        /\ UNCHANGED <<box, history>>
    BY DEF MirrorStatus
  <1>3. past' = [past EXCEPT !.torn = torn]
    BY DEF MirrorStatus
  <1>4. q.goal.status \in Statuses
    BY <1>1 DEF Request, BoxRow
  <1>5. /\ docs' \in [Docs -> DocRow]
        /\ \A d \in Docs : /\ docs'[d].inside = docs[d].inside
                           /\ docs[d].inside => docs'[d].status = q.goal.status
    BY <1>2, <1>4, MirroredDocs DEF RequestsInv
  <1>6. torn \subseteq Docs /\ past'.torn = torn /\ past'.untold = past.untold
    BY <1>3 DEF RequestsInv, TypeOK, Pasts, Inside
  <1>7. Inside' = Inside
    BY <1>5, Zenon DEF Inside
  <1>8. TypeOK'
    <2>1. requests' \in [Requests -> Request]
      BY <1>2, IdleIsReliable, ThenBecomesType DEF RequestsInv
    <2>2. past' \in Pasts
      BY <1>3, <1>6 DEF RequestsInv, TypeOK, Pasts
    <2> QED BY <2>1, <2>2, <1>2, <1>5 DEF RequestsInv, TypeOK
  <1>9. AllReliable'
    BY <1>2, IdleIsReliable, ThenBecomesReliable DEF RequestsInv, Changed
  <1>10. KeptBut({r})
    BY <1>2, ThenBecomesKeeps DEF RequestsInv
  <1>11. HistoryTellsTheBox'
    <2>1. HistoryPending => HistoryPending'
      BY <1>1, <1>10, HistoryStaysPending
    <2> QED BY <2>1, <1>2, <1>6, Zenon DEF RequestsInv, HistoryTellsTheBox
  <1>12. MirrorUnlessTorn'
    <2>1. CASE q.overtaken
      <3>1. Inside' \ past'.torn = {}
        BY <2>1, <1>6, <1>7
      <3> QED BY <3>1 DEF MirrorUnlessTorn
    <2>2. CASE ~q.overtaken
      <3>1. ASSUME ~MirrorPending', NEW d \in Inside' \ past'.torn
            PROVE  docs'[d].status = box'.status
        <4>1. d \in Docs /\ docs[d].inside /\ docs'[d].status = q.goal.status
          BY <3>1, <1>5, <1>7 DEF Inside
        <4> QED BY <4>1, <2>2, <1>1, <1>2 DEF Reliable, Carries, UpdateStands
      <3> QED BY <3>1 DEF MirrorUnlessTorn
    <2> QED BY <2>1, <2>2
  <1> QED BY <1>8, <1>9, <1>11, <1>12 DEF RequestsInv

LEMMA DieInv ==
    ASSUME RequestsInv, NEW r \in Requests, Die(r)
    PROVE  RequestsInv'
  <1> DEFINE q == requests[r]
             owes == q.step \in {"updated", "told"} /\ StatusDirty(q)
             torn == IF owes THEN past.torn \cup Inside ELSE past.torn
             untold == past.untold \/ q.step = "updated"
  <1>1. requests' = [requests EXCEPT ![r] = Idle] /\ UNCHANGED <<box, docs, history>>
    BY DEF Die
  <1>2. past' = [past EXCEPT !.torn = torn, !.untold = untold]
    BY Zenon DEF Die
  <1>3. torn \subseteq Docs /\ untold \in BOOLEAN
    <2>1. torn \subseteq Docs
      BY DEF RequestsInv, TypeOK, Pasts, Inside
    <2>2. untold \in BOOLEAN
      BY Zenon
    <2> QED BY <2>1, <2>2
  <1>4. (untold <=> (past.untold \/ q.step = "updated")) /\ (owes <=> OwesMirror(q))
    BY Zenon DEF OwesMirror
  <1>5. torn = IF OwesMirror(q) THEN past.torn \cup Inside ELSE past.torn
    BY DEF OwesMirror
  <1> HIDE DEF torn, untold
  <1>6. past'.torn = torn /\ past'.untold = untold
    BY <1>2 DEF RequestsInv, TypeOK, Pasts
  <1>7. TypeOK'
    BY <1>1, <1>2, <1>3, IdleIsReliable DEF RequestsInv, TypeOK, Pasts
  <1>8. AllReliable'
    BY <1>1, IdleIsReliable, OwnStepReliable DEF RequestsInv
  <1>9. KeptBut({r})
    BY <1>1, OwnStepKeeps DEF RequestsInv
  <1>10. HistoryTellsTheBox'
    <2>1. CASE q.step = "updated"
      BY <2>1, <1>4, <1>6, Zenon DEF HistoryTellsTheBox
    <2>2. CASE q.step # "updated"
      <3>1. HistoryPending => HistoryPending'
        BY <2>2, <1>9, HistoryStaysPending
      <3>2. ~past'.untold => ~past.untold
        BY <1>4, <1>6, Zenon
      <3> QED BY <3>1, <3>2, <1>1, Zenon DEF RequestsInv, HistoryTellsTheBox
    <2> QED BY <2>1, <2>2
  <1>11. MirrorUnlessTorn'
    <2>1. Inside' = Inside
      BY <1>1 DEF Inside
    <2>2. CASE OwesMirror(q)
      <3>1. Inside' \ past'.torn = {}
        BY <2>1, <2>2, <1>5, <1>6
      <3> QED BY <3>1 DEF MirrorUnlessTorn
    <2>3. CASE ~OwesMirror(q)
      <3>1. MirrorPending => MirrorPending'
        BY <2>3, <1>9, MirrorStaysPending
      <3>2. past'.torn = past.torn
        BY <2>3, <1>5, <1>6
      <3> QED BY <3>1, <3>2, <2>1, <1>1, Zenon DEF RequestsInv, MirrorUnlessTorn
    <2> QED BY <2>2, <2>3
  <1> QED BY <1>7, <1>8, <1>10, <1>11 DEF RequestsInv

-----------------------------------------------------------------------------
(* Bulk actions on boxes                                                   *)

LEMMA SetStatusLockedInv ==
    ASSUME RequestsInv, NEW status \in Statuses, SetStatusLocked(status)
    PROVE  RequestsInv'
  <1> DEFINE new == [box EXCEPT !.status = status]
             torn == past.torn \ Inside
             changed == Changed(docs')
  <1>1. /\ box' = new /\ history' = new /\ docs' = Mirrored(status)
        /\ requests' = [s \in Requests |-> Warned(requests[s], TRUE, changed)]
        /\ past' = [torn |-> torn, untold |-> FALSE, retired |-> RetiredBy(new)]
    BY DEF SetStatusLocked
  <1>2. new \in BoxRow /\ new.status = status
    BY RowWithStatus DEF RequestsInv, TypeOK
  <1>3. /\ docs' \in [Docs -> DocRow]
        /\ \A d \in Docs : /\ docs'[d].inside = docs[d].inside
                           /\ docs[d].inside => docs'[d].status = status
    BY <1>1, MirroredDocs DEF RequestsInv
  <1>4. \A d \in Docs : d \notin changed => docs'[d] = docs[d]
    BY DEF Changed
  <1> HIDE DEF new, changed
  <1>5. TypeOK'
    <2>1. requests' \in [Requests -> Request]
      BY <1>1, WarnedKeeps DEF RequestsInv, TypeOK
    <2>2. torn \subseteq Docs
      BY DEF RequestsInv, TypeOK, Pasts
    <2>3. past' \in Pasts
      BY <2>2, <1>1, <1>2, RetiredType DEF RequestsInv, Pasts
    <2> QED BY <2>1, <2>3, <1>1, <1>2, <1>3 DEF TypeOK
  <1>6. AllReliable'
    <2>1. ASSUME NEW s \in Requests
          PROVE  Reliable(requests'[s], box', docs')
      <3>1. requests[s] \in Request /\ Reliable(requests[s], box, docs)
        BY DEF RequestsInv, TypeOK, AllReliable
      <3>2. Reliable(Warned(requests[s], TRUE, changed), box', docs')
        BY <3>1, <1>4, WarningIsEnough
      <3> QED BY <3>2, <1>1
    <2> QED BY <2>1 DEF AllReliable
  <1>7. HistoryTellsTheBox'
    BY <1>1 DEF HistoryTellsTheBox
  <1>8. MirrorUnlessTorn'
    BY <1>1, <1>2, <1>3 DEF MirrorUnlessTorn, Inside
  <1> QED BY <1>5, <1>6, <1>7, <1>8 DEF RequestsInv

-----------------------------------------------------------------------------
(* Document actions                                                        *)

LEMMA PickDocInv ==
    ASSUME RequestsInv, NEW r \in Requests, NEW d \in Docs, NEW status \in Statuses,
           PickDoc(r, d, status)
    PROVE  RequestsInv'
  <1> DEFINE q == [Idle EXCEPT !.step = IF docs[d].inside THEN "picked" ELSE "looked",
                               !.goal.status = status, !.doc = d,
                               !.wasIn = docs[d].inside, !.was = docs[d].status]
  <1>1. docs[d] \in DocRow
    BY DEF RequestsInv, TypeOK
  <1>2. q \in Request
    BY <1>1, IdleIsReliable DEF Request, Steps, BoxRow, DocRow
  <1>3. q.doc = d /\ q.wasIn = docs[d].inside
    BY IdleIsReliable DEF Request
  <1>4. q.step = IF docs[d].inside THEN "picked" ELSE "looked"
    BY IdleIsReliable DEF Request
  <1>5. requests' = [requests EXCEPT ![r] = q] /\ UNCHANGED <<box, docs, history, past>>
    BY DEF PickDoc
  <1>6. requests[r].step = "idle"
    BY DEF PickDoc, Idle
  <1> HIDE DEF q
  <1>7. q.step = "picked" \/ (q.step = "looked" /\ ~q.wasIn)
    BY <1>3, <1>4
  <1>8. TypeOK'
    BY <1>2, <1>5 DEF RequestsInv, TypeOK
  <1>9. Reliable(q, box, docs)
    BY <1>3, <1>7 DEF Reliable, Carries, PassedGuards, WritesBox, ReadsAreFresh, UpdateStands
  <1>10. AllReliable'
    BY <1>5, <1>9, OwnStepReliable DEF RequestsInv
  <1>11. KeptBut({r})
    BY <1>5, OwnStepKeeps DEF RequestsInv
  <1>12. HistoryTellsTheBox' /\ MirrorUnlessTorn'
    BY <1>5, <1>6, <1>11, QuietStep DEF RequestsInv
  <1> QED BY <1>8, <1>10, <1>12 DEF RequestsInv

LEMMA LookAtBoxInv ==
    ASSUME RequestsInv, NEW r \in Requests, LookAtBox(r)
    PROVE  RequestsInv'
  <1> DEFINE q == requests[r]
             goal == [box EXCEPT !.status = q.goal.status]
             looked == [q EXCEPT !.step = "looked", !.seen = box, !.goal = goal]
             next == IF goal # box /\ MayBecome(box, goal) THEN looked ELSE Idle
  <1>1. q \in Request /\ q.step = "picked" /\ Reliable(q, box, docs)
    BY DEF LookAtBox, RequestsInv, TypeOK, AllReliable
  <1>2. goal \in BoxRow /\ goal.barcode = box.barcode
    BY <1>1, RowWithStatus DEF RequestsInv, TypeOK, Request, BoxRow
  <1>3. requests' = [requests EXCEPT ![r] = next] /\ UNCHANGED <<box, docs, history, past>>
    BY DEF LookAtBox
  <1> HIDE DEF goal
  <1>4. /\ looked \in Request /\ looked.step = "looked" /\ looked.seen = box
        /\ looked.goal = goal /\ looked.doc = q.doc
    BY <1>1, <1>2 DEF Request, Steps, RequestsInv, TypeOK
  <1> HIDE DEF looked
  <1>5. TypeOK'
    BY <1>3, <1>4, IdleIsReliable DEF RequestsInv, TypeOK
  <1>6. MayBecome(box, goal) => Reliable(looked, box, docs)
    BY <1>1, <1>2, <1>4 DEF Reliable, Carries, PassedGuards, WritesBox, ReadsAreFresh, UpdateStands
  <1>7. Reliable(next, box, docs)
    BY <1>6, IdleIsReliable
  <1>8. AllReliable'
    BY <1>3, <1>7, OwnStepReliable DEF RequestsInv
  <1>9. KeptBut({r})
    BY <1>3, OwnStepKeeps DEF RequestsInv
  <1>10. HistoryTellsTheBox' /\ MirrorUnlessTorn'
    BY <1>1, <1>3, <1>9, QuietStep DEF RequestsInv
  <1> QED BY <1>5, <1>8, <1>10 DEF RequestsInv

LEMMA CommitBoxStatusInv ==
    ASSUME RequestsInv, NEW r \in Requests, CommitBoxStatus(r)
    PROVE  RequestsInv'
  <1> DEFINE q == requests[r]
             status == q.goal.status
             new == [box EXCEPT !.status = status]
             torn == past.torn \ Inside
             changed == box' # box
             seen == Changed(docs')
  <1>1. /\ q \in Request /\ q.step = "looked" /\ q.wasIn /\ Reliable(q, box, docs)
    BY DEF CommitBoxStatus, RequestsInv, TypeOK, AllReliable
  <1>2. /\ box' = new /\ history' = q.goal /\ docs' = Mirrored(status)
        /\ ThenBecomes(r, Idle, changed, seen)
        /\ past' = [torn |-> torn, untold |-> q.outdated, retired |-> RetiredBy(new)]
    BY DEF CommitBoxStatus
  <1>3. /\ status \in Statuses /\ q.goal \in BoxRow /\ q.seen \in BoxRow
        /\ q.outdated \in BOOLEAN
    BY <1>1 DEF Request, BoxRow
  <1>4. new \in BoxRow /\ new.status = status /\ new.barcode = box.barcode
    BY <1>3, RowWithStatus DEF RequestsInv, TypeOK
  <1>5. /\ docs' \in [Docs -> DocRow]
        /\ \A d \in Docs : /\ docs'[d].inside = docs[d].inside
                           /\ docs[d].inside => docs'[d].status = status
    BY <1>2, <1>3, MirroredDocs DEF RequestsInv
  <1>6. changed \in BOOLEAN /\ (~changed => box' = box)
    BY Zenon
  <1>7. \A d \in Docs : d \notin seen => docs'[d] = docs[d]
    BY DEF Changed
  <1> HIDE DEF new, changed, seen, status
  <1>8. TypeOK'
    <2>1. requests' \in [Requests -> Request]
      BY <1>2, <1>6, IdleIsReliable, ThenBecomesType DEF RequestsInv
    <2>2. torn \subseteq Docs
      BY DEF RequestsInv, TypeOK, Pasts
    <2>3. past' \in Pasts
      BY <2>2, <1>2, <1>3, <1>4, RetiredType DEF RequestsInv, Pasts
    <2> QED BY <2>1, <2>3, <1>2, <1>3, <1>4, <1>5 DEF TypeOK
  <1>9. AllReliable'
    BY <1>2, <1>6, <1>7, IdleIsReliable, ThenBecomesReliable DEF RequestsInv
  <1>10. HistoryTellsTheBox'
    <2>1. ASSUME ~q.outdated PROVE q.goal = new
      <3>1. q.goal.barcode = box.barcode
        BY <2>1, <1>1 DEF Reliable, PassedGuards, ReadsAreFresh, WritesBox
      <3>2. q.goal.status = new.status
        BY <1>4 DEF status
      <3> QED BY <3>1, <3>2, <1>3, <1>4 DEF BoxRow
    <2> QED BY <2>1, <1>2 DEF HistoryTellsTheBox
  <1>11. MirrorUnlessTorn'
    BY <1>2, <1>4, <1>5 DEF MirrorUnlessTorn, Inside
  <1> QED BY <1>8, <1>9, <1>10, <1>11 DEF RequestsInv

LEMMA CommitDocStatusInv ==
    ASSUME RequestsInv, NEW r \in Requests, CommitDocStatus(r)
    PROVE  RequestsInv'
  <1> DEFINE q == requests[r]
             torn == IF docs[q.doc].inside THEN past.torn \cup {q.doc} ELSE past.torn
             seen == Changed(docs')
  <1>1. /\ q \in Request /\ q.step = "looked" /\ Reliable(q, box, docs)
        /\ q.doc \in Docs
    BY DEF CommitDocStatus, RequestsInv, TypeOK, AllReliable, Reliable, Carries
  <1>2. /\ docs' = [docs EXCEPT ![q.doc].status = q.goal.status]
        /\ ThenBecomes(r, Idle, FALSE, seen)
        /\ past' = [past EXCEPT !.torn = torn]
        /\ UNCHANGED <<box, history>>
    BY DEF CommitDocStatus
  <1>3. q.goal.status \in Statuses
    BY <1>1 DEF Request, BoxRow
  <1>4. /\ docs' \in [Docs -> DocRow]
        /\ \A d \in Docs : docs'[d].inside = docs[d].inside
        /\ \A d \in Docs : d # q.doc => docs'[d] = docs[d]
    BY <1>1, <1>2, <1>3 DEF RequestsInv, TypeOK, DocRow
  <1>5. torn \subseteq Docs /\ past'.torn = torn /\ past'.untold = past.untold
    BY <1>1, <1>2 DEF RequestsInv, TypeOK, Pasts
  <1>6. \A d \in Docs : d \notin seen => docs'[d] = docs[d]
    BY DEF Changed
  <1> HIDE DEF seen
  <1>7. TypeOK'
    <2>1. requests' \in [Requests -> Request]
      BY <1>2, IdleIsReliable, ThenBecomesType DEF RequestsInv
    <2>2. past' \in Pasts
      BY <1>2, <1>5 DEF RequestsInv, TypeOK, Pasts
    <2> QED BY <2>1, <2>2, <1>2, <1>4 DEF RequestsInv, TypeOK
  <1>8. AllReliable'
    BY <1>2, <1>6, IdleIsReliable, ThenBecomesReliable DEF RequestsInv
  <1>9. KeptBut({r})
    BY <1>2, ThenBecomesKeeps DEF RequestsInv
  <1>10. HistoryTellsTheBox'
    <2>1. HistoryPending => HistoryPending'
      BY <1>1, <1>9, HistoryStaysPending
    <2> QED BY <2>1, <1>2, <1>5, Zenon DEF RequestsInv, HistoryTellsTheBox
  <1>11. MirrorUnlessTorn'
    <2>1. MirrorPending => MirrorPending'
      BY <1>1, <1>9, MirrorStaysPending DEF OwesMirror
    <2>2. ASSUME NEW d \in Inside' \ past'.torn
          PROVE  d \in Inside \ past.torn /\ docs'[d] = docs[d]
      <3>1. d \in Inside
        BY <1>4 DEF Inside
      <3>2. d # q.doc
        BY <3>1, <1>5 DEF Inside
      <3> QED BY <3>1, <3>2, <1>4, <1>5 DEF Inside
    <2> QED BY <2>1, <2>2, <1>2 DEF RequestsInv, MirrorUnlessTorn
  <1> QED BY <1>7, <1>8, <1>10, <1>11 DEF RequestsInv

LEMMA PickMoveInv ==
    ASSUME RequestsInv, NEW r \in Requests, NEW d \in Docs, PickMove(r, d)
    PROVE  RequestsInv'
  <1> DEFINE q == [Idle EXCEPT !.step = "moving", !.doc = d, !.was = docs[d].status]
  <1>1. docs[d] \in DocRow
    BY DEF RequestsInv, TypeOK
  <1>2. q \in Request /\ q.step = "moving" /\ q.doc = d /\ q.was = docs[d].status
    BY <1>1, IdleIsReliable DEF Request, Steps, DocRow
  <1>3. requests' = [requests EXCEPT ![r] = q] /\ UNCHANGED <<box, docs, history, past>>
    BY DEF PickMove
  <1>4. requests[r].step = "idle"
    BY DEF PickMove, Idle
  <1> HIDE DEF q
  <1>5. TypeOK'
    BY <1>2, <1>3 DEF RequestsInv, TypeOK
  <1>6. Reliable(q, box, docs)
    BY <1>2 DEF Reliable, Carries, PassedGuards, WritesBox, ReadsAreFresh, UpdateStands
  <1>7. AllReliable'
    BY <1>3, <1>6, OwnStepReliable DEF RequestsInv
  <1>8. KeptBut({r})
    BY <1>3, OwnStepKeeps DEF RequestsInv
  <1>9. HistoryTellsTheBox' /\ MirrorUnlessTorn'
    BY <1>3, <1>4, <1>8, QuietStep DEF RequestsInv
  <1> QED BY <1>5, <1>7, <1>9 DEF RequestsInv

LEMMA BeginMoveInv ==
    ASSUME RequestsInv, NEW r \in Requests, BeginMove(r)
    PROVE  RequestsInv'
  <1> DEFINE q == requests[r]
             placing == [q EXCEPT !.step = "placing", !.seen = box]
  <1>1. q \in Request /\ q.step = "moving" /\ Reliable(q, box, docs)
    BY DEF BeginMove, RequestsInv, TypeOK, AllReliable
  <1>2. /\ placing \in Request /\ placing.step = "placing" /\ placing.seen = box
        /\ placing.doc = q.doc /\ placing.was = q.was /\ placing.outdated = q.outdated
    BY <1>1 DEF Request, Steps, RequestsInv, TypeOK
  <1>3. requests' = [requests EXCEPT ![r] = placing] /\ UNCHANGED <<box, docs, history, past>>
    BY <1>1 DEF BeginMove, RequestsInv, TypeOK
  <1> HIDE DEF placing
  <1>4. TypeOK'
    BY <1>2, <1>3 DEF RequestsInv, TypeOK
  <1>5. Reliable(placing, box, docs)
    BY <1>1, <1>2 DEF Reliable, Carries, PassedGuards, WritesBox, ReadsAreFresh, UpdateStands
  <1>6. AllReliable'
    BY <1>3, <1>5, OwnStepReliable DEF RequestsInv
  <1>7. KeptBut({r})
    BY <1>3, OwnStepKeeps DEF RequestsInv
  <1>8. HistoryTellsTheBox' /\ MirrorUnlessTorn'
    BY <1>1, <1>3, <1>7, QuietStep DEF RequestsInv
  <1> QED BY <1>4, <1>6, <1>8 DEF RequestsInv

LEMMA CommitMoveInv ==
    ASSUME RequestsInv, NEW r \in Requests, CommitMove(r)
    PROVE  RequestsInv'
  <1> DEFINE q == requests[r]
             status == IF q.seen.status # q.was THEN q.seen.status ELSE docs[q.doc].status
             torn == IF q.outdated THEN past.torn \cup {q.doc} ELSE past.torn \ {q.doc}
             seen == Changed(docs')
  <1>1. /\ q \in Request /\ q.step = "placing" /\ Reliable(q, box, docs)
        /\ q.doc \in Docs
    BY DEF CommitMove, RequestsInv, TypeOK, AllReliable, Reliable, Carries
  <1>2. /\ docs' = [docs EXCEPT ![q.doc] = [inside |-> TRUE, status |-> status]]
        /\ ThenBecomes(r, Idle, FALSE, seen)
        /\ past' = [past EXCEPT !.torn = torn]
        /\ UNCHANGED <<box, history>>
    BY DEF CommitMove
  <1>3. status \in Statuses
    BY <1>1 DEF Request, BoxRow, RequestsInv, TypeOK, DocRow
  <1>4. /\ docs' \in [Docs -> DocRow]
        /\ docs'[q.doc].status = status
        /\ \A d \in Docs : d # q.doc => docs'[d] = docs[d]
    BY <1>1, <1>2, <1>3 DEF RequestsInv, TypeOK, DocRow
  <1>5. torn \subseteq Docs /\ past'.torn = torn /\ past'.untold = past.untold
    BY <1>1, <1>2 DEF RequestsInv, TypeOK, Pasts
  <1>6. \A d \in Docs : d \notin seen => docs'[d] = docs[d]
    BY DEF Changed
  <1>7. ~q.outdated => status = box.status
    BY <1>1 DEF Reliable, ReadsAreFresh
  <1> HIDE DEF seen, status
  <1>8. TypeOK'
    <2>1. requests' \in [Requests -> Request]
      BY <1>2, IdleIsReliable, ThenBecomesType DEF RequestsInv
    <2>2. past' \in Pasts
      BY <1>2, <1>5 DEF RequestsInv, TypeOK, Pasts
    <2> QED BY <2>1, <2>2, <1>2, <1>4 DEF RequestsInv, TypeOK
  <1>9. AllReliable'
    BY <1>2, <1>6, IdleIsReliable, ThenBecomesReliable DEF RequestsInv
  <1>10. KeptBut({r})
    BY <1>2, ThenBecomesKeeps DEF RequestsInv
  <1>11. HistoryTellsTheBox'
    <2>1. HistoryPending => HistoryPending'
      BY <1>1, <1>10, HistoryStaysPending
    <2> QED BY <2>1, <1>2, <1>5, Zenon DEF RequestsInv, HistoryTellsTheBox
  <1>12. MirrorUnlessTorn'
    <2>1. MirrorPending => MirrorPending'
      BY <1>1, <1>10, MirrorStaysPending DEF OwesMirror
    <2>2. ASSUME ~MirrorPending', NEW d \in Inside' \ past'.torn
          PROVE  docs'[d].status = box'.status
      <3>1. CASE d = q.doc
        <4>1. ~q.outdated
          BY <3>1, <2>2, <1>5
        <4> QED BY <3>1, <4>1, <1>2, <1>4, <1>7
      <3>2. CASE d # q.doc
        <4>1. d \in Inside \ past.torn /\ docs'[d] = docs[d]
          BY <3>2, <2>2, <1>4, <1>5 DEF Inside
        <4> QED BY <4>1, <2>1, <2>2, <1>2 DEF RequestsInv, MirrorUnlessTorn
      <3> QED BY <3>1, <3>2
    <2> QED BY <2>2 DEF MirrorUnlessTorn
  <1> QED BY <1>8, <1>9, <1>11, <1>12 DEF RequestsInv

LEMMA MoveOutInv ==
    ASSUME RequestsInv, NEW d \in Docs, MoveOut(d)
    PROVE  RequestsInv'
  <1> DEFINE torn == past.torn \ {d}
  <1>1. /\ docs' = [docs EXCEPT ![d].inside = FALSE]
        /\ requests' = [s \in Requests |-> Warned(requests[s], FALSE, {d})]
        /\ past' = [past EXCEPT !.torn = torn]
        /\ UNCHANGED <<box, history>>
    BY DEF MoveOut
  <1>2. /\ docs' \in [Docs -> DocRow] /\ ~docs'[d].inside
        /\ \A e \in Docs : e # d => docs'[e] = docs[e]
    BY <1>1 DEF RequestsInv, TypeOK, DocRow
  <1>3. torn \subseteq Docs /\ past'.torn = torn /\ past'.untold = past.untold
    BY <1>1 DEF RequestsInv, TypeOK, Pasts
  <1>4. TypeOK'
    <2>1. requests' \in [Requests -> Request]
      BY <1>1, WarnedKeeps DEF RequestsInv, TypeOK
    <2>2. past' \in Pasts
      BY <1>1, <1>3 DEF RequestsInv, TypeOK, Pasts
    <2> QED BY <2>1, <2>2, <1>1, <1>2 DEF RequestsInv, TypeOK
  <1>5. ASSUME NEW s \in Requests
        PROVE  requests[s] \in Request /\ requests'[s] = Warned(requests[s], FALSE, {d})
    BY <1>1 DEF RequestsInv, TypeOK
  <1>6. AllReliable'
    <2>1. ASSUME NEW s \in Requests
          PROVE  Reliable(requests'[s], box', docs')
      <3>1. Reliable(requests[s], box, docs)
        BY DEF RequestsInv, AllReliable
      <3>2. Reliable(Warned(requests[s], FALSE, {d}), box', docs')
        BY <3>1, <1>1, <1>2, <1>5, WarningIsEnough
      <3> QED BY <3>2, <1>5
    <2> QED BY <2>1 DEF AllReliable
  <1>7. KeptBut({})
    <2> DEFINE boxChanged == FALSE
               changed == {d}
    <2>0. boxChanged \in BOOLEAN
      OBVIOUS
    <2>1. ASSUME NEW s \in Requests
          PROVE  /\ requests'[s].step = requests[s].step
                 /\ requests'[s].seen = requests[s].seen
                 /\ requests'[s].goal = requests[s].goal
      <3>1. requests[s] \in Request /\ requests'[s] = Warned(requests[s], boxChanged, changed)
        BY <1>5
      <3> HIDE DEF boxChanged, changed
      <3> QED BY <2>0, <3>1, WarnedStays
    <2> QED BY <2>1 DEF KeptBut
  <1>8. HistoryTellsTheBox'
    <2>1. HistoryPending => HistoryPending'
      BY <1>7, HistoryStaysPending
    <2> QED BY <2>1, <1>1, <1>3, Zenon DEF RequestsInv, HistoryTellsTheBox
  <1>9. MirrorUnlessTorn'
    <2>1. MirrorPending => MirrorPending'
      BY <1>7, MirrorStaysPending
    <2>2. ASSUME NEW e \in Inside' \ past'.torn
          PROVE  e \in Inside \ past.torn /\ docs'[e] = docs[e]
      BY <1>2, <1>3 DEF Inside
    <2> QED BY <2>1, <2>2, <1>1 DEF RequestsInv, MirrorUnlessTorn
  <1> QED BY <1>4, <1>6, <1>8, <1>9 DEF RequestsInv

-----------------------------------------------------------------------------
(* What holds of every run                                                 *)

LEMMA StutterInv == RequestsInv /\ UNCHANGED vars => RequestsInv'
  <1> SUFFICES ASSUME RequestsInv, UNCHANGED vars PROVE RequestsInv'
    OBVIOUS
  <1>1. UNCHANGED <<box, docs, history, requests, past>>
    BY DEF vars
  <1>2. TypeOK' /\ AllReliable'
    BY <1>1 DEF RequestsInv, TypeOK, AllReliable
  <1>3. HistoryTellsTheBox' /\ MirrorUnlessTorn'
    BY <1>1, Zenon DEF RequestsInv, HistoryTellsTheBox, HistoryPending,
                       MirrorUnlessTorn, MirrorPending, Inside
  <1> QED BY <1>2, <1>3 DEF RequestsInv

LEMMA StepInv == RequestsInv /\ [Next]_vars => RequestsInv'
  <1> SUFFICES ASSUME RequestsInv, [Next]_vars PROVE RequestsInv'
    OBVIOUS
  <1>1. ASSUME NEW r \in Requests,
               \/ \E goal \in BoxRow : LoadBox(r, goal)
               \/ UpdateBox(r) \/ WriteHistory(r) \/ MirrorStatus(r) \/ Die(r)
        PROVE  RequestsInv'
    BY <1>1, LoadBoxInv, UpdateBoxInv, WriteHistoryInv, MirrorStatusInv, DieInv
  <1>2. ASSUME NEW r \in Requests,
               \/ \E d \in Docs, status \in Statuses : PickDoc(r, d, status)
               \/ LookAtBox(r) \/ CommitBoxStatus(r) \/ CommitDocStatus(r)
        PROVE  RequestsInv'
    BY <1>2, PickDocInv, LookAtBoxInv, CommitBoxStatusInv, CommitDocStatusInv
  <1>3. ASSUME NEW r \in Requests,
               \/ \E d \in Docs : PickMove(r, d)
               \/ BeginMove(r) \/ CommitMove(r)
        PROVE  RequestsInv'
    BY <1>3, PickMoveInv, BeginMoveInv, CommitMoveInv
  <1>4. ASSUME NEW status \in Statuses, SetStatusLocked(status)
        PROVE  RequestsInv'
    BY <1>4, SetStatusLockedInv
  <1>5. ASSUME NEW d \in Docs, MoveOut(d)
        PROVE  RequestsInv'
    BY <1>5, MoveOutInv
  <1>6. CASE UNCHANGED vars
    BY <1>6, StutterInv
  <1> QED BY <1>1, <1>2, <1>3, <1>4, <1>5, <1>6, Zenon DEF Next

(* The invariant behind the theorems that follow.                          *)
THEOREM RequestsInvariant == Spec => []RequestsInv
  <1> QED BY InitInv, StepInv, PTL DEF Spec

(* Box, documents, history and requests keep their types, whatever         *)
(* overlaps.                                                               *)
THEOREM RequestsTypes == Spec => []TypeOK
  <1>1. RequestsInv => TypeOK
    BY DEF RequestsInv
  <1> QED BY <1>1, RequestsInvariant, PTL

(* The latest box_barcode_history row is what the box is, for any number   *)
(* of overlapping requests, save after a death between the two or an       *)
(* overlap.                                                                *)
THEOREM RequestsHistory == Spec => []HistoryTellsTheBox
  <1>1. RequestsInv => HistoryTellsTheBox
    BY DEF RequestsInv
  <1> QED BY <1>1, RequestsInvariant, PTL

(* A document in the box shows the status of the box once every page save  *)
(* has mirrored, but for the four ways of MirrorUnlessTorn.                *)
THEOREM RequestsMirror == Spec => []MirrorUnlessTorn
  <1>1. RequestsInv => MirrorUnlessTorn
    BY DEF RequestsInv
  <1> QED BY <1>1, RequestsInvariant, PTL

LeavesPermOut == box.status = "PERM_OUT" /\ box'.status # "PERM_OUT"
Allowed == \/ box'.status = "IN" /\ box'.barcode # box.barcode
           \/ \E r \in Requests : requests[r].outdated /\ requests'[r] # requests[r]

(* Only three actions write the row.                                       *)
LEMMA PermOutStep == RequestsInv /\ [Next]_vars => [LeavesPermOut => Allowed]_vars
  <1> SUFFICES ASSUME RequestsInv, Next, LeavesPermOut PROVE Allowed
    BY DEF LeavesPermOut, vars
  <1>1. ASSUME NEW r \in Requests, UpdateBox(r)
        PROVE  Allowed
    <2> DEFINE q == requests[r]
               u == [q EXCEPT !.step = "updated"]
    <2>1. /\ q \in Request /\ q.step = "loaded" /\ Reliable(q, box, docs)
          /\ box' = Written(q) /\ requests'[r] = u
      BY <1>1 DEF UpdateBox, ThenBecomes, RequestsInv, TypeOK, AllReliable
    <2>2. u.step = "updated"
      BY <2>1 DEF Request
    <2>3. CASE q.outdated
      BY <2>1, <2>2, <2>3 DEF Allowed
    <2>4. CASE ~q.outdated
      <3>1. q.seen = box /\ MayBecome(box, q.goal)
        BY <2>1, <2>4 DEF Reliable, ReadsAreFresh, PassedGuards, WritesBox
      <3>2. box' = q.goal
        BY <3>1, <2>1, WrittenRow DEF RequestsInv, TypeOK
      <3> QED BY <3>1, <3>2 DEF MayBecome, LeavesPermOut, Allowed
    <2> QED BY <2>3, <2>4
  <1>2. ASSUME NEW r \in Requests, CommitBoxStatus(r)
        PROVE  Allowed
    <2> DEFINE q == requests[r]
    <2>1. /\ q \in Request /\ q.step = "looked" /\ q.wasIn /\ Reliable(q, box, docs)
          /\ box' = [box EXCEPT !.status = q.goal.status] /\ requests'[r] = Idle
      BY <1>2 DEF CommitBoxStatus, ThenBecomes, RequestsInv, TypeOK, AllReliable
    <2>2. Idle.step = "idle"
      BY DEF Idle
    <2>3. CASE q.outdated
      BY <2>1, <2>2, <2>3 DEF Allowed
    <2>4. CASE ~q.outdated
      <3>1. MayBecome(box, q.goal) /\ q.goal.barcode = box.barcode
        BY <2>1, <2>4 DEF Reliable, ReadsAreFresh, PassedGuards, WritesBox
      <3>2. box'.status = q.goal.status
        BY <2>1 DEF RequestsInv, TypeOK, BoxRow
      <3> QED BY <3>1, <3>2 DEF MayBecome, LeavesPermOut
    <2> QED BY <2>3, <2>4
  <1>3. ASSUME NEW status \in Statuses, SetStatusLocked(status)
        PROVE  Allowed
    <2> DEFINE new == [box EXCEPT !.status = status]
    <2>1. MayBecome(box, new) /\ box' = new
      BY <1>3 DEF SetStatusLocked
    <2> QED BY <2>1 DEF MayBecome, LeavesPermOut, Allowed
  <1>4. ASSUME UNCHANGED box
        PROVE  FALSE
    BY <1>4 DEF LeavesPermOut
  <1> QED BY <1>1, <1>2, <1>3, <1>4, Zenon
          DEF Next, LoadBox, WriteHistory, MirrorStatus, Die, PickDoc, LookAtBox,
              CommitDocStatus, PickMove, BeginMove, CommitMove, MoveOut

(* A box leaves PERM OUT for IN with another barcode (C2.2, F4), for any   *)
(* number of overlapping requests, save by one that read it before.        *)
THEOREM RequestsPermOut == Spec => PermOutUnlessOutdated
  <1>1. [LeavesPermOut => Allowed]_vars <=>
            [box.status = "PERM_OUT" /\ box'.status # "PERM_OUT" =>
                \/ box'.status = "IN" /\ box'.barcode # box.barcode
                \/ \E r \in Requests : requests[r].outdated /\ requests'[r] # requests[r]]_vars
    BY DEF LeavesPermOut, Allowed
  <1> QED BY <1>1, PermOutStep, RequestsInvariant, PTL DEF Spec, PermOutUnlessOutdated

=============================================================================
