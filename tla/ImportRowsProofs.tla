-------------------------- MODULE ImportRowsProofs --------------------------
(***************************************************************************)
(* What ImportRows promises for any sheet, slice length, number of deaths  *)
(* and number of object ids: types, NoHalfRows, SuccessIsDurable, and that *)
(* rows are isolated from each other but for BehindFailure.                *)
(*                                                                         *)
(* Transactions nest at most two deep, and where the process is tells how  *)
(* deep (StackShape). What a rollback brings back is then known: whole     *)
(* rows only (NothingHalf), and every row reported as done, but for the    *)
(* state before a slice, which comes back only when the slice is done      *)
(* again (NothingLost).                                                    *)
(*                                                                         *)
(* What one row does to another goes through the ids and the memories      *)
(* (FateInv): an id is one box's for good (IdsAreOwned), the memo and the  *)
(* stashes are wrong only about what an earlier failure left (MemoIsRight, *)
(* StashIsOwn), so the record in memory and then the document are where    *)
(* the row says (RecordInMemory, DocumentsArePlaced).                      *)
(***************************************************************************)
EXTENDS ImportRows, TLAPS

InRow == at.step \in {"fill", "afterFill", "beforeSave", "saveRecord", "afterSave"}
Saving == at.step \in {"saveRecord", "afterSave"}

(* The caller's own transaction.                                           *)
Outer == IF \/ caller = "chunk" /\ at.step \notin {"idle", "reported", "aborted"}
            \/ caller = "row" /\ InRow
         THEN 1 ELSE 0

StackShape ==
    /\ at.open <=> Saving
    /\ Len(stack) = Outer + Own
    /\ at.row >= 1
    /\ InRow => at.row \in Row /\ SliceOf(at.row) = at.slice

Whole(v, r) == v.docs[r].made => v.docs[r].whole

(* Only the row at hand may be half written, within its savepoint.         *)
NothingHalf ==
    /\ \A r \in Row : Whole(view, r) \/ (at.step = "afterSave" /\ r = at.row)
    /\ \A i \in 1..Len(stack), r \in Row : Whole(stack[i], r)

Kept(v, r) == outcome[r] = "ok" => v.docs[r].made

(* What was reported as done is in the tables, and in what a rollback      *)
(* brings back, but for the slice at hand at the bottom of its own         *)
(* transaction.                                                            *)
NothingLost ==
    /\ \A r \in Row : Kept(view, r)
    /\ at.step = "afterSave" => view.docs[at.row].made
    /\ \A i \in 1..Len(stack), r \in Row :
           Kept(stack[i], r) \/ (caller = "chunk" /\ i = 1 /\ SliceOf(r) = at.slice)

RowsInv == TypeOK /\ StackShape /\ NothingHalf /\ NothingLost

-----------------------------------------------------------------------------
(* Facts about the operators                                               *)

(* Closing n transactions leaves those below.                              *)
LEMMA ClosedStack ==
    ASSUME TypeOK, NEW n \in 0..Len(stack)
    PROVE  /\ Closed(n) \in Seq(View)
           /\ Len(Closed(n)) = Len(stack) - n
           /\ \A i \in 1..(Len(stack) - n) : Closed(n)[i] = stack[i]
  <1>1. stack \in Seq(View) /\ Len(stack) \in Nat
    BY DEF TypeOK
  <1> QED BY <1>1 DEF Closed

(* A new transaction rolls back to what there is now.                      *)
LEMMA BegunStack ==
    ASSUME NEW s \in Seq(View), NEW v \in View
    PROVE  /\ Append(s, v) \in Seq(View)
           /\ Len(Append(s, v)) = Len(s) + 1
           /\ \A i \in 1..Len(s) : Append(s, v)[i] = s[i]
           /\ Append(s, v)[Len(s) + 1] = v
  <1> QED OBVIOUS

LEMMA EmptyStack ==
    ASSUME NEW s \in Seq(View)
    PROVE  s = <<>> <=> Len(s) = 0
  <1> QED OBVIOUS

LEMMA SliceType ==
    ASSUME NEW r \in Row
    PROVE  SliceOf(r) \in Nat
  <1>1. Rows \in Nat /\ SliceLength \in Nat /\ SliceLength > 0
    BY ImportRowsAssumption
  <1>2. r - 1 \in Nat
    BY <1>1 DEF Row
  <1>3. (r - 1) \div SliceLength \in Nat
    BY <1>1, <1>2
  <1> QED BY <1>3 DEF SliceOf

(* Resolving a box writes no document.                                     *)
LEMMA ResolutionType ==
    ASSUME TypeOK, NEW box \in Boxes \cup {None}
    PROVE  /\ Resolution(box).id \in Nat
           /\ Resolution(box).memory \in [Boxes -> Nat]
           /\ Resolution(box).last \in Nat
           /\ Resolution(box).seen \in View
           /\ Resolution(box).seen.docs = view.docs
  <1>1. /\ view \in View /\ view.boxes \in [Boxes -> Nat] /\ memo \in [Boxes -> Nat]
        /\ lastId \in Nat
    BY DEF TypeOK, View
  <1>2. CASE box = None
    BY <1>1, <1>2 DEF Resolution
  <1>3. CASE box # None
    <2>1. box \in Boxes
      BY <1>3
    <2>2. IdOf(box) \in Nat
      BY <1>1, <2>1 DEF IdOf
    <2>3. /\ [memo EXCEPT ![box] = IdOf(box)] \in [Boxes -> Nat]
          /\ [view EXCEPT !.boxes[box] = IdOf(box)] \in View
          /\ [view EXCEPT !.boxes[box] = IdOf(box)].docs = view.docs
      BY <1>1, <2>1, <2>2 DEF View
    <2> DEFINE isNew == IdOf(box) = lastId + 1
               created == [view EXCEPT !.boxes[box] = IdOf(box)]
               noted == [memo EXCEPT ![box] = IdOf(box)]
    <2>4. /\ Resolution(box).id = IdOf(box)
          /\ Resolution(box).memory = noted
          /\ Resolution(box).seen = IF isNew THEN created ELSE view
          /\ Resolution(box).last = IF isNew THEN IdOf(box) ELSE lastId
      BY <1>3 DEF Resolution
    <2> HIDE DEF isNew, created, noted
    <2> QED BY <1>1, <2>2, <2>3, <2>4 DEF created, noted
  <1> QED BY <1>2, <1>3

(* The document at hand is filed, the others are left alone.               *)
LEMMA FiledType ==
    ASSUME NEW seen \in View, NEW moves \in Seq(Nat), NEW newest \in Nat, at.row \in Row
    PROVE  /\ Filed(seen, moves, newest) \in View
           /\ Filed(seen, moves, newest).docs[at.row].whole
           /\ Filed(seen, moves, newest).docs[at.row].made = seen.docs[at.row].made
           /\ \A r \in Row : r # at.row => Filed(seen, moves, newest).docs[r] = seen.docs[r]
  <1> DEFINE doc == seen.docs[at.row]
             box == IF Exists(newest, seen.boxes) THEN newest ELSE doc.box
             filed == [doc EXCEPT !.whole = TRUE, !.moves = moves, !.box = box]
  <1>1. doc \in Document /\ seen.docs \in [Row -> Document]
    BY DEF View
  <1>2. box \in Nat
    BY <1>1 DEF Document
  <1>3. Filed(seen, moves, newest) = [seen EXCEPT !.docs[at.row] = filed]
    BY Zenon DEF Filed
  <1> HIDE DEF doc, box
  <1>4. filed \in Document /\ filed.whole = TRUE /\ filed.made = doc.made
    BY <1>1, <1>2 DEF Document
  <1> HIDE DEF filed
  <1> QED BY <1>1, <1>3, <1>4 DEF View, doc

LEMMA SideEffectsType ==
    ASSUME TypeOK, at.row \in Row
    PROVE  /\ SideEffects.memory \in [Boxes -> Nat]
           /\ SideEffects.last \in Nat
           /\ SideEffects.seen \in View
           /\ SideEffects.seen.docs[at.row].whole
           /\ SideEffects.seen.docs[at.row].made = view.docs[at.row].made
           /\ \A r \in Row : r # at.row => SideEffects.seen.docs[r] = view.docs[r]
  <1> DEFINE situ == Resolution(Says.situ)
             isMove == at.box # 0 /\ situ.id # 0
             newest == IF situ.id # 0 THEN situ.id ELSE at.box
             moves == IF isMove THEN <<at.box, situ.id>> ELSE <<>>
  <1>1. Says.situ \in Boxes \cup {None}
    BY DEF TypeOK, Says, Content, Boxes
  <1>2. /\ situ.id \in Nat /\ situ.memory \in [Boxes -> Nat] /\ situ.last \in Nat
        /\ situ.seen \in View /\ situ.seen.docs = view.docs
    BY <1>1, ResolutionType
  <1>3. at.box \in Nat
    BY DEF TypeOK, Place
  <1>4. /\ SideEffects.memory = situ.memory /\ SideEffects.last = situ.last
        /\ SideEffects.seen = Filed(situ.seen, moves, newest)
    BY DEF SideEffects
  <1> HIDE DEF situ
  <1>5. newest \in Nat /\ moves \in Seq(Nat)
    BY <1>2, <1>3
  <1> HIDE DEF newest, moves
  <1> DEFINE seen == situ.seen
             filed == Filed(seen, moves, newest)
  <1>6. seen \in View /\ seen.docs = view.docs
    BY <1>2
  <1>7. SideEffects.seen = filed
    BY <1>4
  <1> HIDE DEF seen
  <1>8. /\ filed \in View /\ filed.docs[at.row].whole
        /\ filed.docs[at.row].made = seen.docs[at.row].made
        /\ \A r \in Row : r # at.row => filed.docs[r] = seen.docs[r]
    BY <1>5, <1>6, FiledType
  <1> HIDE DEF filed
  <1> QED BY <1>2, <1>4, <1>6, <1>7, <1>8, Zenon

(* Nothing of what is invariant but the types is about the memories.       *)
LEMMA SameRows ==
    ASSUME StackShape, NothingHalf, NothingLost,
           UNCHANGED <<caller, view, stack, at, outcome>>
    PROVE  StackShape' /\ NothingHalf' /\ NothingLost'
  <1> QED BY Zenon DEF StackShape, Outer, Own, Saving, InRow, SliceOf, NothingHalf,
                       NothingLost, Whole, Kept

(* Whether the savepoint is open is 0 or 1.                                *)
LEMMA OwnIsOpen ==
    ASSUME StackShape
    PROVE  /\ Saving => Own = 1
           /\ ~Saving => Own = 0
  <1> QED BY DEF StackShape, Own

(* A document just saved is inside its savepoint.                          *)
LEMMA SavedIsOpen ==
    ASSUME StackShape, at.step = "afterSave"
    PROVE  Len(stack) # 0
  <1>1. Own = 1
    BY OwnIsOpen DEF Saving
  <1>2. Outer \in {0, 1}
    BY DEF Outer
  <1>3. Len(stack) = Outer + Own
    BY DEF StackShape
  <1> QED BY <1>1, <1>2, <1>3

-----------------------------------------------------------------------------
(* The job                                                                 *)

LEMMA InitInv == Init => RowsInv
  <1> SUFFICES ASSUME Init PROVE RowsInv
    OBVIOUS
  <1>1. /\ at \in [step : {"idle"}, slice : {0}, row : {1}, slot : Slots, box : {0}, open : {FALSE}]
        /\ at.step = "idle" /\ at.row = 1 /\ ~at.open
    BY DEF Init
  <1>2. /\ stack = <<>> /\ outcome = [r \in Row |-> "todo"]
        /\ view = [boxes |-> Forgotten, docs |-> [r \in Row |-> NoDocument]]
    BY DEF Init
  <1>3. TypeOK
    <2>1. view \in View
      BY <1>2 DEF View, Document, Forgotten, NoDocument
    <2>2. at \in Place
      <3>1. PICK slot \in Slots : at = [step |-> "idle", slice |-> 0, row |-> 1,
                                       slot |-> slot, box |-> 0, open |-> FALSE]
        BY <1>1
      <3>2. "idle" \in Steps
        BY DEF Steps
      <3> QED BY <3>1, <3>2 DEF Place
    <2> QED BY <2>1, <2>2, <1>2, ImportRowsAssumption
            DEF Init, TypeOK, Forgotten, EmptyStash
  <1>4. StackShape
    BY <1>1, <1>2 DEF StackShape, Saving, InRow, Outer, Own
  <1>5. NothingHalf
    BY <1>2 DEF NothingHalf, Whole, NoDocument
  <1>6. NothingLost
    BY <1>1, <1>2 DEF NothingLost, Kept
  <1> QED BY <1>3, <1>4, <1>5, <1>6 DEF RowsInv

LEMMA TakeSliceInv ==
    ASSUME RowsInv, NEW r \in Row, TakeSlice(r)
    PROVE  RowsInv'
  <1>1. /\ at.step = "idle" /\ memo' = Forgotten
        /\ at' = [at EXCEPT !.step = "between", !.slice = SliceOf(r), !.row = r]
        /\ stack' = IF caller = "chunk" THEN Begun ELSE stack
        /\ UNCHANGED <<sheet, caller, skips, view, lastId, stash, outcome, deaths>>
    BY DEF TakeSlice
  <1>2. /\ at \in Place /\ stack \in Seq(View) /\ view \in View
        /\ r \in Nat /\ r >= 1
    BY ImportRowsAssumption DEF RowsInv, TypeOK, Row
  <1>3. /\ at' \in Place /\ at'.step = "between" /\ at'.row = r /\ at'.open = at.open
    BY <1>1, <1>2, SliceType DEF Place, Steps
  <1>4. Len(stack) = 0 /\ Own = 0 /\ ~at.open
    BY <1>1, OwnIsOpen DEF RowsInv, StackShape, Outer, InRow, Saving
  <1>5. /\ stack' \in Seq(View)
        /\ Len(stack') = IF caller = "chunk" THEN 1 ELSE 0
        /\ \A i \in 1..Len(stack') : stack'[i] = view
    <2>1. CASE caller = "chunk"
      BY <2>1, <1>1, <1>2, <1>4, BegunStack DEF Begun
    <2>2. CASE caller # "chunk"
      BY <2>2, <1>1, <1>2, <1>4
    <2> QED BY <2>1, <2>2
  <1>6. TypeOK'
    BY <1>1, <1>3, <1>5 DEF RowsInv, TypeOK, Forgotten
  <1>7. StackShape'
    BY <1>1, <1>2, <1>3, <1>4, <1>5 DEF StackShape, Outer, Own, InRow, Saving
  <1>8. \A q \in Row : Whole(view, q) /\ Kept(view, q)
    BY <1>1 DEF RowsInv, NothingHalf, NothingLost
  <1>9. NothingHalf'
    BY <1>1, <1>3, <1>5, <1>8 DEF NothingHalf, Whole
  <1>10. NothingLost'
    BY <1>1, <1>3, <1>5, <1>8 DEF NothingLost, Kept
  <1> QED BY <1>6, <1>7, <1>9, <1>10 DEF RowsInv

LEMMA ReportSliceInv ==
    ASSUME RowsInv, ReportSlice
    PROVE  RowsInv'
  <1>1. /\ at.step = "between" /\ at' = [at EXCEPT !.step = "reported"]
        /\ stack' = IF caller = "chunk" THEN Closed(1) ELSE stack
        /\ UNCHANGED <<sheet, caller, skips, view, lastId, memo, stash, outcome, deaths>>
    BY DEF ReportSlice, GoesOn
  <1>2. /\ at' \in Place /\ at'.step = "reported" /\ at'.row = at.row /\ at'.open = at.open
    BY <1>1 DEF RowsInv, TypeOK, Place, Steps
  <1>3. /\ Own = 0 /\ ~at.open /\ Len(stack) = IF caller = "chunk" THEN 1 ELSE 0
        /\ at.row >= 1
    BY <1>1, OwnIsOpen DEF RowsInv, StackShape, Outer, InRow, Saving
  <1>4. stack' \in Seq(View) /\ Len(stack') = 0
    <2>1. CASE caller = "chunk"
      BY <2>1, <1>1, <1>3, ClosedStack DEF RowsInv
    <2>2. CASE caller # "chunk"
      BY <2>2, <1>1, <1>3 DEF RowsInv, TypeOK
    <2> QED BY <2>1, <2>2
  <1>5. TypeOK'
    BY <1>1, <1>2, <1>4 DEF RowsInv, TypeOK
  <1>6. StackShape'
    BY <1>1, <1>2, <1>3, <1>4 DEF StackShape, Outer, Own, InRow, Saving
  <1>7. NothingHalf' /\ NothingLost'
    BY <1>1, <1>2, <1>4 DEF RowsInv, NothingHalf, NothingLost, Whole, Kept
  <1> QED BY <1>5, <1>6, <1>7 DEF RowsInv

LEMMA DeleteJobInv ==
    ASSUME RowsInv, DeleteJob
    PROVE  RowsInv'
  <1>1. /\ at.step = "reported" /\ at' = [at EXCEPT !.step = "idle", !.open = FALSE]
        /\ UNCHANGED <<sheet, caller, skips, view, stack, lastId, memo, stash, outcome, deaths>>
    BY DEF DeleteJob
  <1>2. /\ at' \in Place /\ at'.step = "idle" /\ at'.row = at.row /\ ~at'.open
    BY <1>1 DEF RowsInv, TypeOK, Place, Steps
  <1>3. Len(stack) = 0 /\ at.row >= 1
    BY <1>1, OwnIsOpen DEF RowsInv, StackShape, Outer, InRow, Saving
  <1>4. TypeOK'
    BY <1>1, <1>2 DEF RowsInv, TypeOK
  <1>5. StackShape'
    BY <1>1, <1>2, <1>3 DEF StackShape, Outer, Own, InRow, Saving
  <1>6. NothingHalf' /\ NothingLost'
    BY <1>1, <1>2, <1>3 DEF RowsInv, NothingHalf, NothingLost, Whole, Kept
  <1> QED BY <1>4, <1>5, <1>6 DEF RowsInv

LEMMA DieInv ==
    ASSUME RowsInv, Die
    PROVE  RowsInv'
  <1>1. /\ deaths < MaxDeaths /\ deaths' = deaths + 1
        /\ view' = Committed /\ stack' = <<>> /\ memo' = Forgotten /\ stash' = EmptyStash
        /\ at' = [at EXCEPT !.step = "idle", !.open = FALSE]
        /\ outcome' = [r \in Row |-> IF at.step # "idle" /\ SliceOf(r) = at.slice
                                     THEN "todo" ELSE outcome[r]]
        /\ UNCHANGED <<sheet, caller, skips, lastId>>
    BY DEF Die
  <1>2. /\ at' \in Place /\ at'.step = "idle" /\ at'.row = at.row /\ ~at'.open
    BY <1>1 DEF RowsInv, TypeOK, Place, Steps
  <1>3. stack \in Seq(View) /\ view \in View /\ at.row >= 1
    BY DEF RowsInv, TypeOK, StackShape
  <1>4. /\ view' \in View
        /\ \A r \in Row : Whole(view', r)
        /\ \A r \in Row : Kept(view', r) \/ (at.step # "idle" /\ SliceOf(r) = at.slice)
    <2>1. CASE Len(stack) = 0
      <3>1. view' = view
        BY <2>1, <1>1, <1>3, EmptyStack DEF Committed
      <3>2. at.step # "afterSave"
        BY <2>1, SavedIsOpen DEF RowsInv
      <3> QED BY <3>1, <3>2, <1>3 DEF RowsInv, NothingHalf, NothingLost
    <2>2. CASE Len(stack) # 0
      <3>1. stack # <<>>
        BY <2>2, <1>3, EmptyStack
      <3>2. view' = stack[1] /\ 1 \in 1..Len(stack)
        BY <2>2, <3>1, <1>1, <1>3 DEF Committed
      <3>3. at.step # "idle"
        BY <2>2, OwnIsOpen DEF RowsInv, StackShape, Outer, InRow, Saving
      <3> QED BY <3>2, <3>3, <1>3 DEF RowsInv, NothingHalf, NothingLost
    <2> QED BY <2>1, <2>2
  <1>6. TypeOK'
    <2>1. outcome' \in [Row -> {"todo", "ok", "failed"}]
      BY <1>1 DEF RowsInv, TypeOK
    <2>2. deaths' \in 0..MaxDeaths
      BY <1>1, ImportRowsAssumption DEF RowsInv, TypeOK
    <2> QED BY <2>1, <2>2, <1>1, <1>2, <1>4 DEF RowsInv, TypeOK, Forgotten, EmptyStash
  <1>7. StackShape'
    BY <1>1, <1>2, <1>3 DEF StackShape, Outer, Own, InRow, Saving
  <1>8. NothingHalf'
    BY <1>1, <1>4 DEF NothingHalf, Whole
  <1>9. NothingLost'
    BY <1>1, <1>2, <1>4 DEF NothingLost, Kept
  <1> QED BY <1>6, <1>7, <1>8, <1>9 DEF RowsInv

LEMMA DeleteBoxInv ==
    ASSUME RowsInv, NEW box \in Boxes, DeleteBox(box)
    PROVE  RowsInv'
  <1> DEFINE id == view.boxes[box]
             Nulled(moves) == [i \in DOMAIN moves |-> IF moves[i] = id THEN 0 ELSE moves[i]]
             boxes == [view.boxes EXCEPT ![box] = 0]
             docs == [r \in Row |-> [view.docs[r] EXCEPT !.moves = Nulled(view.docs[r].moves)]]
  <1>1. /\ at.step = "idle" /\ view' = [boxes |-> boxes, docs |-> docs]
        /\ UNCHANGED <<sheet, caller, skips, stack, lastId, memo, stash, at, outcome, deaths>>
    BY Zenon DEF DeleteBox
  <1>2. view.boxes \in [Boxes -> Nat] /\ view.docs \in [Row -> Document]
    BY DEF RowsInv, TypeOK, View
  <1>3. ASSUME NEW r \in Row
        PROVE  /\ docs[r] \in Document
               /\ docs[r].made = view.docs[r].made /\ docs[r].whole = view.docs[r].whole
    <2> DEFINE doc == view.docs[r]
    <2>1. doc \in Document /\ doc.moves \in Seq(Nat)
      BY <1>2 DEF Document
    <2>2. Nulled(doc.moves) \in Seq(Nat)
      BY <2>1
    <2>3. docs[r] = [doc EXCEPT !.moves = Nulled(doc.moves)]
      OBVIOUS
    <2> HIDE DEF doc, Nulled, docs
    <2>4. docs[r] \in Document
      BY <2>1, <2>2, <2>3 DEF Document
    <2>5. docs[r].made = doc.made
      BY <2>1, <2>3 DEF Document
    <2>6. docs[r].whole = doc.whole
      BY <2>1, <2>3 DEF Document
    <2> QED BY <2>4, <2>5, <2>6 DEF doc
  <1>4. boxes \in [Boxes -> Nat] /\ docs \in [Row -> Document]
    BY <1>2, <1>3
  <1> HIDE DEF boxes, docs
  <1>5. view' \in View /\ view'.docs = docs
    BY <1>1, <1>4 DEF View
  <1>6. Len(stack) = 0
    BY <1>1, OwnIsOpen DEF RowsInv, StackShape, Outer, InRow, Saving
  <1>7. \A r \in Row : Whole(view', r) /\ Kept(view', r)
    <2>1. ASSUME NEW r \in Row
          PROVE  Whole(view', r) /\ Kept(view', r)
      <3>1. Whole(view, r) /\ Kept(view, r)
        BY <1>1 DEF RowsInv, NothingHalf, NothingLost
      <3>2. /\ view'.docs[r].made = view.docs[r].made
            /\ view'.docs[r].whole = view.docs[r].whole
        BY <1>3, <1>5
      <3> QED BY <3>1, <3>2, Zenon DEF Whole, Kept
    <2> QED BY <2>1
  <1>8. TypeOK'
    BY <1>1, <1>5 DEF RowsInv, TypeOK
  <1>9. StackShape'
    BY <1>1, Zenon DEF RowsInv, StackShape, Outer, Own, InRow, Saving, SliceOf
  <1>10. NothingHalf' /\ NothingLost'
    BY <1>1, <1>6, <1>7 DEF NothingHalf, NothingLost, Whole, Kept
  <1> QED BY <1>8, <1>9, <1>10 DEF RowsInv

-----------------------------------------------------------------------------
(* A row that throws                                                       *)

(* What the caller's catch brings back: a state of the row itself, never   *)
(* the one before the slice.                                               *)
LEMMA RowFailsShape ==
    ASSUME RowsInv, InRow, NEW memory \in [Boxes -> Nat],
           NEW stashed \in [Slots -> RasBoxes \cup {None}],
           RowFails(Own, view, memory, stashed)
    PROVE  /\ at' \in Place /\ at'.step \in {"between", "aborted"}
           /\ at'.step = "aborted" => caller = "console"
           /\ at'.row = at.row + 1 /\ ~at'.open /\ at'.slice = at.slice
           /\ stack' \in Seq(View)
           /\ Len(stack') = IF caller = "chunk" THEN 1 ELSE 0
           /\ \A i \in 1..Len(stack') : stack'[i] = stack[i] /\ i \in 1..Len(stack)
           /\ \/ view' = view /\ ~Saving /\ caller # "row"
              \/ \E i \in 1..Len(stack) :
                    /\ view' = stack[i]
                    /\ caller = "chunk" => i # 1 /\ i = Len(stack) /\ Saving
                    /\ caller = "row" => i = 1
  <1> DEFINE console == caller = "console"
             levels == IF console THEN Len(stack)
                       ELSE IF caller = "row" THEN Own + 1 ELSE Own
             open == at.open /\ Own = 0 /\ ~console
  <1>1. /\ view' = RolledBack(levels, view) /\ stack' = Closed(levels)
        /\ outcome' = [outcome EXCEPT ![at.row] = "failed"]
        /\ \E step \in GoesOnFrom(at.step) :
              at' = [at EXCEPT !.step = step, !.row = @ + 1, !.open = open]
        /\ memo' = (IF console THEN Forgotten ELSE memory)
        /\ stash' = (IF console THEN EmptyStash ELSE stashed)
        /\ UNCHANGED <<sheet, caller, skips, deaths>>
    BY Zenon DEF RowFails
  <1>2. /\ stack \in Seq(View) /\ view \in View /\ at \in Place /\ at.row \in Row
        /\ at.row \in Nat /\ at.row >= 1 /\ caller \in {"chunk", "row", "console"}
    BY DEF RowsInv, TypeOK, StackShape, Place
  <1>3. open = FALSE
    BY DEF Own
  <1> HIDE DEF open
  <1>4. /\ at' \in Place /\ at'.step \in {"between", "aborted"}
        /\ at'.step = "aborted" => caller = "console"
        /\ at'.row = at.row + 1 /\ ~at'.open /\ at'.slice = at.slice
    <2> PICK step \in GoesOnFrom(at.step) : at' = [at EXCEPT !.step = step, !.row = @ + 1, !.open = open]
      BY <1>1
    <2>1. at' = [at EXCEPT !.step = step, !.row = at.row + 1, !.open = FALSE]
      BY <1>3
    <2>6. step \in {"between", "aborted"} /\ (step = "aborted" => caller = "console")
      BY DEF GoesOnFrom
    <2>2. at.row + 1 \in Nat /\ step \in Steps /\ FALSE \in BOOLEAN
      BY <1>2, <2>6 DEF Steps
    <2>3. at' \in Place
      BY <2>1, <2>2, <1>2 DEF Place
    <2>4. at'.step = step /\ at'.row = at.row + 1 /\ at'.slice = at.slice
      BY <2>1, <1>2 DEF Place
    <2>5. at'.open = FALSE
      BY <2>1, <1>2 DEF Place
    <2> QED BY <2>3, <2>4, <2>5, <2>6
  <1>5. /\ Own \in {0, 1} /\ Len(stack) = Outer + Own
        /\ Outer = IF console THEN 0 ELSE 1
        /\ Own = 0 => at.step # "afterSave"
    BY <1>2, OwnIsOpen DEF RowsInv, StackShape, Outer, Own, InRow, Saving
  <1>6. /\ levels \in 0..Len(stack)
        /\ Len(stack) - levels = IF caller = "chunk" THEN 1 ELSE 0
        /\ levels = 0 => Own = 0
        /\ caller = "chunk" => levels = Own
    BY <1>2, <1>5
  <1> HIDE DEF levels
  <1>7. /\ stack' \in Seq(View)
        /\ Len(stack') = IF caller = "chunk" THEN 1 ELSE 0
        /\ \A i \in 1..Len(stack') : stack'[i] = stack[i] /\ i \in 1..Len(stack)
    <2>1. /\ Closed(levels) \in Seq(View)
          /\ Len(Closed(levels)) = Len(stack) - levels
          /\ \A i \in 1..(Len(stack) - levels) : Closed(levels)[i] = stack[i]
      BY <1>6, ClosedStack DEF RowsInv
    <2>2. Len(stack) \in Nat /\ Len(stack) - levels \in Nat /\ levels \in Nat
      BY <1>2, <1>6
    <2> QED BY <2>1, <2>2, <1>1, <1>6
  <1>8. \/ view' = view /\ ~Saving /\ caller # "row"
        \/ \E i \in 1..Len(stack) :
              /\ view' = stack[i]
              /\ caller = "chunk" => i # 1 /\ i = Len(stack) /\ Saving
              /\ caller = "row" => i = 1
    <2>1. Saving <=> Own = 1
      BY <1>5, OwnIsOpen DEF RowsInv
    <2>2. CASE levels = 0
      <3>1. view' = view /\ Own = 0
        BY <2>2, <1>1, <1>6 DEF RolledBack
      <3>2. caller # "row"
        BY <2>2, <1>2, <1>5, <1>6
      <3> QED BY <2>1, <3>1, <3>2
    <2>3. CASE levels # 0
      <3> DEFINE i == Len(stack) - levels + 1
      <3>1. view' = stack[i] /\ i \in 1..Len(stack)
        BY <2>3, <1>1, <1>2, <1>6 DEF RolledBack
      <3>2. caller = "chunk" => i = 2 /\ Len(stack) = 2 /\ Own = 1
        <4>1. caller = "chunk" => Len(stack) = 1 + Own /\ levels = Own /\ Own = 1
          BY <2>3, <1>5, <1>6
        <4> QED BY <4>1
      <3>3. caller = "row" => i = 1
        BY <1>2, <1>6
      <3> HIDE DEF i
      <3> QED BY <2>1, <3>1, <3>2, <3>3
    <2> QED BY <2>2, <2>3
  <1> QED BY <1>4, <1>7, <1>8

(* Whatever the hooks rolled back of their own, the caller's catch leaves  *)
(* whole rows and loses none that was reported as done.                    *)
LEMMA RowFailsInv ==
    ASSUME RowsInv, InRow, NEW memory \in [Boxes -> Nat],
           NEW stashed \in [Slots -> RasBoxes \cup {None}],
           RowFails(Own, view, memory, stashed), lastId' \in Nat
    PROVE  RowsInv'
  <1> DEFINE console == caller = "console"
  <1>1. /\ outcome' = [outcome EXCEPT ![at.row] = "failed"]
        /\ memo' = (IF console THEN Forgotten ELSE memory)
        /\ stash' = (IF console THEN EmptyStash ELSE stashed)
        /\ UNCHANGED <<sheet, caller, skips, deaths>>
    BY Zenon DEF RowFails
  <1>2. /\ stack \in Seq(View) /\ view \in View /\ at \in Place /\ at.row \in Row
        /\ at.row \in Nat /\ at.row >= 1 /\ caller \in {"chunk", "row", "console"}
    BY DEF RowsInv, TypeOK, StackShape, Place
  <1>3. /\ at' \in Place /\ at'.step \in {"between", "aborted"}
        /\ at'.step = "aborted" => caller = "console"
        /\ at'.row = at.row + 1 /\ ~at'.open /\ at'.slice = at.slice
    BY RowFailsShape
  <1>4. /\ stack' \in Seq(View)
        /\ Len(stack') = IF caller = "chunk" THEN 1 ELSE 0
        /\ \A i \in 1..Len(stack') : stack'[i] = stack[i] /\ i \in 1..Len(stack)
    BY RowFailsShape
  <1>5. view' \in View /\ \A r \in Row : Whole(view', r) /\ Kept(view', r)
    <2>1. CASE view' = view /\ ~Saving
      BY <2>1, <1>2 DEF RowsInv, NothingHalf, NothingLost, Saving
    <2>2. ASSUME NEW i \in 1..Len(stack), view' = stack[i], caller = "chunk" => i # 1
          PROVE  view' \in View /\ \A r \in Row : Whole(view', r) /\ Kept(view', r)
      BY <2>2, <1>2 DEF RowsInv, NothingHalf, NothingLost
    <2> QED BY <2>1, <2>2, RowFailsShape
  <1>6. \A v, r : r \in Row /\ Kept(v, r) => (outcome'[r] = "ok" => v.docs[r].made)
    BY <1>1 DEF Kept, RowsInv, TypeOK
  <1>7. TypeOK'
    <2>1. outcome' \in [Row -> {"todo", "ok", "failed"}]
      BY <1>1, <1>2 DEF RowsInv, TypeOK
    <2>2. memo' \in [Boxes -> Nat] /\ stash' \in [Slots -> RasBoxes \cup {None}]
      BY <1>1 DEF Forgotten, EmptyStash
    <2> QED BY <2>1, <2>2, <1>1, <1>3, <1>4, <1>5 DEF RowsInv, TypeOK
  <1>8. StackShape'
    BY <1>1, <1>2, <1>3, <1>4 DEF StackShape, Outer, Own, InRow, Saving
  <1>9. NothingHalf'
    BY <1>4, <1>5 DEF RowsInv, NothingHalf, Whole
  <1>10. NothingLost'
    <2>1. \A r \in Row : Kept(view, r)'
      BY <1>5, <1>6 DEF Kept
    <2>2. ASSUME NEW i \in 1..Len(stack'), NEW r \in Row
          PROVE  \/ outcome'[r] = "ok" => stack'[i].docs[r].made
                 \/ caller' = "chunk" /\ i = 1 /\ SliceOf(r)' = at'.slice
      <3>1. stack'[i] = stack[i] /\ i \in 1..Len(stack) /\ SliceOf(r)' = SliceOf(r)
        BY <1>1, <1>4 DEF SliceOf
      <3> QED BY <3>1, <1>1, <1>3, <1>6 DEF RowsInv, NothingLost
    <2> QED BY <2>1, <2>2, <1>3 DEF NothingLost, Kept
  <1> QED BY <1>7, <1>8, <1>9, <1>10 DEF RowsInv

-----------------------------------------------------------------------------
(* The hooks of a row                                                      *)

(* A hook that only goes on, with the documents as they are.               *)
LEMMA HookGoesOn ==
    ASSUME RowsInv, TypeOK', at'.step \in {"afterFill", "beforeSave"},
           at.step \in {"fill", "afterFill"},
           at'.row = at.row, at'.slice = at.slice, at'.open = at.open,
           view'.docs = view.docs, UNCHANGED <<caller, stack, outcome>>
    PROVE  RowsInv'
  <1>1. StackShape'
    <2>1. (at.open <=> Saving) /\ ~Saving /\ ~Saving' /\ InRow /\ InRow'
      BY DEF RowsInv, StackShape, Saving, InRow
    <2>2. Outer' = Outer /\ Own' = Own
      BY <2>1 DEF Outer, Own, InRow
    <2>3. SliceOf(at.row)' = SliceOf(at.row)
      BY DEF SliceOf
    <2> QED BY <2>1, <2>2, <2>3 DEF RowsInv, StackShape
  <1>2. NothingHalf'
    BY DEF RowsInv, NothingHalf, Whole
  <1>3. NothingLost'
    BY DEF RowsInv, NothingLost, Kept, SliceOf
  <1> QED BY <1>1, <1>2, <1>3 DEF RowsInv

LEMMA StartRowInv ==
    ASSUME RowsInv, NEW slot \in Slots, StartRow(slot)
    PROVE  RowsInv'
  <1> DEFINE box == view.docs[at.row].box
  <1>1. /\ RowToDo
        /\ at' = [at EXCEPT !.step = "fill", !.slot = slot, !.box = box]
        /\ stack' = IF caller = "row" THEN Begun ELSE stack
        /\ UNCHANGED <<sheet, caller, skips, view, lastId, memo, stash, outcome, deaths>>
    BY DEF StartRow
  <1>2. /\ at.step = "between" /\ at.row \in Row /\ SliceOf(at.row) = at.slice
        /\ at.row >= 1
    <2>1. at.row \in Nat /\ at.row >= 1
      BY DEF RowsInv, TypeOK, Place, StackShape
    <2> QED BY <1>1, <2>1, ImportRowsAssumption DEF RowToDo, Row
  <1>3. stack \in Seq(View) /\ view \in View /\ box \in Nat
    BY <1>2 DEF RowsInv, TypeOK, View, Document
  <1> HIDE DEF box
  <1>4. /\ at' \in Place /\ at'.step = "fill" /\ at'.row = at.row /\ at'.slice = at.slice
        /\ at'.open = at.open
    BY <1>1, <1>3 DEF RowsInv, TypeOK, Place, Steps
  <1>5. Own = 0 /\ ~at.open /\ Len(stack) = IF caller = "chunk" THEN 1 ELSE 0
    BY <1>2, OwnIsOpen DEF RowsInv, StackShape, Outer, InRow, Saving
  <1>6. /\ stack' \in Seq(View)
        /\ Len(stack') = Outer'
        /\ \A i \in 1..Len(stack') :
              \/ stack'[i] = view
              \/ i \in 1..Len(stack) /\ stack'[i] = stack[i]
    <2>1. CASE caller = "row"
      BY <2>1, <1>1, <1>3, <1>4, <1>5, BegunStack DEF Begun, Outer, InRow
    <2>2. CASE caller # "row"
      BY <2>2, <1>1, <1>3, <1>4, <1>5 DEF Outer, InRow
    <2> QED BY <2>1, <2>2
  <1>7. TypeOK'
    BY <1>1, <1>4, <1>6 DEF RowsInv, TypeOK
  <1>8. StackShape'
    <2>1. SliceOf(at.row)' = at'.slice
      BY <1>1, <1>2, <1>4 DEF SliceOf
    <2> QED BY <2>1, <1>2, <1>4, <1>5, <1>6 DEF StackShape, Own, InRow, Saving, Outer
  <1>9. \A r \in Row : Whole(view, r) /\ Kept(view, r)
    BY <1>2 DEF RowsInv, NothingHalf, NothingLost
  <1>10. NothingHalf'
    BY <1>1, <1>4, <1>6, <1>9 DEF RowsInv, NothingHalf, Whole
  <1>11. NothingLost'
    BY <1>1, <1>4, <1>6, <1>9 DEF RowsInv, NothingLost, Kept, SliceOf
  <1> QED BY <1>7, <1>8, <1>10, <1>11 DEF RowsInv

LEMMA FillRecordInv ==
    ASSUME RowsInv, FillRecord
    PROVE  RowsInv'
  <1>1. at.step = "fill" /\ lastId' = lastId /\ lastId \in Nat /\ InRow
    BY DEF FillRecord, RowsInv, TypeOK, InRow
  <1>2. 0 = Own
    BY <1>1, OwnIsOpen DEF RowsInv, Saving
  <1>3. /\ stash \in [Slots -> RasBoxes \cup {None}] /\ memo \in [Boxes -> Nat]
        /\ Stashed \in [Slots -> RasBoxes \cup {None}]
    <2>1. Says.ras \in RasBoxes \cup {None}
      BY <1>1 DEF RowsInv, TypeOK, StackShape, Says, Content
    <2> QED BY <2>1 DEF RowsInv, TypeOK, Stashed, Place
  <1>4. CASE RowFails(0, view, memo, stash)
    BY <1>1, <1>2, <1>3, <1>4, RowFailsInv
  <1>5. CASE RowFails(0, view, memo, Stashed)
    BY <1>1, <1>2, <1>3, <1>5, RowFailsInv
  <1>6. CASE /\ stash' = Stashed /\ GoesOn("afterFill")
             /\ UNCHANGED <<sheet, caller, skips, view, stack, memo, outcome, deaths>>
    <2>1. /\ at' \in Place /\ at'.step = "afterFill" /\ at'.row = at.row
          /\ at'.slice = at.slice /\ at'.open = at.open
      BY <1>6 DEF GoesOn, RowsInv, TypeOK, Place, Steps
    <2>2. TypeOK'
      BY <2>1, <1>1, <1>3, <1>6 DEF RowsInv, TypeOK
    <2> QED BY <2>1, <2>2, <1>1, <1>6, HookGoesOn
  <1> QED BY <1>4, <1>5, <1>6, Zenon DEF FillRecord

LEMMA AfterFillInv ==
    ASSUME RowsInv, AfterFill
    PROVE  RowsInv'
  <1> DEFINE found == Resolution(stash[at.slot])
             box == IF found.id = 0 THEN at.box ELSE found.id
  <1>1. /\ at.step = "afterFill" /\ stash' = [stash EXCEPT ![at.slot] = None]
        /\ view' = found.seen /\ memo' = found.memory /\ lastId' = found.last
        /\ at' = [at EXCEPT !.step = "beforeSave", !.box = box]
        /\ UNCHANGED <<sheet, caller, skips, stack, outcome, deaths>>
    BY Zenon DEF AfterFill
  <1>2. stash[at.slot] \in Boxes \cup {None}
    BY DEF RowsInv, TypeOK, Place, Boxes
  <1>3. /\ found.id \in Nat /\ found.memory \in [Boxes -> Nat] /\ found.last \in Nat
        /\ found.seen \in View /\ found.seen.docs = view.docs
    BY <1>2, ResolutionType DEF RowsInv
  <1>4. box \in Nat
    BY <1>3 DEF RowsInv, TypeOK, Place
  <1> HIDE DEF found, box
  <1>5. /\ at' \in Place /\ at'.step = "beforeSave" /\ at'.row = at.row
        /\ at'.slice = at.slice /\ at'.open = at.open
    BY <1>1, <1>4 DEF RowsInv, TypeOK, Place, Steps
  <1>6. TypeOK'
    BY <1>1, <1>3, <1>5 DEF RowsInv, TypeOK
  <1> QED BY <1>1, <1>3, <1>5, <1>6, HookGoesOn

(* The savepoint of a row brings back what there is before it saves.       *)
LEMMA SavepointOnTop ==
    ASSUME RowsInv, BeforeSave
    PROVE  /\ at.step = "beforeSave" /\ Own = 0 /\ ~at.open /\ view' = view
           /\ at' = [at EXCEPT !.step = "saveRecord", !.open = TRUE]
           /\ UNCHANGED <<sheet, caller, skips, lastId, memo, stash, outcome, deaths>>
           /\ stack' \in Seq(View) /\ Len(stack') = Len(stack) + 1
           /\ stack'[Len(stack) + 1] = view
           /\ \A i \in 1..Len(stack) : stack'[i] = stack[i]
  <1>1. at.step = "beforeSave" /\ Own = 0 /\ ~at.open
    BY OwnIsOpen DEF BeforeSave, RowsInv, StackShape, Saving
  <1>2. /\ view' = view /\ stack' = Append(Closed(0), view)
        /\ at' = [at EXCEPT !.step = "saveRecord", !.open = TRUE]
        /\ UNCHANGED <<sheet, caller, skips, lastId, memo, stash, outcome, deaths>>
    BY <1>1 DEF BeforeSave, RolledBack
  <1>3. stack \in Seq(View) /\ view \in View /\ Len(stack) \in Nat
    BY DEF RowsInv, TypeOK
  <1>4. /\ Closed(0) \in Seq(View) /\ Len(Closed(0)) = Len(stack)
        /\ \A i \in 1..Len(stack) : Closed(0)[i] = stack[i]
    <2>1. 0 \in 0..Len(stack)
      BY <1>3
    <2>2. /\ Closed(0) \in Seq(View) /\ Len(Closed(0)) = Len(stack) - 0
          /\ \A i \in 1..(Len(stack) - 0) : Closed(0)[i] = stack[i]
      BY <2>1, ClosedStack DEF RowsInv
    <2> QED BY <2>2, <1>3
  <1> DEFINE s == Closed(0)
  <1>5. /\ s \in Seq(View) /\ Len(s) = Len(stack) /\ stack' = Append(s, view)
        /\ \A i \in 1..Len(stack) : s[i] = stack[i]
    BY <1>2, <1>4
  <1> HIDE DEF s
  <1>6. /\ stack' \in Seq(View) /\ Len(stack') = Len(stack) + 1
        /\ \A i \in 1..Len(stack) : stack'[i] = stack[i]
        /\ stack'[Len(stack) + 1] = view
    BY <1>3, <1>5, BegunStack
  <1> QED BY <1>1, <1>2, <1>6

LEMMA BeforeSaveInv ==
    ASSUME RowsInv, BeforeSave
    PROVE  RowsInv'
  <1>1. at.step = "beforeSave" /\ Own = 0 /\ ~at.open
    BY SavepointOnTop
  <1>2. /\ view' = view
        /\ at' = [at EXCEPT !.step = "saveRecord", !.open = TRUE]
        /\ UNCHANGED <<sheet, caller, skips, lastId, memo, stash, outcome, deaths>>
    BY SavepointOnTop
  <1>3. stack \in Seq(View) /\ view \in View /\ Len(stack) \in Nat
    BY DEF RowsInv, TypeOK
  <1>4. /\ at' \in Place /\ at'.step = "saveRecord" /\ at'.row = at.row
        /\ at'.slice = at.slice /\ at'.open
    BY <1>2 DEF RowsInv, TypeOK, Place, Steps
  <1>6. /\ stack' \in Seq(View) /\ Len(stack') = Len(stack) + 1
        /\ \A i \in 1..Len(stack') :
              \/ stack'[i] = view
              \/ i \in 1..Len(stack) /\ stack'[i] = stack[i]
    BY <1>3, SavepointOnTop
  <1>7. TypeOK'
    BY <1>2, <1>4, <1>6 DEF RowsInv, TypeOK
  <1>8. StackShape'
    <2>1. Outer' = Outer /\ Own' = 1 /\ InRow /\ InRow' /\ Saving'
      BY <1>1, <1>2, <1>4 DEF Outer, Own, InRow, Saving
    <2>2. SliceOf(at.row)' = SliceOf(at.row)
      BY <1>2, <1>4 DEF SliceOf
    <2>3. Len(stack') = Outer' + Own'
      <3>1. Outer \in {0, 1} /\ Len(stack) = Outer + Own
        BY DEF RowsInv, StackShape, Outer
      <3> QED BY <3>1, <2>1, <1>1, <1>6
    <2>4. at'.open <=> Saving'
      BY <2>1, <1>4, Zenon
    <2>5. at'.row >= 1 /\ at'.row \in Row /\ SliceOf(at.row)' = at'.slice
      BY <2>1, <2>2, <1>4 DEF RowsInv, StackShape
    <2> QED BY <2>3, <2>4, <2>5, Zenon DEF StackShape
  <1>9. \A r \in Row : Whole(view, r) /\ Kept(view, r)
    BY <1>1 DEF RowsInv, NothingHalf, NothingLost
  <1>10. NothingHalf'
    BY <1>2, <1>4, <1>6, <1>9 DEF RowsInv, NothingHalf, Whole
  <1>11. NothingLost'
    BY <1>2, <1>4, <1>6, <1>9 DEF RowsInv, NothingLost, Kept, SliceOf
  <1> QED BY <1>7, <1>8, <1>10, <1>11 DEF RowsInv

LEMMA SaveRecordInv ==
    ASSUME RowsInv, SaveRecord
    PROVE  RowsInv'
  <1>1. /\ at.step = "saveRecord" /\ lastId' = lastId /\ lastId \in Nat
        /\ memo \in [Boxes -> Nat] /\ stash \in [Slots -> RasBoxes \cup {None}]
        /\ at.row \in Row
    BY DEF SaveRecord, RowsInv, TypeOK, StackShape, InRow
  <1>2. CASE RowFails(Own, view, memo, stash)
    BY <1>1, <1>2, RowFailsInv DEF InRow
  <1>3. CASE Save
    <2> DEFINE doc == view.docs[at.row]
               saved == [doc EXCEPT !.made = TRUE, !.box = at.box, !.whole = FALSE]
    <2>1. /\ view' = [view EXCEPT !.docs[at.row] = saved]
          /\ at' = [at EXCEPT !.step = "afterSave"]
          /\ UNCHANGED <<sheet, caller, skips, stack, memo, stash, outcome, deaths>>
      BY <1>3 DEF Save, GoesOn
    <2>2. doc \in Document /\ at.box \in Nat /\ view \in View
      BY <1>1 DEF RowsInv, TypeOK, View, Place
    <2> HIDE DEF doc
    <2>3. saved \in Document
      BY <2>2 DEF Document
    <2>4. saved.made
      BY <2>2 DEF Document
    <2> HIDE DEF saved
    <2>5. /\ view' \in View /\ view'.docs[at.row] = saved
          /\ \A r \in Row : r # at.row => view'.docs[r] = view.docs[r]
      BY <2>1, <2>2, <2>3, <1>1 DEF View
    <2>6. /\ at' \in Place /\ at'.step = "afterSave" /\ at'.row = at.row
          /\ at'.slice = at.slice /\ at'.open = at.open
      BY <2>1 DEF RowsInv, TypeOK, Place, Steps
    <2>7. TypeOK'
      BY <2>1, <2>5, <2>6, <1>1 DEF RowsInv, TypeOK
    <2>8. StackShape'
      <3>1. Outer' = Outer /\ Own' = Own /\ InRow /\ InRow' /\ Saving /\ Saving'
        BY <2>1, <2>6, <1>1 DEF Outer, Own, InRow, Saving
      <3>2. SliceOf(at.row)' = SliceOf(at.row)
        BY <2>1, <2>6 DEF SliceOf
      <3> QED BY <3>1, <3>2, <2>1, <2>6 DEF RowsInv, StackShape
    <2>9. NothingHalf'
      <3>1. \A r \in Row : Whole(view', r) \/ r = at.row
        BY <2>5, <1>1 DEF RowsInv, NothingHalf, Whole
      <3> QED BY <3>1, <2>1, <2>6 DEF RowsInv, NothingHalf, Whole
    <2>10. NothingLost'
      <3>1. \A r \in Row : Kept(view', r)
        <4>1. ASSUME NEW r \in Row PROVE Kept(view', r)
          <5>1. CASE r = at.row
            BY <5>1, <2>4, <2>5 DEF Kept
          <5>2. CASE r # at.row
            BY <5>2, <2>5 DEF RowsInv, NothingLost, Kept
          <5> QED BY <5>1, <5>2
        <4> QED BY <4>1
      <3>2. view'.docs[at.row].made
        BY <2>4, <2>5
      <3> QED BY <3>1, <3>2, <2>1, <2>6 DEF RowsInv, NothingLost, Kept, SliceOf
    <2> QED BY <2>7, <2>8, <2>9, <2>10 DEF RowsInv
  <1> QED BY <1>2, <1>3, Zenon DEF SaveRecord

(* A row that is imported leaves open what was before it, if anything.     *)
LEMMA ImportedShape ==
    ASSUME RowsInv, at.step = "afterSave", Imported
    PROVE  /\ at' \in Place /\ at'.step = "between" /\ at'.row = at.row + 1 /\ ~at'.open
           /\ at'.slice = at.slice
           /\ stack' \in Seq(View)
           /\ Len(stack') = IF caller = "chunk" THEN 1 ELSE 0
           /\ \A i \in 1..Len(stack') : stack'[i] = stack[i] /\ i \in 1..Len(stack) /\ i = 1
  <1> DEFINE levels == IF caller = "row" THEN Own + 1 ELSE Own
  <1>1. /\ stack' = Closed(levels)
        /\ at' = [at EXCEPT !.step = "between", !.row = at.row + 1, !.open = FALSE]
    BY DEF Imported
  <1>2. /\ stack \in Seq(View) /\ at \in Place /\ at.row \in Row /\ at.row \in Nat
        /\ at.row >= 1 /\ caller \in {"chunk", "row", "console"}
        /\ Len(stack) \in Nat /\ SliceOf(at.row) = at.slice
    BY DEF RowsInv, TypeOK, StackShape, Place, InRow
  <1>3. Own = 1 /\ Len(stack) = (IF caller = "console" THEN 0 ELSE 1) + 1
    BY <1>2, OwnIsOpen DEF RowsInv, StackShape, Outer, InRow, Saving
  <1>4. /\ levels \in 0..Len(stack)
        /\ Len(stack) - levels = IF caller = "chunk" THEN 1 ELSE 0
    BY <1>2, <1>3
  <1> HIDE DEF levels
  <1>5. /\ stack' \in Seq(View)
        /\ Len(stack') = IF caller = "chunk" THEN 1 ELSE 0
        /\ \A i \in 1..Len(stack') : stack'[i] = stack[i] /\ i \in 1..Len(stack) /\ i = 1
    <2>1. /\ Closed(levels) \in Seq(View)
          /\ Len(Closed(levels)) = Len(stack) - levels
          /\ \A i \in 1..(Len(stack) - levels) : Closed(levels)[i] = stack[i]
      BY <1>4, ClosedStack DEF RowsInv
    <2>2. /\ stack' \in Seq(View) /\ Len(stack') = Len(stack) - levels
          /\ \A i \in 1..(Len(stack) - levels) : stack'[i] = stack[i]
      BY <2>1, <1>1
    <2>3. Len(stack') = IF caller = "chunk" THEN 1 ELSE 0
      BY <2>2, <1>4
    <2>4. Len(stack) \in {1, 2} /\ (caller = "chunk" => Len(stack) = 2)
      BY <1>3
    <2>5. \A i \in 1..Len(stack') : i \in 1..Len(stack) /\ i = 1
      BY <2>3, <2>4
    <2> QED BY <2>2, <2>3, <2>5
  <1>6. /\ at' \in Place /\ at'.step = "between" /\ at'.row = at.row + 1 /\ ~at'.open
        /\ at'.slice = at.slice
    <2>1. at.row + 1 \in Nat /\ "between" \in Steps /\ FALSE \in BOOLEAN
      BY <1>2 DEF Steps
    <2>2. at' \in Place
      BY <2>1, <1>1, <1>2 DEF Place
    <2>3. at'.step = "between" /\ at'.row = at.row + 1 /\ at'.slice = at.slice
      BY <1>1, <1>2 DEF Place
    <2>4. at'.open = FALSE
      BY <1>1, <1>2 DEF Place
    <2> QED BY <2>2, <2>3, <2>4
  <1> QED BY <1>5, <1>6

LEMMA ImportedInv ==
    ASSUME RowsInv, at.step = "afterSave", Imported, lastId' = SideEffects.last
    PROVE  RowsInv'
  <1> DEFINE seen == SideEffects.seen
  <1>1. /\ view' = seen
        /\ memo' = SideEffects.memory /\ outcome' = [outcome EXCEPT ![at.row] = "ok"]
        /\ at' = [at EXCEPT !.step = "between", !.row = at.row + 1, !.open = FALSE]
        /\ UNCHANGED <<sheet, caller, skips, stash, deaths>>
    BY DEF Imported
  <1>2. /\ stack \in Seq(View) /\ at \in Place /\ at.row \in Row /\ at.row \in Nat
        /\ at.row >= 1 /\ caller \in {"chunk", "row", "console"}
        /\ Len(stack) \in Nat /\ SliceOf(at.row) = at.slice
    BY DEF RowsInv, TypeOK, StackShape, Place, InRow
  <1>3. /\ SideEffects.memory \in [Boxes -> Nat] /\ SideEffects.last \in Nat
        /\ seen \in View
        /\ seen.docs[at.row].whole
        /\ seen.docs[at.row].made = view.docs[at.row].made
        /\ \A r \in Row : r # at.row => seen.docs[r] = view.docs[r]
    BY <1>2, SideEffectsType DEF RowsInv
  <1> HIDE DEF seen
  <1>4. /\ stack' \in Seq(View)
        /\ Len(stack') = IF caller = "chunk" THEN 1 ELSE 0
        /\ \A i \in 1..Len(stack') : stack'[i] = stack[i] /\ i \in 1..Len(stack) /\ i = 1
    BY ImportedShape
  <1>5. /\ at' \in Place /\ at'.step = "between" /\ at'.row = at.row + 1 /\ ~at'.open
        /\ at'.slice = at.slice
    BY ImportedShape
  <1>6. \A r \in Row : /\ r # at.row => outcome'[r] = outcome[r]
                       /\ outcome'[r] \in {"todo", "ok", "failed"}
    BY <1>1 DEF RowsInv, TypeOK
  <1>7. TypeOK'
    <2>1. outcome' \in [Row -> {"todo", "ok", "failed"}]
      BY <1>1, <1>6 DEF RowsInv, TypeOK
    <2> QED BY <2>1, <1>1, <1>3, <1>4, <1>5 DEF RowsInv, TypeOK
  <1>8. StackShape'
    BY <1>1, <1>2, <1>4, <1>5 DEF StackShape, Outer, Own, InRow, Saving
  <1>9. NothingHalf'
    <2>1. \A r \in Row : Whole(view', r)
      <3>1. ASSUME NEW r \in Row PROVE Whole(view', r)
        <4>1. CASE r = at.row
          BY <4>1, <1>1, <1>3, Zenon DEF Whole
        <4>2. CASE r # at.row
          BY <4>2, <1>1, <1>3 DEF RowsInv, NothingHalf, Whole
        <4> QED BY <4>1, <4>2
      <3> QED BY <3>1
    <2> QED BY <2>1, <1>4 DEF RowsInv, NothingHalf, Whole
  <1>10. NothingLost'
    <2>1. ASSUME NEW r \in Row, outcome'[r] = "ok" PROVE view'.docs[r].made
      <3>1. CASE r = at.row
        BY <3>1, <1>1, <1>3, Zenon DEF RowsInv, NothingLost
      <3>2. CASE r # at.row
        BY <3>2, <2>1, <1>1, <1>3, <1>6 DEF RowsInv, NothingLost, Kept
      <3> QED BY <3>1, <3>2
    <2>2. ASSUME NEW i \in 1..Len(stack'), NEW r \in Row
          PROVE  \/ outcome'[r] = "ok" => stack'[i].docs[r].made
                 \/ caller' = "chunk" /\ i = 1 /\ SliceOf(r)' = at'.slice
      <3>1. /\ stack'[i] = stack[i] /\ i \in 1..Len(stack) /\ i = 1
            /\ caller = "chunk" /\ SliceOf(r)' = SliceOf(r)
        BY <1>1, <1>4 DEF SliceOf
      <3>2. CASE r = at.row
        BY <3>1, <3>2, <1>1, <1>2, <1>5
      <3>3. CASE r # at.row
        BY <3>1, <3>3, <1>1, <1>5, <1>6 DEF RowsInv, NothingLost, Kept
      <3> QED BY <3>2, <3>3
    <2> QED BY <2>1, <2>2, <1>5 DEF NothingLost, Kept
  <1> QED BY <1>7, <1>8, <1>9, <1>10 DEF RowsInv

LEMMA AfterSaveInv ==
    ASSUME RowsInv, AfterSave
    PROVE  RowsInv'
  <1>1. /\ at.step = "afterSave" /\ lastId' = SideEffects.last /\ at.row \in Row
        /\ stash \in [Slots -> RasBoxes \cup {None}]
    BY DEF AfterSave, RowsInv, TypeOK, StackShape, InRow
  <1>2. SideEffects.memory \in [Boxes -> Nat] /\ SideEffects.last \in Nat
    BY <1>1, SideEffectsType DEF RowsInv
  <1>3. CASE RowFails(Own, view, SideEffects.memory, stash)
    BY <1>1, <1>2, <1>3, RowFailsInv DEF InRow
  <1>4. CASE Imported
    BY <1>1, <1>4, ImportedInv
  <1> QED BY <1>3, <1>4, Zenon DEF AfterSave

-----------------------------------------------------------------------------
(* What holds of every run                                                 *)

LEMMA StepInv == RowsInv /\ [Next]_vars => RowsInv'
  <1> SUFFICES ASSUME RowsInv, [Next]_vars PROVE RowsInv'
    OBVIOUS
  <1>1. CASE UNCHANGED vars
    <2>1. UNCHANGED <<sheet, caller, skips, view, stack, lastId, memo, stash, at, outcome, deaths>>
      BY <1>1 DEF vars
    <2>2. TypeOK'
      BY <2>1 DEF RowsInv, TypeOK
    <2> QED BY <2>1, <2>2, SameRows DEF RowsInv
  <1>2. CASE \E r \in Row : TakeSlice(r)
    BY <1>2, TakeSliceInv
  <1>3. CASE \E slot \in Slots : StartRow(slot)
    BY <1>3, StartRowInv
  <1>4. CASE FillRecord
    BY <1>4, FillRecordInv
  <1>5. CASE AfterFill
    BY <1>5, AfterFillInv
  <1>6. CASE BeforeSave
    BY <1>6, BeforeSaveInv
  <1>7. CASE SaveRecord
    BY <1>7, SaveRecordInv
  <1>8. CASE AfterSave
    BY <1>8, AfterSaveInv
  <1>9. CASE ReportSlice
    BY <1>9, ReportSliceInv
  <1>10. CASE DeleteJob
    BY <1>10, DeleteJobInv
  <1>11. CASE Die
    BY <1>11, DieInv
  <1>12. CASE \E box \in Boxes : DeleteBox(box)
    BY <1>12, DeleteBoxInv
  <1> QED BY <1>1, <1>2, <1>3, <1>4, <1>5, <1>6, <1>7, <1>8, <1>9, <1>10, <1>11, <1>12,
             Zenon DEF Next

(* The invariant behind the theorems that follow.                          *)
THEOREM RowsInvariant == Spec => []RowsInv
  <1> QED BY InitInv, StepInv, PTL DEF Spec

(* Every row, transaction and memory of an import keeps its type.          *)
THEOREM RowsTypes == Spec => []TypeOK
  <1>1. RowsInv => TypeOK
    BY DEF RowsInv
  <1> QED BY <1>1, RowsInvariant, PTL

(* Whenever the process dies, and whatever its rows do, no document is on  *)
(* disk without what its row says of it (beforeSave, afterSave).           *)
THEOREM RowsAreAtomic == Spec => []NoHalfRows
  <1>1. RowsInv => NoHalfRows
    <2> SUFFICES ASSUME RowsInv, NEW r \in Row PROVE Whole(Committed, r)
      BY DEF NoHalfRows, Whole
    <2>1. stack \in Seq(View)
      BY DEF RowsInv, TypeOK
    <2>2. CASE Len(stack) = 0
      <3>1. at.step # "afterSave"
        BY <2>2, SavedIsOpen DEF RowsInv
      <3>2. Committed = view
        BY <2>1, <2>2, EmptyStack DEF Committed
      <3> QED BY <3>1, <3>2 DEF RowsInv, NothingHalf
    <2>3. CASE Len(stack) # 0
      <3>1. Committed = stack[1] /\ 1 \in 1..Len(stack)
        BY <2>1, <2>3, EmptyStack DEF Committed
      <3> QED BY <3>1 DEF RowsInv, NothingHalf
    <2> QED BY <2>2, <2>3
  <1> QED BY <1>1, RowsInvariant, PTL

(* A row reported as done is on disk once its slice is reported, whatever  *)
(* the other rows of the slice threw.                                      *)
THEOREM RowsAreDurable == Spec => []SuccessIsDurable
  <1>1. RowsInv => SuccessIsDurable
    <2> SUFFICES ASSUME RowsInv, at.step \in {"reported", "idle", "aborted"},
                        NEW r \in Row, outcome[r] = "ok"
                 PROVE  Committed.docs[r].made
      BY DEF SuccessIsDurable
    <2>1. stack \in Seq(View) /\ Len(stack) = 0
      BY OwnIsOpen DEF RowsInv, TypeOK, StackShape, Outer, InRow, Saving
    <2>2. Committed = view
      BY <2>1, EmptyStack DEF Committed
    <2> QED BY <2>2 DEF RowsInv, NothingLost, Kept
  <1> QED BY <1>1, RowsInvariant, PTL

-----------------------------------------------------------------------------
(* What a failure does to later rows                                       *)

Todo(r) == outcome[r] = "todo"
Failed(r) == outcome[r] = "failed"
Running(r) == at.step # "idle" /\ SliceOf(r) = at.slice
Named == at.step \in {"beforeSave", "saveRecord", "afterSave"}

(* A slice is done or to do as a whole, the running one up to the row at   *)
(* hand. A row with a fault of its own is never reported as done.          *)
Progress ==
    /\ \A q, r \in Row : SliceOf(q) = SliceOf(r) /\ ~Running(q) => (Todo(q) <=> Todo(r))
    /\ \A q \in Row : Running(q) => (Todo(q) <=> q >= at.row)
    /\ at.step # "idle" => \A q \in Row : q >= at.row => SliceOf(q) >= at.slice
    /\ at.step = "reported" => \A q \in Row : Running(q) => q < at.row
    /\ \A q \in Row : sheet[q].fault # "none" => outcome[q] # "ok"

(* An id is that of one box, in whatever is rolled back: lastId is not.    *)
Tables == {memo, view.boxes} \cup {stack[i].boxes : i \in 1..Len(stack)}
IdsAreOwned ==
    /\ \A T \in Tables, b \in Boxes : T[b] <= lastId
    /\ \A T, U \in Tables : \A b, c \in Boxes : T[b] # 0 /\ T[b] = U[c] => b = c

(* What is stashed is the row's own, or was left behind.                   *)
LeftBehind == caller # "console" /\ \E q \in Row : LeavesBox(q) /\ Failed(q)
StashIsOwn ==
    \A slot \in Slots : stash[slot] # None =>
        LeftBehind \/ (at.step = "afterFill" /\ slot = at.slot /\ stash[slot] = Says.ras)

(* The memo is right, unless a row of the slice before the one at hand     *)
(* failed with the box it names.                                           *)
Spoilt(b) ==
    /\ caller # "console"
    /\ \E q \in Row : /\ q < at.row /\ SliceOf(q) = at.slice
                      /\ \/ sheet[q].ras = b /\ Failed(q)
                         \/ sheet[q].situ = b /\ sheet[q].fault = "after"
MemoIsRight ==
    at.step # "idle" => \A b \in Boxes : memo[b] # 0 =>
        memo[b] = view.boxes[b] \/ Spoilt(b) \/ (LeftBehind /\ b \in RasBoxes)

(* What the row at hand rolls back is its RAS Box 1.                       *)
RowMadeItsBox ==
    /\ Saving => stack[Len(stack)].boxes = view.boxes
    /\ caller = "row" /\ at.step \in {"fill", "afterFill"} => stack[1] = view
    /\ caller = "row" /\ Named => \A b \in Boxes :
          \/ stack[1].boxes[b] = view.boxes[b]
          \/ b = Says.ras
          \/ LeftBehind /\ b \in RasBoxes

(* Row r comes after a row that fails whenever its slice is read, leaving  *)
(* r a box of its own or the id of one that was rolled back. Unlike an     *)
(* outcome, this outlasts the death of the process.                        *)
ComesAfter(r) ==
    /\ caller # "console"
    /\ \E q \in Row :
          \/ /\ q < r /\ SliceOf(q) = SliceOf(r)
             /\ \/ LeavesBox(q)
                \/ sheet[q].fault = "after" /\ sheet[q].situ # None /\ sheet[q].situ = sheet[r].situ
          \/ LeavesBox(q) /\ Failed(q) /\ SliceOf(q) # SliceOf(r) /\ ~Running(q)

(* BehindFailure(r), of failures no death undoes but with r itself.        *)
Behind(r) ==
    /\ caller # "console"
    /\ \E q \in Row :
          /\ Failed(q)
          /\ \/ q < r /\ SliceOf(q) = SliceOf(r) /\ Shares(q, r)
             \/ LeavesBox(q) /\ (SliceOf(q) = SliceOf(r) \/ ~Running(q))

Sited(v, r) ==
    IF ~v.docs[r].made \/ Home(r) = None THEN v.docs[r].box = 0
    ELSE v.docs[r].box # 0 /\ v.docs[r].box = v.boxes[Home(r)]

(* A document is in a box that exists, and where its row says. None is     *)
(* there the first time its row is read.                                   *)
Placed(v, r) ==
    /\ v.docs[r].box # 0 => Exists(v.docs[r].box, v.boxes)
    /\ ComesAfter(r) \/ Sited(v, r)
    /\ deaths = 0 /\ Todo(r) => v.docs[r].box = 0
AllPlaced(v) == \A r \in Row : Placed(v, r)
DocumentsArePlaced ==
    /\ \A r \in Row : Placed(view, r) \/ (at.step = "afterSave" /\ r = at.row)
    /\ \A i \in 1..Len(stack) : AllPlaced(stack[i])

(* A failure has its reason, and a move two boxes.                         *)
Accounted(v, r) ==
    /\ Failed(r) /\ sheet[r].fault = "none" => (skips /\ v.docs[r].made) \/ Behind(r)
    /\ deaths = 0 /\ outcome[r] = "ok" /\ None \in {sheet[r].ras, sheet[r].situ}
          => v.docs[r].moves = <<>> \/ Behind(r)
OutcomesAreAccounted ==
    /\ \A r \in Row : Accounted(view, r)
    /\ \A i \in 1..Len(stack), r \in Row :
          Accounted(stack[i], r) \/ (caller = "chunk" /\ i = 1 /\ SliceOf(r) = at.slice)

(* The box of the record in memory exists, is what the row says of RAS     *)
(* Box 1 or the document's from before, and is new to its table otherwise. *)
RecordInMemory ==
    InRow =>
      /\ at.step # "fill" => Says.fault \notin {"early", "fill"}
      /\ at.step = "afterSave" => Says.fault # "save"
      /\ at.step \in {"fill", "afterFill"} => at.box = view.docs[at.row].box
      /\ at.step = "afterFill" /\ Says.ras # None => stash[at.slot] = Says.ras
      /\ at.step = "afterSave" => at.box = view.docs[at.row].box
      /\ at.box # 0 => Exists(at.box, view.boxes) \/ (at.step # "afterSave" /\ Behind(at.row))
      /\ Named => \/ ComesAfter(at.row)
                  \/ /\ Says.ras # None
                     /\ at.box # 0
                     /\ at.box = view.boxes[Says.ras] \/ ~Exists(at.box, view.boxes)
                  \/ /\ Says.ras = None
                     /\ at.box # 0 => Says.situ # None /\ at.box = view.boxes[Says.situ]
      /\ deaths = 0 /\ Says.ras = None => at.box = 0 \/ Behind(at.row)

FateInv ==
    /\ Progress
    /\ IdsAreOwned
    /\ StashIsOwn
    /\ MemoIsRight
    /\ RowMadeItsBox
    /\ DocumentsArePlaced
    /\ OutcomesAreAccounted
    /\ RecordInMemory

(* Slices follow one another.                                              *)
LEMMA SlicesFollow ==
    ASSUME NEW q \in Row, NEW r \in Row, q <= r
    PROVE  SliceOf(q) <= SliceOf(r) /\ SliceOf(q) \in Nat /\ SliceOf(r) \in Nat
  <1> DEFINE n == SliceLength
             x == q - 1
             y == r - 1
             d == x \div n
             e == y \div n
  <1>1. n \in Nat /\ n > 0 /\ x \in Nat /\ y \in Nat /\ x <= y
    BY ImportRowsAssumption DEF Row
  <1> HIDE DEF n, x, y
  <1>2. d \in Nat /\ e \in Nat /\ x = n * d + (x % n) /\ y = n * e + (y % n)
        /\ x % n \in 0..(n - 1) /\ y % n \in 0..(n - 1)
    BY <1>1
  <1>3. d <= e
    <2>1. SUFFICES ASSUME d >= e + 1 PROVE FALSE
      BY <1>2
    <2>2. n * d >= n * (e + 1) /\ n * (e + 1) = n * e + n
      BY <1>1, <1>2, <2>1
    <2> QED BY <1>1, <1>2, <2>2
  <1> QED BY <1>2, <1>3 DEF SliceOf, n, x, y

(* Rows are numbers.                                                       *)
LEMMA RowsAreNumbers == \A r \in Row : r \in Nat /\ r >= 1
  <1> QED BY ImportRowsAssumption DEF Row

(* No failure is forgotten, and none was of a slice that starts.           *)
Remembers ==
    /\ UNCHANGED <<sheet, caller>>
    /\ \A q \in Row : Failed(q) => Failed(q)' /\ (Running(q)' => Running(q))

(* Then no excuse is.                                                      *)
LEMMA ExcusesStay ==
    ASSUME Remembers
    PROVE  /\ \A r \in Row : ComesAfter(r) => ComesAfter(r)'
           /\ \A r \in Row : Behind(r) => Behind(r)'
           /\ LeftBehind => LeftBehind'
           /\ \A r \in Row : SliceOf(r)' = SliceOf(r)
  <1>1. \A r \in Row : SliceOf(r)' = SliceOf(r)
    BY DEF Remembers, SliceOf
  <1>2. ASSUME NEW r \in Row, ComesAfter(r) PROVE ComesAfter(r)'
    BY <1>1, <1>2 DEF Remembers, ComesAfter, LeavesBox
  <1>3. ASSUME NEW r \in Row, Behind(r) PROVE Behind(r)'
    BY <1>1, <1>3 DEF Remembers, Behind, LeavesBox, Shares
  <1>4. LeftBehind => LeftBehind'
    BY DEF Remembers, LeftBehind, LeavesBox
  <1> QED BY <1>1, <1>2, <1>3, <1>4

(* The row at hand is not done, nor is any after it.                       *)
LEMMA RowAtHand ==
    ASSUME RowsInv, FateInv, InRow
    PROVE  /\ at.row \in Row /\ SliceOf(at.row) = at.slice /\ Running(at.row)
           /\ Todo(at.row) /\ ~Failed(at.row)
           /\ \A q \in Row : Running(q) /\ Failed(q) => q < at.row
  <1>1. at.row \in Row /\ SliceOf(at.row) = at.slice /\ at.step # "idle"
    BY DEF RowsInv, StackShape, InRow
  <1>2. \A q \in Row : Running(q) => (Todo(q) <=> q >= at.row)
    BY DEF FateInv, Progress
  <1> QED BY <1>1, <1>2, RowsAreNumbers DEF Running, Todo, Failed

(* What excuses it goes on to do so.                                       *)
LEMMA ExcusedAtHand ==
    ASSUME RowsInv, FateInv, InRow, Remembers, at'.row = at.row
    PROVE  /\ Behind(at.row) => Behind(at.row)'
           /\ ComesAfter(at.row) => ComesAfter(at.row)'
  <1>1. PICK r \in Row : r = at.row /\ r = at'.row
    BY RowAtHand
  <1>2. (Behind(r) => Behind(r)') /\ (ComesAfter(r) => ComesAfter(r)')
    BY ExcusesStay
  <1>3. Behind(r) <=> Behind(at.row)
    BY <1>1
  <1>4. ComesAfter(r) <=> ComesAfter(at.row)
    BY <1>1
  <1>5. Behind(r)' <=> Behind(at.row)'
    BY <1>1 DEF Behind, Shares, SliceOf
  <1>6. ComesAfter(r)' <=> ComesAfter(at.row)'
    BY <1>1 DEF ComesAfter, SliceOf
  <1> QED BY <1>2, <1>3, <1>4, <1>5, <1>6

(* So what was left behind excuses it.                                     *)
LEMMA LeftBehindExcuses ==
    ASSUME RowsInv, FateInv, InRow, LeftBehind
    PROVE  Behind(at.row) /\ ComesAfter(at.row)
  <1>1. PICK q \in Row : LeavesBox(q) /\ Failed(q)
    BY DEF LeftBehind
  <1>2. caller # "console"
    BY DEF LeftBehind
  <1>3. Running(q) => q < at.row /\ SliceOf(q) = SliceOf(at.row)
    BY <1>1, RowAtHand DEF Running
  <1>4. ~Running(q) => SliceOf(q) # SliceOf(at.row)
    BY RowAtHand DEF Running
  <1> QED BY <1>1, <1>2, <1>3, <1>4 DEF Behind, ComesAfter

(* Boxes that are made do not hide others.                                 *)
Grown(boxes, more) == \A b \in Boxes : boxes[b] # 0 => more[b] = boxes[b]

LEMMA GrownExist ==
    ASSUME NEW boxes, NEW more, Grown(boxes, more), NEW id, id # 0, Exists(id, boxes)
    PROVE  Exists(id, more)
  <1> QED BY DEF Grown, Exists

(* A hook that writes no document and reports no row.                      *)
LEMMA HookKeepsDocuments ==
    ASSUME RowsInv, FateInv, Remembers, UNCHANGED <<sheet, caller, skips, outcome, deaths>>,
           at.step # "afterSave", view'.docs = view.docs, Grown(view.boxes, view'.boxes),
           \A i \in 1..Len(stack') :
               \/ stack'[i] = view
               \/ i \in 1..Len(stack) /\ stack'[i] = stack[i] /\ at'.slice = at.slice
    PROVE  DocumentsArePlaced' /\ OutcomesAreAccounted'
  <1>1. /\ \A r \in Row : ComesAfter(r) => ComesAfter(r)'
        /\ \A r \in Row : Behind(r) => Behind(r)'
        /\ \A r \in Row : SliceOf(r)' = SliceOf(r)
    BY ExcusesStay
  <1>2. \A r \in Row : Placed(view, r) /\ Accounted(view, r)
    BY DEF FateInv, DocumentsArePlaced, OutcomesAreAccounted
  <1>3. ASSUME NEW r \in Row PROVE Placed(view, r)'
    <2>1. view'.docs[r].box # 0 => Exists(view'.docs[r].box, view'.boxes)
      BY <1>2, GrownExist DEF Placed
    <2>2. Sited(view, r) => Sited(view, r)'
      <3>1. Home(r)' = Home(r) /\ (Home(r) # None => Home(r) \in Boxes)
        BY DEF Home, RowsInv, TypeOK, Content, Boxes
      <3> QED BY <3>1 DEF Sited, Grown
    <2> QED BY <1>1, <1>2, <2>1, <2>2 DEF Placed, Todo
  <1>4. ASSUME NEW i \in 1..Len(stack'), NEW r \in Row PROVE Placed(stack[i], r)'
    <2>1. Placed(stack'[i], r)
      BY <1>2, <1>4 DEF FateInv, DocumentsArePlaced, AllPlaced
    <2> QED BY <1>1, <2>1 DEF Placed, Sited, Home, Todo
  <1>5. \A r \in Row : Accounted(view, r)'
    BY <1>1, <1>2 DEF Accounted, Failed
  <1>6. ASSUME NEW i \in 1..Len(stack'), NEW r \in Row
        PROVE  Accounted(stack[i], r)' \/ (caller' = "chunk" /\ i = 1 /\ SliceOf(r)' = at'.slice)
    <2>1. Accounted(stack'[i], r) \/ (caller = "chunk" /\ i = 1 /\ SliceOf(r) = at'.slice)
      BY <1>2, <1>6 DEF FateInv, OutcomesAreAccounted
    <2>2. Accounted(stack'[i], r) => Accounted(stack[i], r)'
      BY <1>1 DEF Accounted, Failed
    <2> QED BY <1>1, <2>1, <2>2
  <1> QED BY <1>3, <1>4, <1>5, <1>6 DEF DocumentsArePlaced, OutcomesAreAccounted, AllPlaced

(* A step within a slice that reports no row.                              *)
LEMMA HookKeepsProgress ==
    ASSUME FateInv, UNCHANGED <<sheet, caller, outcome>>, at.step # "idle",
           at'.step \notin {"idle", "reported"}, at'.row = at.row, at'.slice = at.slice
    PROVE  Progress' /\ Remembers
  <1>1. \A r \in Row : /\ SliceOf(r)' = SliceOf(r) /\ (Running(r)' <=> Running(r))
                       /\ (Todo(r)' <=> Todo(r)) /\ (Failed(r)' <=> Failed(r))
    BY DEF SliceOf, Running, Todo, Failed
  <1>2. Progress'
    BY <1>1 DEF FateInv, Progress
  <1> QED BY <1>1, <1>2 DEF Remembers

(* Every table is a table of ids.                                          *)
LEMMA TablesType ==
    ASSUME TypeOK
    PROVE  \A T \in Tables, b \in Boxes : T[b] \in Nat
  <1>1. memo \in [Boxes -> Nat] /\ view.boxes \in [Boxes -> Nat]
    BY DEF TypeOK, View
  <1>2. \A i \in 1..Len(stack) : stack[i].boxes \in [Boxes -> Nat]
    <2>1. \A i \in 1..Len(stack) : stack[i] \in View
      BY DEF TypeOK
    <2> QED BY <2>1 DEF View
  <1> QED BY <1>1, <1>2 DEF Tables

(* Ids of boxes that exist, or one that was never given.                   *)
LEMMA IdsStayOwned ==
    ASSUME TypeOK, IdsAreOwned, NEW new, lastId' \in {lastId, lastId + 1},
           \A T \in Tables', b \in Boxes :
               \/ T[b] = 0
               \/ \E U \in Tables : T[b] = U[b]
               \/ b = new /\ T[b] = lastId + 1 /\ lastId' = lastId + 1
    PROVE  IdsAreOwned'
  <1>1. lastId \in Nat /\ \A T \in Tables, b \in Boxes : T[b] \in Nat
    BY TablesType DEF TypeOK
  <1>2. /\ \A T \in Tables, b \in Boxes : T[b] <= lastId
        /\ \A T, U \in Tables : \A b, c \in Boxes : T[b] # 0 /\ T[b] = U[c] => b = c
    BY DEF IdsAreOwned
  <1>3. \A T \in Tables, b \in Boxes : T[b] # lastId + 1
    BY <1>1, <1>2
  <1>4. ASSUME NEW T \in Tables', NEW b \in Boxes PROVE T[b] <= lastId'
    <2>1. CASE \E U \in Tables : T[b] = U[b]
      BY <1>1, <1>2, <2>1
    <2> QED BY <1>1, <2>1
  <1>5. ASSUME NEW T \in Tables', NEW U \in Tables', NEW b \in Boxes, NEW c \in Boxes,
               T[b] # 0, T[b] = U[c]
        PROVE  b = c
    <2>1. \/ \E S \in Tables : T[b] = S[b]
          \/ b = new /\ T[b] = lastId + 1
      BY <1>5
    <2>2. \/ \E R \in Tables : U[c] = R[c]
          \/ c = new /\ U[c] = lastId + 1
      BY <1>5
    <2>3. CASE T[b] = lastId + 1
      BY <1>3, <1>5, <2>1, <2>2, <2>3, Zenon
    <2>4. CASE T[b] # lastId + 1
      <3>1. PICK S \in Tables : T[b] = S[b]
        BY <2>1, <2>4
      <3>2. PICK R \in Tables : U[c] = R[c]
        BY <1>5, <2>2, <2>4
      <3>3. S[b] # 0 /\ S[b] = R[c]
        BY <1>5, <3>1, <3>2
      <3> QED BY <1>2, <3>3, Zenon
    <2> QED BY <2>3, <2>4
  <1>6. \A T \in Tables', b \in Boxes : T[b] <= lastId'
    BY <1>4
  <1>7. \A T, U \in Tables' : \A b, c \in Boxes : T[b] # 0 /\ T[b] = U[c] => b = c
    BY <1>5
  <1> QED BY <1>6, <1>7 DEF IdsAreOwned

(* The id of a box in some table, or a new one of that one box.            *)
Given(b, id, new) ==
    \/ id = 0
    \/ \E T \in Tables : id = T[b]
    \/ b = new /\ id = lastId + 1 /\ lastId' = lastId + 1

LEMMA GivenIdsAreOwned ==
    ASSUME TypeOK, IdsAreOwned, NEW new, lastId' \in {lastId, lastId + 1},
           \A b \in Boxes : Given(b, memo'[b], new) /\ Given(b, view'.boxes[b], new),
           \A i \in 1..Len(stack'), b \in Boxes : Given(b, stack'[i].boxes[b], new)
    PROVE  IdsAreOwned'
  <1>1. ASSUME NEW T \in Tables', NEW b \in Boxes PROVE Given(b, T[b], new)
    BY <1>1, Zenon DEF Tables
  <1>2. \A T \in Tables', b \in Boxes :
               \/ T[b] = 0
               \/ \E U \in Tables : T[b] = U[b]
               \/ b = new /\ T[b] = lastId + 1 /\ lastId' = lastId + 1
    BY <1>1, Zenon DEF Given
  <1> QED BY <1>2, IdsStayOwned

(* What is in a table is given.                                            *)
LEMMA KnownIds ==
    ASSUME NEW b, NEW new
    PROVE  /\ Given(b, 0, new) /\ Given(b, memo[b], new) /\ Given(b, view.boxes[b], new)
           /\ \A i \in 1..Len(stack) : Given(b, stack[i].boxes[b], new)
  <1>1. memo \in Tables /\ view.boxes \in Tables /\ \A i \in 1..Len(stack) : stack[i].boxes \in Tables
    BY DEF Tables
  <1> QED BY <1>1 DEF Given

(* Resolving a box gives the id in the memo, or in the table, or a new one.*)
LEMMA ResolutionCases ==
    ASSUME TypeOK, IdsAreOwned, NEW box \in Boxes
    PROVE  /\ Resolution(box).memory = [memo EXCEPT ![box] = Resolution(box).id]
           /\ Resolution(box).id \in Nat \ {0}
           /\ \/ /\ memo[box] # 0 /\ Resolution(box).id = memo[box]
                 /\ Resolution(box).seen = view /\ Resolution(box).last = lastId
              \/ /\ memo[box] = 0 /\ view.boxes[box] # 0 /\ Resolution(box).id = view.boxes[box]
                 /\ Resolution(box).seen = view /\ Resolution(box).last = lastId
              \/ /\ memo[box] = 0 /\ view.boxes[box] = 0 /\ Resolution(box).id = lastId + 1
                 /\ Resolution(box).seen.boxes = [view.boxes EXCEPT ![box] = lastId + 1]
                 /\ Resolution(box).last = lastId + 1
  <1>1. /\ memo \in [Boxes -> Nat] /\ view.boxes \in [Boxes -> Nat] /\ lastId \in Nat
        /\ view \in View
    BY DEF TypeOK, View
  <1>2. memo[box] # lastId + 1 /\ view.boxes[box] # lastId + 1
    <2>1. memo[box] <= lastId /\ view.boxes[box] <= lastId
      BY DEF IdsAreOwned, Tables
    <2> QED BY <1>1, <2>1
  <1>3. box # None
    BY ImportRowsAssumption
  <1> DEFINE isNew == IdOf(box) = lastId + 1
             created == [view EXCEPT !.boxes[box] = IdOf(box)]
  <1>4. /\ Resolution(box).id = IdOf(box)
        /\ Resolution(box).memory = [memo EXCEPT ![box] = IdOf(box)]
        /\ Resolution(box).seen = IF isNew THEN created ELSE view
        /\ Resolution(box).last = IF isNew THEN IdOf(box) ELSE lastId
    BY <1>3 DEF Resolution
  <1>5. created.boxes = [view.boxes EXCEPT ![box] = IdOf(box)]
    BY <1>1 DEF View
  <1> HIDE DEF created
  <1>6. CASE memo[box] # 0
    <2>1. IdOf(box) = memo[box]
      BY <1>6 DEF IdOf
    <2> QED BY <1>1, <1>2, <1>4, <1>6, <2>1
  <1>7. CASE memo[box] = 0 /\ view.boxes[box] # 0
    <2>1. IdOf(box) = view.boxes[box]
      BY <1>7 DEF IdOf
    <2> QED BY <1>1, <1>2, <1>4, <1>7, <2>1
  <1>8. CASE memo[box] = 0 /\ view.boxes[box] = 0
    <2>1. IdOf(box) = lastId + 1
      BY <1>8 DEF IdOf
    <2> QED BY <1>1, <1>4, <1>5, <1>8, <2>1
  <1> QED BY <1>6, <1>7, <1>8

(* So boxes are added, and the memo has the id of the table, or what it    *)
(* had before.                                                             *)
LEMMA ResolutionAdds ==
    ASSUME TypeOK, IdsAreOwned, NEW box \in Boxes \cup {None}
    PROVE  /\ Resolution(box).last \in {lastId, lastId + 1}
           /\ Grown(view.boxes, Resolution(box).seen.boxes)
           /\ \A b \in Boxes :
                 /\ \/ Resolution(box).seen.boxes[b] = view.boxes[b]
                    \/ /\ b = box /\ Resolution(box).seen.boxes[b] = lastId + 1
                       /\ Resolution(box).last = lastId + 1
                 /\ \/ Resolution(box).memory[b] = memo[b]
                       /\ Resolution(box).seen.boxes[b] = view.boxes[b]
                    \/ Resolution(box).memory[b] = Resolution(box).seen.boxes[b]
           /\ box = None => Resolution(box).id = 0 /\ Resolution(box).seen = view
                            /\ Resolution(box).memory = memo
           /\ box # None => /\ Resolution(box).id # 0
                            /\ \/ Resolution(box).id = Resolution(box).seen.boxes[box]
                               \/ /\ Resolution(box).id = memo[box] /\ memo[box] # view.boxes[box]
                                  /\ Resolution(box).seen = view
  <1>1. memo \in [Boxes -> Nat] /\ view.boxes \in [Boxes -> Nat] /\ lastId \in Nat
    BY DEF TypeOK, View
  <1>2. CASE box = None
    BY <1>1, <1>2 DEF Resolution, Grown
  <1>3. CASE box # None
    <2>1. box \in Boxes
      BY <1>3
    <2> DEFINE id == Resolution(box).id
               memory == Resolution(box).memory
               seen == Resolution(box).seen
               last == Resolution(box).last
    <2>2. /\ memory = [memo EXCEPT ![box] = id] /\ id # 0
          /\ \/ memo[box] # 0 /\ id = memo[box] /\ seen = view /\ last = lastId
             \/ memo[box] = 0 /\ view.boxes[box] # 0 /\ id = view.boxes[box] /\ seen = view /\ last = lastId
             \/ /\ memo[box] = 0 /\ view.boxes[box] = 0 /\ id = lastId + 1
                /\ seen.boxes = [view.boxes EXCEPT ![box] = lastId + 1] /\ last = lastId + 1
      BY <2>1, ResolutionCases
    <2> HIDE DEF id, memory, seen, last
    <2>3. Grown(view.boxes, seen.boxes) /\ last \in {lastId, lastId + 1}
      BY <1>1, <2>1, <2>2 DEF Grown
    <2>4. \A b \in Boxes :
             /\ \/ seen.boxes[b] = view.boxes[b]
                \/ b = box /\ seen.boxes[b] = lastId + 1 /\ last = lastId + 1
             /\ \/ memory[b] = memo[b] /\ seen.boxes[b] = view.boxes[b]
                \/ memory[b] = seen.boxes[b]
      BY <1>1, <2>1, <2>2
    <2>5. /\ id # 0
          /\ \/ id = seen.boxes[box]
             \/ id = memo[box] /\ memo[box] # view.boxes[box] /\ seen = view
      BY <1>1, <2>1, <2>2
    <2> QED BY <1>3, <2>3, <2>4, <2>5 DEF id, memory, seen, last
  <1> QED BY <1>2, <1>3

(* The memo stays right when what it has is of the table, or as before.    *)
LEMMA MemoStaysRight ==
    ASSUME RowsInv, RowsInv', FateInv, Remembers, at.step # "idle",
           at'.slice = at.slice, at'.row >= at.row,
           \A b \in Boxes : memo'[b] # 0 =>
               \/ memo'[b] = memo[b] /\ view'.boxes[b] = view.boxes[b]
               \/ memo'[b] = view'.boxes[b]
               \/ Spoilt(b)'
               \/ LeftBehind' /\ b \in RasBoxes
    PROVE  MemoIsRight'
  <1>1. /\ \A r \in Row : SliceOf(r)' = SliceOf(r)
        /\ LeftBehind => LeftBehind'
    BY ExcusesStay
  <1>2. at.row \in Nat /\ at'.row \in Nat
    BY DEF RowsInv, TypeOK, Place
  <1>3. ASSUME NEW b \in Boxes, Spoilt(b) PROVE Spoilt(b)'
    BY <1>1, <1>2, <1>3, RowsAreNumbers DEF Spoilt, Remembers
  <1>4. \A b \in Boxes : memo[b] # 0 =>
           memo[b] = view.boxes[b] \/ Spoilt(b) \/ (LeftBehind /\ b \in RasBoxes)
    BY DEF FateInv, MemoIsRight
  <1> QED BY <1>1, <1>3, <1>4 DEF MemoIsRight

(* The stashes stay as they are, but while one is full.                    *)
LEMMA StashStaysOwn ==
    ASSUME FateInv, Remembers, at.step # "afterFill", stash' = stash
    PROVE  StashIsOwn'
  <1> QED BY ExcusesStay DEF FateInv, StashIsOwn

-----------------------------------------------------------------------------
(* The fate of the rows, step by step                                      *)

LEMMA InitHasFate == Init => FateInv
  <1> SUFFICES ASSUME Init PROVE FateInv
    OBVIOUS
  <1>1. /\ at.step = "idle" /\ at.row = 1 /\ stack = <<>> /\ lastId = 0
        /\ memo = [b \in Boxes |-> 0] /\ view.boxes = [b \in Boxes |-> 0]
        /\ \A s \in Slots : stash[s] = None
        /\ \A r \in Row : outcome[r] = "todo" /\ view.docs[r] = NoDocument
    BY DEF Init, Forgotten, EmptyStash
  <1>2. ~Saving /\ ~InRow /\ ~Named
    BY <1>1 DEF Saving, InRow, Named
  <1>3. Progress
    BY <1>1 DEF Progress, Running, Todo
  <1>4. IdsAreOwned
    <2>1. \A T \in Tables : T = [b \in Boxes |-> 0]
      BY <1>1 DEF Tables
    <2> QED BY <1>1, <2>1 DEF IdsAreOwned
  <1>5. StashIsOwn /\ MemoIsRight /\ RowMadeItsBox /\ RecordInMemory
    BY <1>1, <1>2 DEF StashIsOwn, MemoIsRight, RowMadeItsBox, RecordInMemory
  <1>6. DocumentsArePlaced
    BY <1>1 DEF DocumentsArePlaced, Placed, Sited, NoDocument
  <1>7. OutcomesAreAccounted
    BY <1>1 DEF OutcomesAreAccounted, Accounted, Failed
  <1> QED BY <1>3, <1>4, <1>5, <1>6, <1>7 DEF FateInv

LEMMA StutterKeepsFate ==
    ASSUME FateInv, UNCHANGED vars
    PROVE  FateInv'
  <1>1. UNCHANGED <<sheet, caller, skips, view, stack, lastId, memo, stash, at, outcome, deaths>>
    BY DEF vars
  <1>2. /\ \A r \in Row : /\ SliceOf(r)' = SliceOf(r) /\ (Running(r)' <=> Running(r))
                          /\ (Todo(r)' <=> Todo(r)) /\ (Failed(r)' <=> Failed(r))
                          /\ (ComesAfter(r)' <=> ComesAfter(r)) /\ (Behind(r)' <=> Behind(r))
        /\ (LeftBehind' <=> LeftBehind) /\ \A b \in Boxes : Spoilt(b)' <=> Spoilt(b)
    BY <1>1 DEF SliceOf, Running, Todo, Failed, ComesAfter, Behind, LeavesBox, Shares, LeftBehind, Spoilt
  <1>3. Progress' /\ StashIsOwn' /\ MemoIsRight'
    BY <1>1, <1>2 DEF FateInv, Progress, StashIsOwn, MemoIsRight, Says
  <1>4. IdsAreOwned'
    BY <1>1 DEF FateInv, IdsAreOwned, Tables
  <1>5. RowMadeItsBox'
    BY <1>1, <1>2 DEF FateInv, RowMadeItsBox, Saving, Named, Says
  <1>6. DocumentsArePlaced'
    BY <1>1, <1>2 DEF FateInv, DocumentsArePlaced, AllPlaced, Placed, Sited, Home
  <1>7. OutcomesAreAccounted'
    BY <1>1, <1>2 DEF FateInv, OutcomesAreAccounted, Accounted
  <1>8. RecordInMemory'
    <2>1. /\ (InRow' <=> InRow) /\ (Named' <=> Named) /\ Says' = Says
          /\ Exists(at.box, view.boxes)' <=> Exists(at.box, view.boxes)
          /\ Behind(at.row)' <=> Behind(at.row)
          /\ ComesAfter(at.row)' <=> ComesAfter(at.row)
      BY <1>1 DEF InRow, Named, Says, Exists, Behind, ComesAfter, Shares, LeavesBox, Failed,
                  Running, SliceOf
    <2> QED BY <1>1, <2>1 DEF FateInv, RecordInMemory
  <1> QED BY <1>3, <1>4, <1>5, <1>6, <1>7, <1>8 DEF FateInv

LEMMA StartRowKeepsFate ==
    ASSUME RowsInv, RowsInv', FateInv, NEW slot \in Slots, StartRow(slot)
    PROVE  FateInv'
  <1> DEFINE box == view.docs[at.row].box
  <1>1. /\ at.step = "between" /\ RowToDo
        /\ at' = [at EXCEPT !.step = "fill", !.slot = slot, !.box = box]
        /\ stack' = IF caller = "row" THEN Begun ELSE stack
        /\ UNCHANGED <<sheet, caller, skips, view, lastId, memo, stash, outcome, deaths>>
    BY DEF StartRow, RowToDo
  <1>2. /\ at'.step = "fill" /\ at'.row = at.row /\ at'.slice = at.slice /\ at'.box = box
        /\ at.row \in Nat
    BY <1>1 DEF RowsInv, TypeOK, Place
  <1>3. at.row \in Row /\ Running(at.row) /\ Todo(at.row)
    <2>1. at.row \in Row /\ SliceOf(at.row) = at.slice
      BY <1>1, <1>2, ImportRowsAssumption DEF RowToDo, Row, RowsInv, StackShape
    <2>2. Running(at.row)
      BY <1>1, <2>1 DEF Running
    <2> QED BY <1>2, <2>1, <2>2 DEF FateInv, Progress
  <1>4. ~InRow /\ ~Saving /\ ~Saving' /\ ~Named' /\ InRow' /\ Own = 0 /\ stack \in Seq(View)
    BY <1>1, <1>2, OwnIsOpen DEF InRow, Saving, Named, RowsInv, TypeOK
  <1>5. /\ \A i \in 1..Len(stack') :
              \/ stack'[i] = view
              \/ i \in 1..Len(stack) /\ stack'[i] = stack[i]
        /\ caller = "row" => stack'[1] = view
    <2>1. CASE caller = "row"
      <3>1. Len(stack) = 0 /\ view \in View
        BY <2>1, <1>1, <1>4 DEF RowsInv, TypeOK, StackShape, Outer
      <3>2. /\ Len(stack') = Len(stack) + 1 /\ stack'[Len(stack) + 1] = view
            /\ \A i \in 1..Len(stack) : stack'[i] = stack[i]
        BY <2>1, <3>1, <1>1, <1>4, BegunStack DEF Begun
      <3> QED BY <3>1, <3>2
    <2>2. CASE caller # "row"
      BY <2>2, <1>1
    <2> QED BY <2>1, <2>2
  <1>6. Progress' /\ Remembers
    BY <1>1, <1>2, HookKeepsProgress
  <1>7. IdsAreOwned'
    <2>1. \A b \in Boxes : Given(b, memo'[b], None) /\ Given(b, view'.boxes[b], None)
      BY <1>1, KnownIds
    <2>2. \A i \in 1..Len(stack'), b \in Boxes : Given(b, stack'[i].boxes[b], None)
      BY <1>5, KnownIds
    <2>3. TypeOK /\ IdsAreOwned /\ lastId' \in {lastId, lastId + 1}
      BY <1>1 DEF RowsInv, FateInv
    <2> QED BY <2>1, <2>2, <2>3, GivenIdsAreOwned
  <1>8. StashIsOwn'
    BY <1>1, <1>6, StashStaysOwn
  <1>9. MemoIsRight'
    BY <1>1, <1>2, <1>6, MemoStaysRight
  <1>10. RowMadeItsBox'
    BY <1>1, <1>4, <1>5 DEF RowMadeItsBox
  <1>11. DocumentsArePlaced' /\ OutcomesAreAccounted'
    BY <1>1, <1>2, <1>5, <1>6, HookKeepsDocuments DEF Grown
  <1>12. RecordInMemory'
    <2>1. Placed(view, at.row)
      BY <1>1, <1>3 DEF FateInv, DocumentsArePlaced
    <2>2. (box # 0 => Exists(box, view.boxes)) /\ (deaths = 0 => box = 0)
      BY <1>3, <2>1 DEF Placed
    <2> QED BY <1>1, <1>2, <1>4, <2>2 DEF RecordInMemory
  <1> QED BY <1>6, <1>7, <1>8, <1>9, <1>10, <1>11, <1>12 DEF FateInv

LEMMA TakeSliceKeepsFate ==
    ASSUME RowsInv, RowsInv', FateInv, NEW r \in Row, TakeSlice(r)
    PROVE  FateInv'
  <1>1. /\ at.step = "idle" /\ FirstToDo(SliceOf(r), r)
        /\ at' = [at EXCEPT !.step = "between", !.slice = SliceOf(r), !.row = r]
        /\ memo' = Forgotten
        /\ stack' = IF caller = "chunk" THEN Begun ELSE stack
        /\ UNCHANGED <<sheet, caller, skips, view, lastId, stash, outcome, deaths>>
    BY DEF TakeSlice
  <1>2. at'.step = "between" /\ at'.row = r /\ at'.slice = SliceOf(r)
    BY <1>1 DEF RowsInv, TypeOK, Place
  <1>3. /\ ~InRow' /\ ~Saving' /\ ~Named' /\ stack \in Seq(View) /\ Len(stack) = 0
        /\ \A q \in Row : ~Running(q)
    BY <1>1, <1>2, OwnIsOpen
       DEF InRow, Saving, Named, RowsInv, TypeOK, StackShape, Outer, Running
  <1>4. \A i \in 1..Len(stack') : stack'[i] = view
    <2>1. CASE caller = "chunk"
      <3>1. Len(stack') = 1 /\ stack'[1] = view
        BY <2>1, <1>1, <1>3, BegunStack DEF Begun, RowsInv, TypeOK
      <3> QED BY <3>1
    <2>2. CASE caller # "chunk"
      BY <2>2, <1>1, <1>3
    <2> QED BY <2>1, <2>2
  <1>5. /\ \A q \in Row : /\ SliceOf(q)' = SliceOf(q) /\ (Todo(q)' <=> Todo(q))
                          /\ (Failed(q)' <=> Failed(q))
                          /\ (Running(q)' <=> SliceOf(q) = SliceOf(r))
        /\ \A q \in Row : SliceOf(q) = SliceOf(r) => Todo(q) /\ r <= q
    <2>1. \A q \in Row : /\ SliceOf(q)' = SliceOf(q) /\ (Todo(q)' <=> Todo(q))
                         /\ (Failed(q)' <=> Failed(q))
      BY <1>1 DEF SliceOf, Todo, Failed
    <2>2. \A q \in Row : Running(q)' <=> SliceOf(q) = SliceOf(r)
      BY <1>2, <2>1 DEF Running
    <2>3. Todo(r) /\ \A q \in Row : SliceOf(q) = SliceOf(r) => r <= q
      BY <1>1 DEF FirstToDo, Todo
    <2>4. \A q \in Row : SliceOf(q) = SliceOf(r) => Todo(q)
      BY <1>3, <2>3 DEF FateInv, Progress
    <2> QED BY <2>1, <2>2, <2>3, <2>4
  <1>6. Remembers
    BY <1>1, <1>5 DEF Remembers, Todo, Failed
  <1>7. Progress'
    <2>1. \A q, p \in Row : SliceOf(q) = SliceOf(p) => (Todo(q) <=> Todo(p))
      BY <1>3 DEF FateInv, Progress
    <2>2. \A q \in Row : q >= r => SliceOf(q) >= SliceOf(r)
      BY SlicesFollow, RowsAreNumbers
    <2>3. \A q \in Row : sheet[q].fault # "none" => outcome[q] # "ok"
      BY DEF FateInv, Progress
    <2>4. \A q \in Row : SliceOf(q) = SliceOf(r) => q >= r
      BY <1>5, RowsAreNumbers
    <2> QED BY <1>1, <1>2, <1>5, <2>1, <2>2, <2>3, <2>4 DEF Progress
  <1>8. IdsAreOwned'
    <2>1. \A b \in Boxes : Given(b, memo'[b], None) /\ Given(b, view'.boxes[b], None)
      BY <1>1, KnownIds DEF Forgotten
    <2>2. \A i \in 1..Len(stack'), b \in Boxes : Given(b, stack'[i].boxes[b], None)
      BY <1>4, KnownIds
    <2>3. TypeOK /\ IdsAreOwned /\ lastId' \in {lastId, lastId + 1}
      BY <1>1 DEF RowsInv, FateInv
    <2> QED BY <2>1, <2>2, <2>3, GivenIdsAreOwned
  <1>9. StashIsOwn'
    BY <1>1, <1>6, StashStaysOwn
  <1>10. MemoIsRight' /\ RowMadeItsBox' /\ RecordInMemory'
    BY <1>1, <1>2, <1>3 DEF MemoIsRight, RowMadeItsBox, RecordInMemory, Forgotten
  <1>11. DocumentsArePlaced' /\ OutcomesAreAccounted'
    BY <1>1, <1>4, <1>6, HookKeepsDocuments DEF Grown
  <1> QED BY <1>6, <1>7, <1>8, <1>9, <1>10, <1>11 DEF FateInv

(* A step between two rows that leaves no transaction open.                *)
LEMMA NothingOpenKeepsFate ==
    ASSUME RowsInv, RowsInv', FateInv, Progress', Remembers,
           at.step \in {"between", "reported"}, at'.step \in {"reported", "idle"},
           at'.slice = at.slice, at'.row = at.row,
           UNCHANGED <<sheet, caller, skips, view, lastId, memo, stash, outcome, deaths>>
    PROVE  FateInv'
  <1>1. Len(stack') = 0 /\ ~InRow' /\ ~Saving' /\ ~Named'
    BY OwnIsOpen DEF RowsInv, StackShape, Outer, Own, InRow, Saving, Named
  <1>2. IdsAreOwned'
    <2>1. \A b \in Boxes : Given(b, memo'[b], None) /\ Given(b, view'.boxes[b], None)
      BY KnownIds
    <2>2. TypeOK /\ IdsAreOwned /\ lastId' \in {lastId, lastId + 1}
      BY DEF RowsInv, FateInv
    <2> QED BY <1>1, <2>1, <2>2, GivenIdsAreOwned
  <1>3. StashIsOwn'
    BY StashStaysOwn
  <1>4. MemoIsRight'
    BY MemoStaysRight DEF RowsInv, TypeOK, Place
  <1>5. RowMadeItsBox' /\ RecordInMemory'
    BY <1>1 DEF RowMadeItsBox, RecordInMemory, InRow
  <1>6. DocumentsArePlaced' /\ OutcomesAreAccounted'
    BY <1>1, HookKeepsDocuments DEF Grown
  <1> QED BY <1>2, <1>3, <1>4, <1>5, <1>6 DEF FateInv

LEMMA ReportSliceKeepsFate ==
    ASSUME RowsInv, RowsInv', FateInv, ReportSlice
    PROVE  FateInv'
  <1>1. /\ at.step = "between" /\ ~RowToDo /\ at' = [at EXCEPT !.step = "reported"]
        /\ UNCHANGED <<sheet, caller, skips, view, lastId, memo, stash, outcome, deaths>>
    BY DEF ReportSlice, GoesOn
  <1>2. /\ at'.step = "reported" /\ at'.row = at.row /\ at'.slice = at.slice
        /\ at.row \in Nat /\ at.row >= 1 /\ at.slice \in Nat
    BY <1>1 DEF RowsInv, TypeOK, Place, StackShape
  <1>3. \A q \in Row : /\ SliceOf(q)' = SliceOf(q) /\ (Running(q)' <=> Running(q))
                       /\ (Todo(q)' <=> Todo(q)) /\ (Failed(q)' <=> Failed(q))
    BY <1>1, <1>2 DEF SliceOf, Running, Todo, Failed
  <1>4. ASSUME NEW q \in Row, Running(q), q >= at.row PROVE FALSE
    <2>1. q \in Nat /\ q <= Rows
      BY ImportRowsAssumption DEF Row
    <2>2. at.row \in Row /\ at.row <= Rows
      BY <1>2, <1>4, <2>1, ImportRowsAssumption DEF Row
    <2>3. SliceOf(at.row) >= at.slice
      BY <1>1, <1>2, <2>2 DEF FateInv, Progress
    <2>4. SliceOf(at.row) <= SliceOf(q) /\ SliceOf(q) = at.slice /\ SliceOf(at.row) \in Nat
      BY <1>2, <1>4, <2>1, <2>2, SlicesFollow DEF Running
    <2> QED BY <1>1, <1>2, <2>2, <2>3, <2>4 DEF RowToDo
  <1>5. Remembers
    BY <1>1, <1>3 DEF Remembers
  <1>6. Progress'
    <2>1. \A q \in Row : Running(q) => q < at.row
      BY <1>2, <1>4, RowsAreNumbers
    <2> QED BY <1>1, <1>2, <1>3, <2>1 DEF FateInv, Progress
  <1> QED BY <1>1, <1>2, <1>5, <1>6, NothingOpenKeepsFate

LEMMA DeleteJobKeepsFate ==
    ASSUME RowsInv, RowsInv', FateInv, DeleteJob
    PROVE  FateInv'
  <1>1. /\ at.step = "reported" /\ at' = [at EXCEPT !.step = "idle", !.open = FALSE]
        /\ UNCHANGED <<sheet, caller, skips, view, lastId, memo, stash, outcome, deaths>>
    BY DEF DeleteJob
  <1>2. /\ at'.step = "idle" /\ at'.row = at.row /\ at'.slice = at.slice /\ at.row \in Nat
    BY <1>1 DEF RowsInv, TypeOK, Place
  <1>3. \A q \in Row : /\ SliceOf(q)' = SliceOf(q) /\ ~Running(q)'
                       /\ (Todo(q)' <=> Todo(q)) /\ (Failed(q)' <=> Failed(q))
    BY <1>1, <1>2 DEF SliceOf, Running, Todo, Failed
  <1>4. Remembers
    BY <1>1, <1>3 DEF Remembers
  <1>5. Progress'
    <2>1. \A q \in Row : Running(q) => ~Todo(q)
      BY <1>1, <1>2, RowsAreNumbers DEF FateInv, Progress
    <2>2. \A q, r \in Row : SliceOf(q) = SliceOf(r) => (Todo(q) <=> Todo(r))
      <3>1. \A q, r \in Row : SliceOf(q) = SliceOf(r) => (Running(q) <=> Running(r))
        BY DEF Running
      <3> QED BY <2>1, <3>1 DEF FateInv, Progress
    <2>3. \A q \in Row : sheet[q].fault # "none" => outcome[q] # "ok"
      BY DEF FateInv, Progress
    <2> QED BY <1>1, <1>2, <1>3, <2>2, <2>3 DEF Progress
  <1> QED BY <1>1, <1>2, <1>4, <1>5, NothingOpenKeepsFate

LEMMA DieKeepsFate ==
    ASSUME RowsInv, RowsInv', FateInv, Die
    PROVE  FateInv'
  <1>1. /\ deaths' = deaths + 1 /\ view' = Committed /\ stack' = <<>> /\ memo' = Forgotten
        /\ stash' = EmptyStash /\ at' = [at EXCEPT !.step = "idle", !.open = FALSE]
        /\ outcome' = [r \in Row |-> IF at.step # "idle" /\ SliceOf(r) = at.slice
                                     THEN "todo" ELSE outcome[r]]
        /\ UNCHANGED <<sheet, caller, skips, lastId>>
    BY DEF Die
  <1>2. /\ at'.step = "idle" /\ deaths' # 0 /\ Len(stack') = 0 /\ stack \in Seq(View)
        /\ ~InRow' /\ ~Saving' /\ ~Named'
    BY <1>1 DEF RowsInv, TypeOK, Place, InRow, Saving, Named
  <1>3. \A r \in Row :
           /\ SliceOf(r)' = SliceOf(r) /\ ~Running(r)'
           /\ outcome'[r] = IF Running(r) THEN "todo" ELSE outcome[r]
           /\ Failed(r)' <=> Failed(r) /\ ~Running(r)
           /\ Todo(r)' <=> Todo(r) \/ Running(r)
    <2>1. \A r \in Row : SliceOf(r)' = SliceOf(r) /\ ~Running(r)'
      BY <1>1, <1>2 DEF SliceOf, Running
    <2>2. \A r \in Row : outcome'[r] = IF Running(r) THEN "todo" ELSE outcome[r]
      BY <1>1 DEF Running
    <2> QED BY <2>1, <2>2 DEF Failed, Todo
  <1>4. ASSUME NEW r \in Row, ComesAfter(r) PROVE ComesAfter(r)'
    <2>1. caller # "console"
      BY <1>4 DEF ComesAfter
    <2>2. PICK q \in Row :
              \/ /\ q < r /\ SliceOf(q) = SliceOf(r)
                 /\ \/ LeavesBox(q)
                    \/ sheet[q].fault = "after" /\ sheet[q].situ # None /\ sheet[q].situ = sheet[r].situ
              \/ LeavesBox(q) /\ Failed(q) /\ SliceOf(q) # SliceOf(r) /\ ~Running(q)
      BY <1>4 DEF ComesAfter
    <2> QED BY <1>1, <1>3, <2>1, <2>2 DEF ComesAfter, LeavesBox
  <1>5. ASSUME NEW r \in Row, Behind(r), ~Running(r) PROVE Behind(r)'
    <2>1. caller # "console"
      BY <1>5 DEF Behind
    <2>2. PICK q \in Row :
              /\ Failed(q)
              /\ \/ q < r /\ SliceOf(q) = SliceOf(r) /\ Shares(q, r)
                 \/ LeavesBox(q) /\ (SliceOf(q) = SliceOf(r) \/ ~Running(q))
      BY <1>5 DEF Behind
    <2>3. ~Running(q)
      BY <1>5, <2>2 DEF Running
    <2> QED BY <1>1, <1>3, <2>1, <2>2, <2>3 DEF Behind, LeavesBox, Shares
  <1>6. Progress'
    <2>1. \A q, r \in Row : SliceOf(q) = SliceOf(r) => (Running(q) <=> Running(r))
      BY DEF Running
    <2>2. \A q, r \in Row : SliceOf(q)' = SliceOf(r)' => (Todo(q)' <=> Todo(r)')
      BY <1>3, <2>1 DEF FateInv, Progress
    <2>3. \A q \in Row : sheet'[q].fault # "none" => outcome'[q] # "ok"
      BY <1>1, <1>3 DEF FateInv, Progress
    <2> QED BY <1>2, <1>3, <2>2, <2>3 DEF Progress
  <1>7. \/ Committed = view /\ at.step # "afterSave"
        \/ Committed = stack[1] /\ 1 \in 1..Len(stack) /\ at.step # "idle"
    <2>1. CASE Len(stack) = 0
      <3>1. Committed = view
        BY <2>1, <1>2, EmptyStack DEF Committed
      <3>2. at.step # "afterSave"
        BY <2>1, SavedIsOpen DEF RowsInv
      <3> QED BY <3>1, <3>2
    <2>2. CASE Len(stack) # 0
      BY <2>2, <1>2, EmptyStack, OwnIsOpen
         DEF Committed, RowsInv, StackShape, Outer, Saving, InRow
    <2> QED BY <2>1, <2>2
  <1>8. IdsAreOwned'
    <2>1. \A b \in Boxes : Given(b, memo'[b], None) /\ Given(b, view'.boxes[b], None)
      BY <1>1, <1>7, KnownIds DEF Forgotten
    <2>2. TypeOK /\ IdsAreOwned /\ lastId' \in {lastId, lastId + 1}
      BY <1>1 DEF RowsInv, FateInv
    <2> QED BY <1>2, <2>1, <2>2, GivenIdsAreOwned
  <1>9. StashIsOwn' /\ MemoIsRight' /\ RowMadeItsBox' /\ RecordInMemory'
    BY <1>1, <1>2 DEF StashIsOwn, MemoIsRight, RowMadeItsBox, RecordInMemory, EmptyStash
  <1>10. DocumentsArePlaced'
    <2>1. ASSUME NEW r \in Row PROVE Placed(view, r)'
      <3>1. Placed(view', r)
        BY <1>1, <1>7 DEF FateInv, DocumentsArePlaced, AllPlaced
      <3> QED BY <1>1, <1>2, <1>4, <3>1 DEF Placed, Sited, Home, Exists
    <2> QED BY <1>2, <2>1 DEF DocumentsArePlaced
  <1>11. OutcomesAreAccounted'
    <2>1. ASSUME NEW r \in Row PROVE Accounted(view, r)'
      <3>1. Accounted(view', r) \/ Running(r)
        BY <1>1, <1>7 DEF FateInv, OutcomesAreAccounted, Running
      <3> QED BY <1>1, <1>2, <1>3, <1>5, <3>1 DEF Accounted
    <2> QED BY <1>2, <2>1 DEF OutcomesAreAccounted
  <1> QED BY <1>6, <1>8, <1>9, <1>10, <1>11 DEF FateInv

LEMMA DeleteBoxKeepsFate ==
    ASSUME RowsInv, RowsInv', FateInv, NEW box \in Boxes, DeleteBox(box)
    PROVE  FateInv'
  <1> DEFINE id == view.boxes[box]
             Nulled(moves) == [i \in DOMAIN moves |-> IF moves[i] = id THEN 0 ELSE moves[i]]
             boxes == [view.boxes EXCEPT ![box] = 0]
             docs == [r \in Row |-> [view.docs[r] EXCEPT !.moves = Nulled(@)]]
  <1>1. /\ at.step = "idle" /\ id # 0 /\ \A r \in Row : view.docs[r].box # id
        /\ view' = [boxes |-> boxes, docs |-> docs]
        /\ UNCHANGED <<sheet, caller, skips, stack, lastId, memo, stash, at, outcome, deaths>>
    BY DEF DeleteBox
  <1>2. /\ Len(stack) = 0 /\ ~InRow' /\ ~Saving' /\ ~Named'
        /\ view.boxes \in [Boxes -> Nat] /\ \A r \in Row : view.docs[r] \in Document
    <2>1. ~InRow /\ ~Saving /\ ~Named
      BY <1>1 DEF InRow, Saving, Named
    <2>2. ~InRow' /\ ~Saving' /\ ~Named'
      BY <1>1 DEF InRow, Saving, Named
    <2>3. Len(stack) = 0
      BY <1>1, <2>1, OwnIsOpen DEF RowsInv, StackShape, Outer
    <2>4. view.boxes \in [Boxes -> Nat] /\ \A r \in Row : view.docs[r] \in Document
      BY DEF RowsInv, TypeOK, View
    <2> QED BY <2>2, <2>3, <2>4
  <1>3. /\ \A b \in Boxes : view'.boxes[b] = IF b = box THEN 0 ELSE view.boxes[b]
        /\ \A r \in Row : /\ view'.docs[r].box = view.docs[r].box
                          /\ view'.docs[r].made = view.docs[r].made
                          /\ view.docs[r].moves = <<>> => view'.docs[r].moves = <<>>
    <2>1. view'.boxes = boxes /\ view'.docs = docs
      BY <1>1
    <2>2. ASSUME NEW r \in Row
          PROVE  docs[r] = [view.docs[r] EXCEPT !.moves = Nulled(view.docs[r].moves)]
      OBVIOUS
    <2> HIDE DEF Nulled, docs
    <2>3. \A r \in Row : /\ view'.docs[r].box = view.docs[r].box
                         /\ view'.docs[r].made = view.docs[r].made
                         /\ view'.docs[r].moves = Nulled(view.docs[r].moves)
      BY <1>2, <2>1, <2>2 DEF Document
    <2>4. Nulled(<<>>) = <<>>
      BY DEF Nulled
    <2> QED BY <1>2, <2>1, <2>3, <2>4
  <1> HIDE DEF boxes, docs
  <1>4. /\ \A r \in Row : /\ SliceOf(r)' = SliceOf(r) /\ (Running(r)' <=> Running(r))
                          /\ (Todo(r)' <=> Todo(r)) /\ (Failed(r)' <=> Failed(r))
    BY <1>1 DEF SliceOf, Running, Todo, Failed
  <1>5. Remembers
    BY <1>1, <1>4 DEF Remembers
  <1>6. Progress'
    BY <1>1, <1>4 DEF FateInv, Progress
  <1>7. IdsAreOwned'
    <2>1. \A b \in Boxes : Given(b, memo'[b], None) /\ Given(b, view'.boxes[b], None)
      BY <1>1, <1>3, KnownIds
    <2>2. TypeOK /\ IdsAreOwned /\ lastId' \in {lastId, lastId + 1}
      BY <1>1 DEF RowsInv, FateInv
    <2> QED BY <1>1, <1>2, <2>1, <2>2, GivenIdsAreOwned
  <1>8. StashIsOwn'
    BY <1>1, <1>5, StashStaysOwn
  <1>9. MemoIsRight' /\ RowMadeItsBox' /\ RecordInMemory'
    BY <1>1, <1>2 DEF MemoIsRight, RowMadeItsBox, RecordInMemory
  <1>10. DocumentsArePlaced'
    <2>1. ASSUME NEW r \in Row PROVE Placed(view, r)'
      <3>1. Placed(view, r)
        BY <1>1 DEF FateInv, DocumentsArePlaced
      <3>2. view'.docs[r].box # 0 => Exists(view'.docs[r].box, view'.boxes)
        BY <1>1, <1>3, <3>1 DEF Placed, Exists
      <3>3. Sited(view, r) => Sited(view, r)'
        <4>1. Home(r)' = Home(r) /\ (Home(r) # None => Home(r) \in Boxes)
          BY <1>1 DEF Home, RowsInv, TypeOK, Content, Boxes
        <4> QED BY <1>1, <1>3, <4>1 DEF Sited
      <3>4. ComesAfter(r) => ComesAfter(r)'
        BY <1>5, ExcusesStay
      <3> QED BY <1>1, <1>3, <1>4, <3>1, <3>2, <3>3, <3>4 DEF Placed
    <2> QED BY <1>1, <1>2, <2>1 DEF DocumentsArePlaced
  <1>11. OutcomesAreAccounted'
    <2>1. ASSUME NEW r \in Row PROVE Accounted(view, r)'
      <3>1. Accounted(view, r)
        BY <1>1 DEF FateInv, OutcomesAreAccounted
      <3>2. Behind(r) => Behind(r)'
        BY <1>5, ExcusesStay
      <3> QED BY <1>1, <1>3, <1>4, <3>1, <3>2 DEF Accounted
    <2> QED BY <1>1, <1>2, <2>1 DEF OutcomesAreAccounted
  <1> QED BY <1>6, <1>7, <1>8, <1>9, <1>10, <1>11 DEF FateInv

LEMMA FilledKeepsFate ==
    ASSUME RowsInv, RowsInv', FateInv, at.step = "fill", ~Refused, Says.fault # "fill",
           stash' = Stashed, GoesOn("afterFill"),
           UNCHANGED <<sheet, caller, skips, view, stack, lastId, memo, outcome, deaths>>
    PROVE  FateInv'
  <1>1. /\ at'.step = "afterFill" /\ at'.row = at.row /\ at'.slice = at.slice
        /\ at'.box = at.box /\ at'.slot = at.slot /\ at.slot \in Slots
    BY DEF GoesOn, RowsInv, TypeOK, Place
  <1>2. InRow /\ InRow' /\ ~Saving' /\ ~Named' /\ Says' = Says
    BY <1>1 DEF InRow, Saving, Named, Says
  <1>3. Progress' /\ Remembers
    BY <1>1, HookKeepsProgress
  <1>4. IdsAreOwned'
    BY DEF FateInv, IdsAreOwned, Tables
  <1>5. stash \in [Slots -> RasBoxes \cup {None}]
    BY DEF RowsInv, TypeOK
  <1>6. StashIsOwn'
    <2> SUFFICES ASSUME NEW slot \in Slots, stash'[slot] # None
                 PROVE  LeftBehind' \/ (slot = at.slot /\ stash'[slot] = Says.ras)
      BY <1>1, <1>2 DEF StashIsOwn
    <2>1. stash'[slot] = stash[slot] \/ (slot = at.slot /\ stash'[slot] = Says.ras)
      BY <1>1, <1>5 DEF Stashed
    <2> QED BY <1>3, <2>1, ExcusesStay DEF FateInv, StashIsOwn
  <1>7. MemoIsRight'
    BY <1>1, <1>3, MemoStaysRight DEF RowsInv, TypeOK, Place
  <1>8. RowMadeItsBox'
    BY <1>1, <1>2 DEF FateInv, RowMadeItsBox
  <1>9. DocumentsArePlaced' /\ OutcomesAreAccounted'
    BY <1>1, <1>3, HookKeepsDocuments DEF Grown
  <1>10. RecordInMemory'
    <2>1. Behind(at.row) => Behind(at.row)'
      BY <1>1, <1>2, <1>3, ExcusedAtHand
    <2>2. Says.ras # None => stash'[at.slot] = Says.ras
      BY <1>1, <1>5 DEF Stashed
    <2>3. Exists(at.box, view.boxes)' <=> Exists(at.box, view.boxes)
      BY <1>1 DEF Exists
    <2> QED BY <1>1, <1>2, <2>1, <2>2, <2>3 DEF FateInv, RecordInMemory, Refused
  <1> QED BY <1>3, <1>4, <1>6, <1>7, <1>8, <1>9, <1>10 DEF FateInv

LEMMA BeforeSaveKeepsFate ==
    ASSUME RowsInv, RowsInv', FateInv, BeforeSave
    PROVE  FateInv'
  <1>1. /\ at.step = "beforeSave" /\ view' = view
        /\ at' = [at EXCEPT !.step = "saveRecord", !.open = TRUE]
        /\ UNCHANGED <<sheet, caller, skips, lastId, memo, stash, outcome, deaths>>
    BY SavepointOnTop
  <1>2. /\ at'.step = "saveRecord" /\ at'.row = at.row /\ at'.slice = at.slice
        /\ at'.box = at.box /\ at'.slot = at.slot
    BY <1>1 DEF RowsInv, TypeOK, Place
  <1>3. InRow /\ InRow' /\ Named /\ Says' = Says
    BY <1>1, <1>2 DEF InRow, Named, Says
  <1>4. /\ Len(stack) \in Nat /\ Len(stack') = Len(stack) + 1 /\ stack'[Len(stack')] = view
        /\ \A i \in 1..Len(stack') :
              \/ stack'[i] = view
              \/ i \in 1..Len(stack) /\ stack'[i] = stack[i]
        /\ caller = "row" => stack'[1] = stack[1]
    <2>1. Len(stack) \in Nat
      BY DEF RowsInv, TypeOK
    <2>2. caller = "row" => 1 \in 1..Len(stack)
      BY <1>3, SavepointOnTop DEF RowsInv, StackShape, Outer
    <2> QED BY <2>1, <2>2, SavepointOnTop
  <1>5. Progress' /\ Remembers
    BY <1>1, <1>2, HookKeepsProgress
  <1>6. IdsAreOwned'
    <2>1. \A b \in Boxes : Given(b, memo'[b], None) /\ Given(b, view'.boxes[b], None)
      BY <1>1, KnownIds
    <2>2. \A i \in 1..Len(stack'), b \in Boxes : Given(b, stack'[i].boxes[b], None)
      BY <1>4, KnownIds
    <2>3. TypeOK /\ IdsAreOwned /\ lastId' \in {lastId, lastId + 1}
      BY <1>1 DEF RowsInv, FateInv
    <2> QED BY <2>1, <2>2, <2>3, GivenIdsAreOwned
  <1>7. StashIsOwn'
    BY <1>1, <1>5, StashStaysOwn
  <1>8. MemoIsRight'
    BY <1>1, <1>2, <1>5, MemoStaysRight DEF RowsInv, TypeOK, Place
  <1>9. RowMadeItsBox'
    <2>1. stack'[Len(stack')].boxes = view'.boxes
      BY <1>1, <1>4
    <2>2. LeftBehind => LeftBehind'
      BY <1>5, ExcusesStay
    <2> QED BY <1>1, <1>2, <1>3, <1>4, <2>1, <2>2 DEF FateInv, RowMadeItsBox
  <1>10. DocumentsArePlaced' /\ OutcomesAreAccounted'
    BY <1>1, <1>2, <1>4, <1>5, HookKeepsDocuments DEF Grown
  <1>11. RecordInMemory'
    <2>1. /\ Behind(at.row) => Behind(at.row)'
          /\ ComesAfter(at.row) => ComesAfter(at.row)'
      BY <1>2, <1>3, <1>5, ExcusedAtHand
    <2>2. Exists(at.box, view.boxes)' <=> Exists(at.box, view.boxes)
      BY <1>1, <1>2 DEF Exists
    <2> QED BY <1>1, <1>2, <1>3, <2>1, <2>2 DEF FateInv, RecordInMemory
  <1> QED BY <1>5, <1>6, <1>7, <1>8, <1>9, <1>10, <1>11 DEF FateInv

(* What resolveCurrentBox reads is the RAS Box 1 of the row, or was left   *)
(* behind.                                                                 *)
LEMMA StashedBox ==
    ASSUME RowsInv, FateInv, at.step = "afterFill"
    PROVE  /\ stash[at.slot] \in RasBoxes \cup {None}
           /\ Says.ras # None => stash[at.slot] = Says.ras
           /\ ~LeftBehind => stash[at.slot] = Says.ras
  <1>1. at.slot \in Slots /\ stash \in [Slots -> RasBoxes \cup {None}]
    BY DEF RowsInv, TypeOK, Place
  <1>2. Says.ras # None => stash[at.slot] = Says.ras
    BY DEF FateInv, RecordInMemory, InRow
  <1>3. stash[at.slot] # None => LeftBehind \/ stash[at.slot] = Says.ras
    BY <1>1 DEF FateInv, StashIsOwn
  <1> QED BY <1>1, <1>2, <1>3

(* A memo that has another id for it excuses the row.                      *)
LEMMA StaleRasBox ==
    ASSUME RowsInv, FateInv, at.step = "afterFill", stash[at.slot] # None,
           memo[stash[at.slot]] # 0, memo[stash[at.slot]] # view.boxes[stash[at.slot]]
    PROVE  Behind(at.row)
  <1> DEFINE b == stash[at.slot]
  <1>1. InRow
    BY DEF InRow
  <1>2. CASE LeftBehind
    BY <1>1, <1>2, LeftBehindExcuses
  <1>3. CASE ~LeftBehind
    <2>1. b = sheet[at.row].ras /\ b \in RasBoxes
      BY <1>3, StashedBox DEF Says
    <2>2. Spoilt(b)
      BY <1>3, <2>1 DEF FateInv, MemoIsRight, Boxes
    <2>3. PICK q \in Row : /\ q < at.row /\ SliceOf(q) = at.slice
                           /\ \/ sheet[q].ras = b /\ Failed(q)
                              \/ sheet[q].situ = b /\ sheet[q].fault = "after"
      BY <2>2 DEF Spoilt
    <2>4. sheet[q].situ # b
      BY <2>1, ImportRowsAssumption DEF RowsInv, TypeOK, Content
    <2>5. SliceOf(q) = SliceOf(at.row) /\ Shares(q, at.row)
      BY <1>1, <2>1, <2>3, <2>4, RowAtHand DEF Shares
    <2> QED BY <2>2, <2>3, <2>4, <2>5 DEF Behind, Spoilt
  <1> QED BY <1>2, <1>3

LEMMA AfterFillKeepsFate ==
    ASSUME RowsInv, RowsInv', FateInv, AfterFill
    PROVE  FateInv'
  <1> DEFINE b == stash[at.slot]
             id == Resolution(b).id
             memory == Resolution(b).memory
             seen == Resolution(b).seen
             last == Resolution(b).last
             box == IF id = 0 THEN at.box ELSE id
  <1>1. /\ at.step = "afterFill" /\ stash' = [stash EXCEPT ![at.slot] = None]
        /\ view' = seen /\ memo' = memory /\ lastId' = last
        /\ at' = [at EXCEPT !.step = "beforeSave", !.box = box]
        /\ UNCHANGED <<sheet, caller, skips, stack, outcome, deaths>>
    BY Zenon DEF AfterFill
  <1>2. /\ b \in RasBoxes \cup {None} /\ (Says.ras # None => b = Says.ras)
        /\ (~LeftBehind => b = Says.ras)
    BY <1>1, StashedBox
  <1>3. b \in Boxes \cup {None} /\ TypeOK /\ IdsAreOwned
    BY <1>2 DEF Boxes, RowsInv, FateInv
  <1>4. /\ last \in {lastId, lastId + 1}
        /\ Grown(view.boxes, seen.boxes)
        /\ \A c \in Boxes :
              /\ \/ seen.boxes[c] = view.boxes[c]
                 \/ c = b /\ seen.boxes[c] = lastId + 1 /\ last = lastId + 1
              /\ \/ memory[c] = memo[c] /\ seen.boxes[c] = view.boxes[c]
                 \/ memory[c] = seen.boxes[c]
        /\ b = None => id = 0 /\ seen = view /\ memory = memo
        /\ b # None => /\ id # 0
                       /\ \/ id = seen.boxes[b]
                          \/ id = memo[b] /\ memo[b] # view.boxes[b] /\ seen = view
    BY <1>3, ResolutionAdds
  <1>5. seen.docs = view.docs
    BY <1>3, ResolutionType
  <1> HIDE DEF id, memory, seen, last
  <1>6. /\ at'.step = "beforeSave" /\ at'.row = at.row /\ at'.slice = at.slice /\ at'.box = box
        /\ at.slot \in Slots
    BY <1>1 DEF RowsInv, TypeOK, Place
  <1> HIDE DEF box
  <1>7. InRow /\ InRow' /\ ~Saving' /\ Named' /\ Says' = Says
    BY <1>1, <1>6 DEF InRow, Saving, Named, Says
  <1>8. Progress' /\ Remembers
    BY <1>1, <1>6, HookKeepsProgress
  <1>9. /\ LeftBehind => LeftBehind' /\ Behind(at.row) /\ ComesAfter(at.row)
        /\ Behind(at.row) => Behind(at.row)'
        /\ ComesAfter(at.row) => ComesAfter(at.row)'
    BY <1>6, <1>7, <1>8, LeftBehindExcuses, ExcusedAtHand, ExcusesStay
  <1>10. IdsAreOwned'
    <2>1. ASSUME NEW c \in Boxes PROVE Given(c, view'.boxes[c], b)
      <3>1. CASE seen.boxes[c] = view.boxes[c]
        BY <1>1, <3>1, KnownIds
      <3>2. CASE seen.boxes[c] # view.boxes[c]
        BY <1>1, <1>4, <3>2 DEF Given
      <3> QED BY <3>1, <3>2
    <2>2. ASSUME NEW c \in Boxes PROVE Given(c, memo'[c], b)
      BY <1>1, <1>4, <2>1, KnownIds
    <2>3. \A i \in 1..Len(stack'), c \in Boxes : Given(c, stack'[i].boxes[c], b)
      BY <1>1, KnownIds
    <2> QED BY <1>1, <1>3, <1>4, <2>1, <2>2, <2>3, GivenIdsAreOwned
  <1>11. StashIsOwn'
    <2> SUFFICES ASSUME NEW slot \in Slots, stash'[slot] # None PROVE LeftBehind'
      BY DEF StashIsOwn
    <2>1. slot # at.slot /\ stash[slot] # None
      BY <1>1 DEF RowsInv, TypeOK
    <2> QED BY <1>9, <2>1 DEF FateInv, StashIsOwn
  <1>12. MemoIsRight'
    BY <1>1, <1>4, <1>6, <1>8, MemoStaysRight DEF RowsInv, TypeOK, Place
  <1>13. RowMadeItsBox'
    <2> SUFFICES ASSUME caller = "row", NEW c \in Boxes
                 PROVE  \/ stack'[1].boxes[c] = view'.boxes[c]
                        \/ c = Says.ras
                        \/ LeftBehind' /\ c \in RasBoxes
      BY <1>1, <1>7 DEF RowMadeItsBox
    <2>1. stack'[1] = view
      BY <1>1 DEF FateInv, RowMadeItsBox
    <2>2. c = b => c \in RasBoxes
      BY <1>2, ImportRowsAssumption
    <2> QED BY <1>1, <1>2, <1>4, <1>9, <2>1, <2>2
  <1>14. DocumentsArePlaced' /\ OutcomesAreAccounted'
    BY <1>1, <1>4, <1>5, <1>6, <1>8, HookKeepsDocuments
  <1>15. b # None /\ id # seen.boxes[b] => Behind(at.row) /\ ~Exists(id, view.boxes)
    <2> SUFFICES ASSUME b # None, id # seen.boxes[b]
                 PROVE  Behind(at.row) /\ ~Exists(id, view.boxes)
      OBVIOUS
    <2>1. b \in Boxes /\ id # 0 /\ id = memo[b] /\ memo[b] # view.boxes[b]
      BY <1>3, <1>4
    <2>2. Behind(at.row)
      BY <1>1, <2>1, StaleRasBox
    <2>3. \A c \in Boxes : view.boxes[c] = memo[b] => b = c
      BY <1>3, <2>1 DEF IdsAreOwned, Tables
    <2> QED BY <2>1, <2>2, <2>3 DEF Exists
  <1>16. RecordInMemory'
    <2>1. box # 0 => Exists(box, view'.boxes) \/ Behind(at.row)
      <3>1. CASE b = None
        <4>1. box = at.box /\ view' = view
          BY <1>1, <1>4, <3>1 DEF box
        <4> QED BY <1>1, <1>7, <4>1 DEF FateInv, RecordInMemory
      <3>2. CASE b # None
        <4>1. box = id
          BY <1>4, <3>2 DEF box
        <4> QED BY <1>1, <1>3, <1>15, <3>2, <4>1 DEF Exists
      <3> QED BY <3>1, <3>2
    <2>2. \/ ComesAfter(at.row)
          \/ /\ Says.ras # None
             /\ box # 0
             /\ box = view'.boxes[Says.ras] \/ ~Exists(box, view'.boxes)
          \/ /\ Says.ras = None
             /\ box # 0 => Says.situ # None /\ box = view'.boxes[Says.situ]
      <3>1. CASE LeftBehind
        BY <1>9, <3>1
      <3>2. CASE ~LeftBehind /\ Says.ras # None
        <4>1. box = id /\ id # 0 /\ b = Says.ras
          BY <1>2, <1>4, <3>2 DEF box
        <4> QED BY <1>1, <1>4, <1>15, <3>2, <4>1
      <3>3. CASE ~LeftBehind /\ Says.ras = None
        <4>1. box = view.docs[at.row].box /\ view' = view
          BY <1>1, <1>2, <1>4, <1>7, <3>3 DEF box, FateInv, RecordInMemory
        <4>2. ComesAfter(at.row) \/ Sited(view, at.row)
          BY <1>1, <1>7, RowAtHand DEF FateInv, DocumentsArePlaced, Placed
        <4>3. Says.situ # None => Home(at.row) = Says.situ
          BY DEF Home, Says
        <4>4. Says.situ = None => Home(at.row) = None
          BY <3>3 DEF Home, Says
        <4> QED BY <3>3, <4>1, <4>2, <4>3, <4>4 DEF Sited
      <3> QED BY <3>1, <3>2, <3>3
    <2>3. deaths = 0 /\ Says.ras = None => box = 0 \/ Behind(at.row)
      <3>1. CASE LeftBehind
        BY <1>9, <3>1
      <3>2. CASE ~LeftBehind
        BY <1>2, <1>4, <1>7, <3>2 DEF box, FateInv, RecordInMemory
      <3> QED BY <3>1, <3>2
    <2>4. Says.fault \notin {"early", "fill"}
      BY <1>1, <1>7 DEF FateInv, RecordInMemory
    <2>5. Exists(at.box, view.boxes)' <=> Exists(box, view'.boxes)
      BY <1>6 DEF Exists
    <2> QED BY <1>1, <1>6, <1>7, <1>9, <2>1, <2>2, <2>3, <2>4, <2>5 DEF RecordInMemory
  <1> QED BY <1>8, <1>10, <1>11, <1>12, <1>13, <1>14, <1>16 DEF FateInv

LEMMA SavedKeepsFate ==
    ASSUME RowsInv, RowsInv', FateInv, at.step = "saveRecord", Save, lastId' = lastId
    PROVE  FateInv'
  <1> DEFINE doc == view.docs[at.row]
             saved == [doc EXCEPT !.made = TRUE, !.box = at.box, !.whole = FALSE]
  <1>1. /\ ~CannotSave
        /\ view' = [view EXCEPT !.docs[at.row] = saved]
        /\ at' = [at EXCEPT !.step = "afterSave"]
        /\ UNCHANGED <<sheet, caller, skips, stack, memo, stash, outcome, deaths>>
    BY DEF Save, GoesOn
  <1>2. /\ at'.step = "afterSave" /\ at'.row = at.row /\ at'.slice = at.slice
        /\ at'.box = at.box /\ at'.slot = at.slot /\ at.row \in Nat
    BY <1>1 DEF RowsInv, TypeOK, Place
  <1>3. /\ InRow /\ InRow' /\ Saving /\ Saving' /\ Named /\ Named' /\ Says' = Says
    BY <1>1, <1>2 DEF InRow, Saving, Named, Says
  <1>4. at.row \in Row /\ Todo(at.row)
    BY <1>3, RowAtHand
  <1>5. /\ view'.boxes = view.boxes /\ view'.docs[at.row] = saved
        /\ \A r \in Row : r # at.row => view'.docs[r] = view.docs[r]
    BY <1>1, <1>4 DEF RowsInv, TypeOK, View
  <1>6. saved.box = at.box
    BY <1>4 DEF RowsInv, TypeOK, View, Document
  <1> HIDE DEF saved
  <1>7. Progress' /\ Remembers
    BY <1>1, <1>2, HookKeepsProgress
  <1>8. /\ \A r \in Row : ComesAfter(r) => ComesAfter(r)'
        /\ \A r \in Row : Behind(r) => Behind(r)'
        /\ \A r \in Row : SliceOf(r)' = SliceOf(r)
        /\ LeftBehind => LeftBehind'
        /\ Behind(at.row) => Behind(at.row)'
        /\ ComesAfter(at.row) => ComesAfter(at.row)'
    BY <1>2, <1>3, <1>7, ExcusesStay, ExcusedAtHand
  <1>9. IdsAreOwned'
    BY <1>1, <1>5 DEF FateInv, IdsAreOwned, Tables
  <1>10. StashIsOwn'
    BY <1>1, <1>7, StashStaysOwn
  <1>11. MemoIsRight'
    BY <1>1, <1>2, <1>5, <1>7, MemoStaysRight
  <1>12. RowMadeItsBox'
    BY <1>1, <1>2, <1>3, <1>5, <1>8 DEF FateInv, RowMadeItsBox
  <1>13. DocumentsArePlaced'
    <2>1. ASSUME NEW r \in Row, r # at.row PROVE Placed(view, r)'
      <3>1. Placed(view, r)
        BY <1>1 DEF FateInv, DocumentsArePlaced
      <3> QED BY <1>1, <1>5, <1>8, <2>1, <3>1 DEF Placed, Sited, Home, Exists, Todo
    <2>2. ASSUME NEW i \in 1..Len(stack'), NEW r \in Row PROVE Placed(stack[i], r)'
      <3>1. Placed(stack'[i], r)
        BY <1>1, <2>2 DEF FateInv, DocumentsArePlaced, AllPlaced
      <3> QED BY <1>1, <1>8, <3>1 DEF Placed, Sited, Home, Exists, Todo
    <2> QED BY <1>2, <2>1, <2>2 DEF DocumentsArePlaced, AllPlaced
  <1>14. OutcomesAreAccounted'
    <2>1. ASSUME NEW r \in Row PROVE Accounted(view, r)'
      <3>1. Accounted(view, r)
        BY DEF FateInv, OutcomesAreAccounted
      <3>2. CASE r # at.row
        BY <1>1, <1>5, <1>8, <3>1, <3>2 DEF Accounted, Failed
      <3>3. CASE r = at.row
        BY <1>1, <1>4, <3>3 DEF Accounted, Failed, Todo
      <3> QED BY <3>2, <3>3
    <2>2. ASSUME NEW i \in 1..Len(stack'), NEW r \in Row
          PROVE  Accounted(stack[i], r)' \/ (caller' = "chunk" /\ i = 1 /\ SliceOf(r)' = at'.slice)
      <3>1. Accounted(stack'[i], r) \/ (caller = "chunk" /\ i = 1 /\ SliceOf(r) = at.slice)
        BY <1>1, <2>2 DEF FateInv, OutcomesAreAccounted
      <3> QED BY <1>1, <1>2, <1>8, <3>1 DEF Accounted, Failed
    <2> QED BY <2>1, <2>2 DEF OutcomesAreAccounted
  <1>15. RecordInMemory'
    <2>1. Exists(at.box, view.boxes)' <=> Exists(at.box, view.boxes)
      BY <1>2, <1>5 DEF Exists
    <2>2. Says.fault # "save" /\ (at.box # 0 => Exists(at.box, view.boxes))
      BY <1>1 DEF CannotSave
    <2> QED BY <1>1, <1>2, <1>3, <1>5, <1>6, <1>8, <2>1, <2>2 DEF FateInv, RecordInMemory
  <1> QED BY <1>7, <1>9, <1>10, <1>11, <1>12, <1>13, <1>14, <1>15 DEF FateInv

(* A row that throws, with a reason, may leave its box in the stash and    *)
(* spoil the memo of the boxes it names, and nothing else.                 *)
LEMMA FailedKeepsFate ==
    ASSUME RowsInv, RowsInv', FateInv, InRow, NEW memory \in [Boxes -> Nat],
           NEW stashed \in [Slots -> RasBoxes \cup {None}],
           RowFails(Own, view, memory, stashed), lastId' \in {lastId, lastId + 1},
           Says.fault = "none" => \/ Behind(at.row)
                                  \/ skips /\ view.docs[at.row].made /\ at.step = "fill",
           \A slot \in Slots : stashed[slot] # None => LeftBehind \/ LeavesBox(at.row),
           \A b \in Boxes : memory[b] # 0 =>
               \/ memory[b] = memo[b]
               \/ memory[b] = view.boxes[b]
               \/ /\ Says.situ = b /\ Says.fault = "after"
                  /\ memory[b] = lastId + 1 /\ lastId' = lastId + 1
    PROVE  FateInv'
  <1>1. /\ outcome' = [outcome EXCEPT ![at.row] = "failed"]
        /\ memo' = (IF caller = "console" THEN Forgotten ELSE memory)
        /\ stash' = (IF caller = "console" THEN EmptyStash ELSE stashed)
        /\ UNCHANGED <<sheet, caller, skips, deaths>>
    BY Zenon DEF RowFails
  <1>2. /\ at'.step \in {"between", "aborted"} /\ at'.row = at.row + 1 /\ at'.slice = at.slice
        /\ Len(stack') = IF caller = "chunk" THEN 1 ELSE 0
        /\ \A i \in 1..Len(stack') : stack'[i] = stack[i] /\ i \in 1..Len(stack)
        /\ \/ view' = view /\ ~Saving /\ caller # "row"
           \/ \E i \in 1..Len(stack) :
                 /\ view' = stack[i]
                 /\ caller = "chunk" => i # 1 /\ i = Len(stack) /\ Saving
                 /\ caller = "row" => i = 1
    BY RowFailsShape
  <1>3. PICK h \in Row : h = at.row
    BY RowAtHand
  <1>4. /\ SliceOf(h) = at.slice /\ Running(h) /\ Todo(h) /\ ~Failed(h)
        /\ h \in Nat /\ Says = sheet[h] /\ at.step # "idle"
    BY <1>3, RowAtHand, RowsAreNumbers DEF Says, InRow
  <1>5. ~InRow' /\ ~Saving' /\ ~Named'
    BY <1>2 DEF InRow, Saving, Named
  <1>6. \A r \in Row : /\ SliceOf(r)' = SliceOf(r) /\ (Running(r)' <=> Running(r))
                       /\ outcome'[r] = IF r = h THEN "failed" ELSE outcome[r]
    <2>1. \A r \in Row : SliceOf(r)' = SliceOf(r)
      BY <1>1 DEF SliceOf
    <2>2. \A r \in Row : Running(r)' <=> Running(r)
      BY <1>2, <1>4, <2>1 DEF Running
    <2>3. \A r \in Row : outcome'[r] = IF r = h THEN "failed" ELSE outcome[r]
      BY <1>1, <1>3 DEF RowsInv, TypeOK
    <2> QED BY <2>1, <2>2, <2>3
  <1>7. Remembers /\ Failed(h)'
    BY <1>1, <1>6 DEF Remembers, Failed
  <1>8. /\ \A r \in Row : ComesAfter(r) => ComesAfter(r)'
        /\ \A r \in Row : Behind(r) => Behind(r)'
        /\ LeftBehind => LeftBehind'
    BY <1>7, ExcusesStay
  <1>9. Progress'
    <2>1. \A q \in Row : Todo(q)' <=> Todo(q) /\ q # h
      BY <1>6 DEF Todo
    <2>2. \A q, r \in Row : SliceOf(q)' = SliceOf(r)' /\ ~Running(q)' => (Todo(q)' <=> Todo(r)')
      <3>1. \A q, r \in Row : SliceOf(q) = SliceOf(r) => (Running(q) <=> Running(r))
        BY DEF Running
      <3> QED BY <1>4, <1>6, <2>1, <3>1 DEF FateInv, Progress
    <2>3. \A q \in Row : Running(q)' => (Todo(q)' <=> q >= at'.row)
      <3>1. \A q \in Row : q >= h /\ q # h <=> q >= h + 1
        BY <1>4, RowsAreNumbers
      <3>2. \A q \in Row : Running(q) => (Todo(q) <=> q >= h)
        BY <1>3 DEF FateInv, Progress
      <3> QED BY <1>2, <1>3, <1>6, <2>1, <3>1, <3>2
    <2>4. \A q \in Row : q >= at'.row => SliceOf(q)' >= at'.slice
      <3>1. \A q \in Row : q >= h + 1 => q >= h
        BY <1>4, RowsAreNumbers
      <3>2. \A q \in Row : q >= h => SliceOf(q) >= at.slice
        BY <1>3, <1>4 DEF FateInv, Progress
      <3> QED BY <1>2, <1>3, <1>6, <3>1, <3>2
    <2>5. \A q \in Row : sheet'[q].fault # "none" => outcome'[q] # "ok"
      BY <1>1, <1>6 DEF FateInv, Progress
    <2> QED BY <1>2, <2>2, <2>3, <2>4, <2>5 DEF Progress
  <1>10. IdsAreOwned'
    <2> DEFINE new == Says.situ
    <2>1. ASSUME NEW b \in Boxes PROVE Given(b, memo'[b], new)
      <3>1. \/ memo'[b] = 0 \/ memo'[b] = memo[b] \/ memo'[b] = view.boxes[b]
            \/ b = new /\ memo'[b] = lastId + 1 /\ lastId' = lastId + 1
        BY <1>1 DEF Forgotten
      <3>2. Given(b, 0, new) /\ Given(b, memo[b], new) /\ Given(b, view.boxes[b], new)
        BY KnownIds
      <3>3. CASE b = new /\ memo'[b] = lastId + 1 /\ lastId' = lastId + 1
        BY <3>3 DEF Given
      <3> QED BY <3>1, <3>2, <3>3
    <2>2. ASSUME NEW b \in Boxes PROVE Given(b, view'.boxes[b], new)
      BY <1>2, KnownIds
    <2>3. \A i \in 1..Len(stack'), b \in Boxes : Given(b, stack'[i].boxes[b], new)
      BY <1>2, KnownIds
    <2>4. TypeOK /\ IdsAreOwned
      BY DEF RowsInv, FateInv
    <2> HIDE DEF new
    <2> QED BY <2>1, <2>2, <2>3, <2>4, GivenIdsAreOwned
  <1>11. StashIsOwn'
    <2> SUFFICES ASSUME NEW slot \in Slots, stash'[slot] # None PROVE LeftBehind'
      BY DEF StashIsOwn
    <2>1. caller # "console" /\ stashed[slot] # None
      BY <1>1 DEF EmptyStash
    <2>2. CASE LeavesBox(at.row)
      <3>1. LeavesBox(h)'
        BY <1>1, <1>3, <2>2 DEF LeavesBox
      <3> QED BY <1>1, <1>7, <2>1, <3>1 DEF LeftBehind
    <2> QED BY <1>8, <2>1, <2>2
  <1>12. \A b \in Boxes : \/ view'.boxes[b] = view.boxes[b]
                          \/ b = Says.ras
                          \/ LeftBehind /\ b \in RasBoxes
                          \/ caller = "console"
    <2>1. CASE caller = "row"
      <3>1. view' = stack[1]
        BY <1>2, <2>1
      <3>2. CASE at.step \in {"fill", "afterFill"}
        BY <2>1, <3>1, <3>2 DEF FateInv, RowMadeItsBox
      <3>3. CASE at.step \notin {"fill", "afterFill"}
        BY <2>1, <3>1, <3>3 DEF FateInv, RowMadeItsBox, InRow, Named
      <3> QED BY <3>2, <3>3
    <2>2. CASE caller = "chunk"
      BY <1>2, <2>2 DEF FateInv, RowMadeItsBox
    <2>3. caller \in {"chunk", "row", "console"}
      BY DEF RowsInv, TypeOK
    <2> QED BY <2>1, <2>2, <2>3
  <1>13. MemoIsRight'
    <2> SUFFICES ASSUME NEW b \in Boxes, memo'[b] # 0
                 PROVE  \/ memo'[b] = view'.boxes[b]
                        \/ Spoilt(b)'
                        \/ LeftBehind' /\ b \in RasBoxes
      BY DEF MemoIsRight
    <2>1. caller # "console" /\ memo'[b] = memory[b]
      BY <1>1 DEF Forgotten
    <2>2. Spoilt(b) => Spoilt(b)'
      BY <1>1, <1>2, <1>3, <1>4, <1>6, <1>7, RowsAreNumbers DEF Spoilt, Remembers
    <2>3. b = Says.ras \/ (Says.situ = b /\ Says.fault = "after") => Spoilt(b)'
      <3>1. h < at'.row /\ SliceOf(h)' = at'.slice
        BY <1>2, <1>3, <1>4, <1>6
      <3> QED BY <1>1, <1>4, <1>7, <2>1, <3>1 DEF Spoilt
    <2>4. memo'[b] = view.boxes[b] \/ Spoilt(b) \/ (LeftBehind /\ b \in RasBoxes)
          \/ (Says.situ = b /\ Says.fault = "after")
      BY <1>4, <2>1 DEF FateInv, MemoIsRight
    <2> QED BY <1>8, <1>12, <2>1, <2>2, <2>3, <2>4
  <1>14. RowMadeItsBox' /\ RecordInMemory'
    BY <1>2, <1>5 DEF RowMadeItsBox, RecordInMemory
  <1>15. DocumentsArePlaced'
    <2>1. ASSUME NEW v, NEW r \in Row, Placed(v, r)
          PROVE  /\ v.docs[r].box # 0 => Exists(v.docs[r].box, v.boxes)
                 /\ ComesAfter(r)' \/ Sited(v, r)
                 /\ deaths' = 0 /\ Todo(r)' => v.docs[r].box = 0
      BY <1>1, <1>6, <1>8, <2>1 DEF Placed, Todo
    <2>2. \A r \in Row : Placed(view', r)
      BY <1>2 DEF FateInv, DocumentsArePlaced, AllPlaced, Saving
    <2>3. \A i \in 1..Len(stack'), r \in Row : Placed(stack'[i], r)
      BY <1>2 DEF FateInv, DocumentsArePlaced, AllPlaced
    <2>4. ASSUME NEW r \in Row PROVE Placed(view, r)'
      BY <1>1, <2>1, <2>2 DEF Placed, Sited, Home, Exists
    <2>5. ASSUME NEW i \in 1..Len(stack'), NEW r \in Row PROVE Placed(stack[i], r)'
      BY <1>1, <2>1, <2>3 DEF Placed, Sited, Home, Exists
    <2> QED BY <2>4, <2>5 DEF DocumentsArePlaced, AllPlaced
  <1>16. OutcomesAreAccounted'
    <2>1. ASSUME NEW r \in Row PROVE Accounted(view, r)'
      <3>1. CASE r # h
        <4>1. Accounted(view', r)
          BY <1>2 DEF FateInv, OutcomesAreAccounted
        <4> QED BY <1>1, <1>6, <1>8, <3>1, <4>1 DEF Accounted, Failed
      <3>2. CASE r = h
        <4>1. Says.fault = "none" => Behind(h)' \/ (skips /\ view'.docs[h].made)
          <5>1. CASE Says.fault = "none" /\ Behind(at.row)
            BY <1>3, <1>8, <5>1
          <5>2. CASE skips /\ view.docs[at.row].made /\ at.step = "fill"
            <6>1. view' = view
              <7>1. ~Saving /\ Outer = (IF caller = "console" THEN 0 ELSE 1) /\ Own = 0
                BY <5>2, OwnIsOpen DEF Saving, Outer, InRow, RowsInv, TypeOK
              <7>2. caller = "console" => Len(stack) = 0
                BY <7>1 DEF RowsInv, StackShape
              <7>3. caller = "row" => stack[1] = view
                BY <5>2 DEF FateInv, RowMadeItsBox
              <7> QED BY <1>2, <7>1, <7>2, <7>3 DEF RowsInv, TypeOK
            <6> QED BY <1>3, <5>2, <6>1
          <5> QED BY <5>1, <5>2
        <4> QED BY <1>1, <1>4, <1>6, <3>2, <4>1 DEF Accounted, Failed
      <3> QED BY <3>1, <3>2
    <2>2. ASSUME NEW i \in 1..Len(stack'), NEW r \in Row
          PROVE  Accounted(stack[i], r)' \/ (caller' = "chunk" /\ i = 1 /\ SliceOf(r)' = at'.slice)
      <3>1. Accounted(stack'[i], r) \/ SliceOf(r) = at.slice
        BY <1>2 DEF FateInv, OutcomesAreAccounted
      <3>2. caller = "chunk" /\ i = 1
        BY <1>2
      <3>3. CASE SliceOf(r) # at.slice
        <4>1. r # h
          BY <1>4, <3>3
        <4> QED BY <1>1, <1>6, <1>8, <3>1, <3>3, <4>1 DEF Accounted, Failed
      <3> QED BY <1>1, <1>2, <1>6, <3>2, <3>3
    <2> QED BY <2>1, <2>2 DEF OutcomesAreAccounted
  <1> QED BY <1>9, <1>10, <1>11, <1>13, <1>14, <1>15, <1>16 DEF FateInv

LEMMA FillRecordKeepsFate ==
    ASSUME RowsInv, RowsInv', FateInv, FillRecord
    PROVE  FateInv'
  <1>1. at.step = "fill" /\ lastId' = lastId /\ InRow /\ at.slot \in Slots
    BY DEF FillRecord, InRow, RowsInv, TypeOK, Place
  <1>2. /\ 0 = Own /\ memo \in [Boxes -> Nat] /\ stash \in [Slots -> RasBoxes \cup {None}]
        /\ Stashed \in [Slots -> RasBoxes \cup {None}]
    <2>1. Says.ras \in RasBoxes \cup {None}
      BY <1>1 DEF RowsInv, TypeOK, StackShape, Says, Content
    <2> QED BY <1>1, <2>1, OwnIsOpen DEF RowsInv, TypeOK, Stashed, Saving
  <1>3. \A slot \in Slots : stash[slot] # None => LeftBehind
    BY <1>1 DEF FateInv, StashIsOwn
  <1>4. CASE Refused /\ RowFails(0, view, memo, stash)
    <2>1. Says.fault = "none" => skips /\ view.docs[at.row].made /\ at.step = "fill"
      BY <1>1, <1>4 DEF Refused
    <2>2. RowFails(Own, view, memo, stash)
      BY <1>2, <1>4
    <2> QED BY <1>1, <1>2, <1>3, <2>1, <2>2, FailedKeepsFate
  <1>5. CASE Says.fault = "fill" /\ RowFails(0, view, memo, Stashed)
    <2>1. \A slot \in Slots : Stashed[slot] # None => LeftBehind \/ LeavesBox(at.row)
      BY <1>1, <1>2, <1>3, <1>5 DEF Stashed, LeavesBox, Says
    <2>2. RowFails(Own, view, memo, Stashed)
      BY <1>2, <1>5
    <2> QED BY <1>1, <1>2, <1>5, <2>1, <2>2, FailedKeepsFate
  <1>6. CASE /\ ~Refused /\ Says.fault # "fill"
             /\ stash' = Stashed
             /\ GoesOn("afterFill")
             /\ UNCHANGED <<sheet, caller, skips, view, stack, memo, outcome, deaths>>
    BY <1>1, <1>6, FilledKeepsFate
  <1> QED BY <1>4, <1>5, <1>6, Zenon DEF FillRecord

LEMMA SaveRecordKeepsFate ==
    ASSUME RowsInv, RowsInv', FateInv, SaveRecord
    PROVE  FateInv'
  <1>1. at.step = "saveRecord" /\ lastId' = lastId /\ InRow
    BY DEF SaveRecord, InRow
  <1>2. CASE CannotSave /\ RowFails(Own, view, memo, stash)
    <2>1. \A slot \in Slots : stash[slot] # None => LeftBehind
      BY <1>1 DEF FateInv, StashIsOwn
    <2>2. Says.fault = "none" => Behind(at.row)
      BY <1>1, <1>2 DEF CannotSave, FateInv, RecordInMemory
    <2>3. memo \in [Boxes -> Nat] /\ stash \in [Slots -> RasBoxes \cup {None}]
      BY DEF RowsInv, TypeOK
    <2> QED BY <1>1, <1>2, <2>1, <2>2, <2>3, FailedKeepsFate
  <1>3. CASE Save
    BY <1>1, <1>3, SavedKeepsFate
  <1> QED BY <1>2, <1>3, Zenon DEF SaveRecord

(* A memo that has another id for In Situ Box 1 excuses the row.           *)
LEMMA StaleSituBox ==
    ASSUME RowsInv, FateInv, InRow, Says.situ # None,
           memo[Says.situ] # 0, memo[Says.situ] # view.boxes[Says.situ]
    PROVE  Behind(at.row) /\ ComesAfter(at.row)
  <1> DEFINE b == Says.situ
  <1>1. at.row \in Row /\ b = sheet[at.row].situ /\ b \in SituBoxes /\ b \in Boxes
        /\ b \notin RasBoxes /\ b # None
    BY RowAtHand, ImportRowsAssumption DEF Says, RowsInv, TypeOK, Content, Boxes
  <1>2. Spoilt(b)
    BY <1>1 DEF FateInv, MemoIsRight, InRow
  <1>3. PICK q \in Row : /\ q < at.row /\ SliceOf(q) = at.slice
                         /\ \/ sheet[q].ras = b /\ Failed(q)
                            \/ sheet[q].situ = b /\ sheet[q].fault = "after"
    BY <1>2 DEF Spoilt
  <1>4. sheet[q].situ = b /\ sheet[q].fault = "after"
    BY <1>1, <1>3 DEF RowsInv, TypeOK, Content
  <1>5. Failed(q)
    <2>1. Running(q) /\ ~Todo(q)
      <3>1. Running(q)
        BY <1>3 DEF Running, InRow
      <3> QED BY <1>1, <1>3, <3>1, RowsAreNumbers DEF FateInv, Progress
    <2>2. outcome[q] # "ok"
      BY <1>4 DEF FateInv, Progress
    <2> QED BY <2>1, <2>2 DEF Failed, Todo, RowsInv, TypeOK
  <1>6. SliceOf(q) = SliceOf(at.row) /\ Shares(q, at.row) /\ caller # "console"
    BY <1>1, <1>2, <1>3, <1>4, RowAtHand DEF Shares, Spoilt
  <1> QED BY <1>1, <1>3, <1>4, <1>5, <1>6 DEF Behind, ComesAfter

(* What In Situ Box 1 resolves to: a box of the table, new or not, or      *)
(* what a failure left in the memo.                                        *)
LEMMA SituResolved ==
    ASSUME RowsInv, FateInv, at.step = "afterSave"
    PROVE  LET situ == Resolution(Says.situ) IN
           /\ Says.situ \in SituBoxes \cup {None}
           /\ situ.last \in {lastId, lastId + 1}
           /\ Grown(view.boxes, situ.seen.boxes)
           /\ \A b \in Boxes :
                 /\ \/ situ.seen.boxes[b] = view.boxes[b]
                    \/ b = Says.situ /\ situ.seen.boxes[b] = lastId + 1 /\ situ.last = lastId + 1
                 /\ \/ situ.memory[b] = memo[b] /\ situ.seen.boxes[b] = view.boxes[b]
                    \/ situ.memory[b] = situ.seen.boxes[b]
           /\ Says.situ = None => situ.id = 0 /\ situ.seen = view
           /\ Says.situ # None =>
                 /\ situ.id # 0
                 /\ \/ situ.id = situ.seen.boxes[Says.situ]
                    \/ situ.seen = view /\ Behind(at.row) /\ ComesAfter(at.row)
           /\ situ.seen.docs = view.docs
           /\ at.box # 0 => Exists(at.box, situ.seen.boxes)
  <1> DEFINE b == Says.situ
             id == Resolution(b).id
             memory == Resolution(b).memory
             seen == Resolution(b).seen
             last == Resolution(b).last
  <1>1. InRow /\ b \in SituBoxes \cup {None} /\ b \in Boxes \cup {None}
    <2>1. InRow
      BY DEF InRow
    <2> QED BY <2>1, RowAtHand DEF RowsInv, TypeOK, Content, Says, Boxes
  <1>2. TypeOK /\ IdsAreOwned
    BY DEF RowsInv, FateInv
  <1>3. seen.docs = view.docs
    BY <1>1, <1>2, ResolutionType
  <1>4. /\ last \in {lastId, lastId + 1}
        /\ Grown(view.boxes, seen.boxes)
        /\ \A c \in Boxes :
              /\ \/ seen.boxes[c] = view.boxes[c]
                 \/ c = b /\ seen.boxes[c] = lastId + 1 /\ last = lastId + 1
              /\ \/ memory[c] = memo[c] /\ seen.boxes[c] = view.boxes[c]
                 \/ memory[c] = seen.boxes[c]
        /\ b = None => id = 0 /\ seen = view
        /\ b # None => /\ id # 0
                       /\ \/ id = seen.boxes[b]
                          \/ id = memo[b] /\ memo[b] # view.boxes[b] /\ seen = view
    BY <1>1, <1>2, ResolutionAdds
  <1> HIDE DEF id, memory, seen, last
  <1>5. b # None /\ id # seen.boxes[b] => seen = view /\ Behind(at.row) /\ ComesAfter(at.row)
    BY <1>1, <1>4, StaleSituBox
  <1>6. at.box # 0 => Exists(at.box, seen.boxes)
    <2>1. at.box # 0 => Exists(at.box, view.boxes)
      BY <1>1 DEF FateInv, RecordInMemory
    <2> QED BY <1>4, <2>1, GrownExist
  <1> QED BY <1>1, <1>3, <1>4, <1>5, <1>6 DEF id, memory, seen, last

LEMMA AfterSaveFailsKeepsFate ==
    ASSUME RowsInv, RowsInv', FateInv, at.step = "afterSave", lastId' = SideEffects.last,
           SideEffects.throws, RowFails(Own, view, SideEffects.memory, stash)
    PROVE  FateInv'
  <1> DEFINE b == Says.situ
             id == Resolution(b).id
             memory == Resolution(b).memory
             seen == Resolution(b).seen
             last == Resolution(b).last
  <1>1. InRow /\ at.row \in Row
    BY DEF InRow, RowsInv, StackShape
  <1>2. /\ SideEffects.memory = memory /\ SideEffects.last = last
        /\ SideEffects.throws <=>
              \/ Says.fault = "after"
              \/ /\ at.box # 0 /\ id # 0
                 /\ ~(Exists(at.box, seen.boxes) /\ Exists(id, seen.boxes))
    BY DEF SideEffects
  <1>3. /\ b \in SituBoxes \cup {None} /\ last \in {lastId, lastId + 1}
        /\ \A c \in Boxes :
              /\ \/ seen.boxes[c] = view.boxes[c]
                 \/ c = b /\ seen.boxes[c] = lastId + 1 /\ last = lastId + 1
              /\ \/ memory[c] = memo[c] /\ seen.boxes[c] = view.boxes[c]
                 \/ memory[c] = seen.boxes[c]
        /\ b = None => id = 0 /\ seen = view
        /\ b # None => /\ id # 0
                       /\ \/ id = seen.boxes[b]
                          \/ seen = view /\ Behind(at.row) /\ ComesAfter(at.row)
        /\ at.box # 0 => Exists(at.box, seen.boxes)
    BY SituResolved
  <1>4. memory \in [Boxes -> Nat] /\ stash \in [Slots -> RasBoxes \cup {None}]
    BY <1>1, <1>2, SideEffectsType DEF RowsInv, TypeOK
  <1> HIDE DEF id, memory, seen, last
  <1>5. Says.fault = "after" \/ (b # None /\ id # seen.boxes[b])
    <2>1. b # None /\ id = seen.boxes[b] => Exists(id, seen.boxes)
      BY <1>3 DEF Exists, Boxes
    <2> QED BY <1>2, <1>3, <2>1
  <1>6. Says.fault = "none" => Behind(at.row)
    BY <1>3, <1>5
  <1>7. \A slot \in Slots : stash[slot] # None => LeftBehind
    BY DEF FateInv, StashIsOwn
  <1>8. \A c \in Boxes : memory[c] # 0 =>
               \/ memory[c] = memo[c]
               \/ memory[c] = view.boxes[c]
               \/ /\ Says.situ = c /\ Says.fault = "after"
                  /\ memory[c] = lastId + 1 /\ lastId' = lastId + 1
    <2> SUFFICES ASSUME NEW c \in Boxes, memory[c] # memo[c], memory[c] # view.boxes[c]
                 PROVE  /\ b = c /\ Says.fault = "after"
                        /\ memory[c] = lastId + 1 /\ lastId' = lastId + 1
      OBVIOUS
    <2>1. c = b /\ memory[c] = lastId + 1 /\ last = lastId + 1 /\ seen # view
      BY <1>3
    <2>2. c # None
      BY ImportRowsAssumption
    <2> QED BY <1>2, <1>3, <1>5, <2>1, <2>2
  <1>9. RowFails(Own, view, memory, stash) /\ lastId' \in {lastId, lastId + 1}
    BY <1>2, <1>3
  <1> QED BY <1>1, <1>4, <1>6, <1>7, <1>8, <1>9, FailedKeepsFate

(* What afterSave leaves of the row: its document where the newest box is, *)
(* and a movement of two boxes.                                            *)
LEMMA FiledRow ==
    ASSUME RowsInv, FateInv, at.step = "afterSave", Imported
    PROVE  LET situ == Resolution(Says.situ)
               newest == IF situ.id # 0 THEN situ.id ELSE at.box IN
           /\ view'.boxes = situ.seen.boxes
           /\ \A r \in Row : r # at.row => view'.docs[r] = view.docs[r]
           /\ view'.docs[at.row].made
           /\ view'.docs[at.row].box = IF Exists(newest, situ.seen.boxes) THEN newest ELSE at.box
           /\ at.box = 0 \/ situ.id = 0 => view'.docs[at.row].moves = <<>>
  <1> DEFINE situ == Resolution(Says.situ)
             seen == situ.seen
             id == situ.id
             newest == IF id # 0 THEN id ELSE at.box
             isMove == at.box # 0 /\ id # 0
             moves == IF isMove THEN <<at.box, id>> ELSE <<>>
             doc == seen.docs[at.row]
             box == IF Exists(newest, seen.boxes) THEN newest ELSE doc.box
             filed == [doc EXCEPT !.whole = TRUE, !.moves = moves, !.box = box]
  <1>1. at.row \in Row /\ InRow /\ Says.situ \in Boxes \cup {None} /\ TypeOK
    <2>1. InRow
      BY DEF InRow
    <2> QED BY <2>1, RowAtHand DEF RowsInv, TypeOK, Content, Says, Boxes
  <1>2. view' = [seen EXCEPT !.docs[at.row] = filed]
    BY DEF Imported, SideEffects, Filed
  <1>3. seen \in View /\ seen.docs = view.docs
    BY <1>1, ResolutionType
  <1> HIDE DEF seen, moves, box, id
  <1>4. doc \in Document /\ seen.docs \in [Row -> Document]
    BY <1>1, <1>3 DEF View
  <1>5. filed.made = doc.made /\ filed.box = box /\ filed.moves = moves
    BY <1>4 DEF Document
  <1>6. doc.made /\ doc.box = at.box
    <2>1. view.docs[at.row].made /\ at.box = view.docs[at.row].box
      BY <1>1 DEF RowsInv, NothingLost, FateInv, RecordInMemory
    <2> QED BY <1>3, <2>1
  <1> HIDE DEF filed, doc
  <1>7. /\ view'.boxes = seen.boxes
        /\ view'.docs[at.row] = filed
        /\ \A r \in Row : r # at.row => view'.docs[r] = seen.docs[r]
    BY <1>1, <1>2, <1>3 DEF View
  <1>8. at.box = 0 \/ id = 0 => moves = <<>>
    BY DEF moves
  <1>9. box = IF Exists(newest, seen.boxes) THEN newest ELSE at.box
    BY <1>6 DEF box
  <1>10. view'.docs[at.row].made
    BY <1>5, <1>6, <1>7, Zenon
  <1> QED BY <1>3, <1>5, <1>7, <1>8, <1>9, <1>10 DEF seen, id

LEMMA ImportedKeepsFate ==
    ASSUME RowsInv, RowsInv', FateInv, at.step = "afterSave", lastId' = SideEffects.last,
           ~SideEffects.throws, Imported
    PROVE  FateInv'
  <1> DEFINE b == Says.situ
             id == Resolution(b).id
             memory == Resolution(b).memory
             seen == Resolution(b).seen
             last == Resolution(b).last
             newest == IF id # 0 THEN id ELSE at.box
  <1>1. /\ memo' = memory /\ lastId' = last
        /\ outcome' = [outcome EXCEPT ![at.row] = "ok"]
        /\ UNCHANGED <<sheet, caller, skips, stash, deaths>>
    BY DEF Imported, SideEffects
  <1>2. /\ at'.step = "between" /\ at'.row = at.row + 1 /\ at'.slice = at.slice
        /\ Len(stack') = IF caller = "chunk" THEN 1 ELSE 0
        /\ \A i \in 1..Len(stack') : stack'[i] = stack[i] /\ i \in 1..Len(stack) /\ i = 1
    BY ImportedShape
  <1>3. PICK h \in Row : h = at.row
    BY RowAtHand DEF InRow
  <1>4. /\ SliceOf(h) = at.slice /\ Running(h) /\ Todo(h) /\ ~Failed(h)
        /\ h \in Nat /\ Says = sheet[h] /\ at.step # "idle" /\ InRow /\ Named
    BY <1>3, RowAtHand, RowsAreNumbers DEF Says, InRow, Named
  <1>5. /\ b \in SituBoxes \cup {None} /\ last \in {lastId, lastId + 1}
        /\ Grown(view.boxes, seen.boxes)
        /\ \A c \in Boxes :
              /\ \/ seen.boxes[c] = view.boxes[c]
                 \/ c = b /\ seen.boxes[c] = lastId + 1 /\ last = lastId + 1
              /\ \/ memory[c] = memo[c] /\ seen.boxes[c] = view.boxes[c]
                 \/ memory[c] = seen.boxes[c]
        /\ b = None => id = 0 /\ seen = view
        /\ b # None => /\ id # 0
                       /\ \/ id = seen.boxes[b]
                          \/ seen = view /\ Behind(at.row) /\ ComesAfter(at.row)
        /\ at.box # 0 => Exists(at.box, seen.boxes)
    BY SituResolved
  <1>6. /\ view'.boxes = seen.boxes
        /\ \A r \in Row : r # h => view'.docs[r] = view.docs[r]
        /\ view'.docs[h].made
        /\ view'.docs[h].box = IF Exists(newest, seen.boxes) THEN newest ELSE at.box
        /\ at.box = 0 \/ id = 0 => view'.docs[h].moves = <<>>
    BY <1>3, FiledRow
  <1>7. Says.fault = "none"
    <2>1. Says.fault \in Faults /\ Says.fault \notin {"early", "fill", "save"}
      BY <1>4 DEF FateInv, RecordInMemory, RowsInv, TypeOK, Content
    <2>2. Says.fault # "after"
      BY DEF SideEffects
    <2> QED BY <2>1, <2>2 DEF Faults
  <1> HIDE DEF id, memory, seen, last
  <1>8. ~InRow' /\ ~Saving' /\ ~Named'
    BY <1>2 DEF InRow, Saving, Named
  <1>9. \A r \in Row : /\ SliceOf(r)' = SliceOf(r) /\ (Running(r)' <=> Running(r))
                       /\ outcome'[r] = IF r = h THEN "ok" ELSE outcome[r]
    <2>1. \A r \in Row : SliceOf(r)' = SliceOf(r)
      BY <1>1 DEF SliceOf
    <2>2. \A r \in Row : Running(r)' <=> Running(r)
      BY <1>2, <1>4, <2>1 DEF Running
    <2>3. \A r \in Row : outcome'[r] = IF r = h THEN "ok" ELSE outcome[r]
      BY <1>1, <1>3 DEF RowsInv, TypeOK
    <2> QED BY <2>1, <2>2, <2>3
  <1>10. Remembers
    BY <1>1, <1>4, <1>9 DEF Remembers, Failed
  <1>11. /\ \A r \in Row : ComesAfter(r) => ComesAfter(r)'
         /\ \A r \in Row : Behind(r) => Behind(r)'
    BY <1>10, ExcusesStay
  <1>12. Progress'
    <2>1. \A q \in Row : Todo(q)' <=> Todo(q) /\ q # h
      BY <1>9 DEF Todo
    <2>2. \A q, r \in Row : SliceOf(q)' = SliceOf(r)' /\ ~Running(q)' => (Todo(q)' <=> Todo(r)')
      <3>1. \A q, r \in Row : SliceOf(q) = SliceOf(r) => (Running(q) <=> Running(r))
        BY DEF Running
      <3> QED BY <1>4, <1>9, <2>1, <3>1 DEF FateInv, Progress
    <2>3. \A q \in Row : Running(q)' => (Todo(q)' <=> q >= at'.row)
      <3>1. \A q \in Row : q >= h /\ q # h <=> q >= h + 1
        BY <1>4, RowsAreNumbers
      <3>2. \A q \in Row : Running(q) => (Todo(q) <=> q >= h)
        BY <1>3 DEF FateInv, Progress
      <3> QED BY <1>2, <1>3, <1>9, <2>1, <3>1, <3>2
    <2>4. \A q \in Row : q >= at'.row => SliceOf(q)' >= at'.slice
      <3>1. \A q \in Row : q >= h + 1 => q >= h
        BY <1>4, RowsAreNumbers
      <3>2. \A q \in Row : q >= h => SliceOf(q) >= at.slice
        BY <1>3, <1>4 DEF FateInv, Progress
      <3> QED BY <1>2, <1>3, <1>9, <3>1, <3>2
    <2>5. \A q \in Row : sheet'[q].fault # "none" => outcome'[q] # "ok"
      BY <1>1, <1>4, <1>7, <1>9 DEF FateInv, Progress
    <2> QED BY <1>2, <2>2, <2>3, <2>4, <2>5 DEF Progress
  <1>13. IdsAreOwned'
    <2>1. ASSUME NEW c \in Boxes PROVE Given(c, view'.boxes[c], b)
      <3>1. CASE seen.boxes[c] = view.boxes[c]
        BY <1>6, <3>1, KnownIds
      <3>2. CASE seen.boxes[c] # view.boxes[c]
        BY <1>1, <1>5, <1>6, <3>2 DEF Given
      <3> QED BY <3>1, <3>2
    <2>2. ASSUME NEW c \in Boxes PROVE Given(c, memo'[c], b)
      BY <1>1, <1>5, <1>6, <2>1, KnownIds
    <2>3. \A i \in 1..Len(stack'), c \in Boxes : Given(c, stack'[i].boxes[c], b)
      BY <1>2, KnownIds
    <2>4. TypeOK /\ IdsAreOwned /\ lastId' \in {lastId, lastId + 1}
      BY <1>1, <1>5 DEF RowsInv, FateInv
    <2> QED BY <2>1, <2>2, <2>3, <2>4, GivenIdsAreOwned
  <1>14. StashIsOwn'
    BY <1>1, <1>10, StashStaysOwn
  <1>15. MemoIsRight'
    <2>1. at'.row >= at.row
      BY <1>2, <1>3, <1>4
    <2> QED BY <1>1, <1>2, <1>4, <1>5, <1>6, <1>10, <2>1, MemoStaysRight
  <1>16. RowMadeItsBox' /\ RecordInMemory'
    BY <1>2, <1>8 DEF RowMadeItsBox, RecordInMemory
  <1>17. Sited(view, h)' \/ ComesAfter(h)
    <2> SUFFICES ASSUME ~ComesAfter(h) PROVE Sited(view, h)'
      OBVIOUS
    <2>1. Home(h)' = IF b # None THEN b ELSE Says.ras
      BY <1>1, <1>4 DEF Home
    <2>2. \/ Says.ras # None /\ at.box # 0 /\ at.box = view.boxes[Says.ras]
          \/ Says.ras = None /\ (at.box # 0 => b # None /\ at.box = view.boxes[b])
      BY <1>3, <1>4 DEF FateInv, RecordInMemory
    <2>3. CASE b = None
      <3>1. view'.docs[h].box = at.box /\ view'.boxes = view.boxes
        BY <1>5, <1>6, <2>3
      <3> QED BY <1>6, <2>1, <2>2, <2>3, <3>1 DEF Sited
    <2>4. CASE b # None
      <3>1. b \in Boxes /\ id # 0 /\ id = seen.boxes[b]
        BY <1>3, <1>5, <2>4 DEF Boxes
      <3>2. Exists(newest, seen.boxes) /\ newest = id
        BY <3>1 DEF Exists
      <3>3. view'.docs[h].box = id
        BY <1>6, <3>2
      <3> QED BY <1>6, <2>1, <2>4, <3>1, <3>3 DEF Sited
    <2> QED BY <2>3, <2>4
  <1>18. DocumentsArePlaced'
    <2>1. ASSUME NEW r \in Row, r # h PROVE Placed(view, r)'
      <3>1. Placed(view, r)
        BY <1>3, <2>1 DEF FateInv, DocumentsArePlaced
      <3>2. view'.docs[r].box # 0 => Exists(view'.docs[r].box, view'.boxes)
        BY <1>5, <1>6, <2>1, <3>1, GrownExist DEF Placed
      <3>3. Sited(view, r) => Sited(view, r)'
        <4>1. Home(r)' = Home(r) /\ (Home(r) # None => Home(r) \in Boxes)
          BY <1>1 DEF Home, RowsInv, TypeOK, Content, Boxes
        <4> QED BY <1>5, <1>6, <2>1, <4>1 DEF Sited, Grown
      <3> QED BY <1>1, <1>6, <1>9, <1>11, <2>1, <3>1, <3>2, <3>3 DEF Placed, Todo
    <2>2. Placed(view, h)'
      <3>1. view'.docs[h].box # 0 => Exists(view'.docs[h].box, view'.boxes)
        BY <1>5, <1>6
      <3> QED BY <1>9, <1>11, <1>17, <3>1 DEF Placed, Todo
    <2>3. ASSUME NEW i \in 1..Len(stack'), NEW r \in Row PROVE Placed(stack[i], r)'
      <3>1. Placed(stack'[i], r)
        BY <1>2, <2>3 DEF FateInv, DocumentsArePlaced, AllPlaced
      <3> QED BY <1>1, <1>9, <1>11, <3>1 DEF Placed, Sited, Home, Exists, Todo
    <2> QED BY <2>1, <2>2, <2>3 DEF DocumentsArePlaced, AllPlaced
  <1>19. OutcomesAreAccounted'
    <2>1. ASSUME NEW r \in Row PROVE Accounted(view, r)'
      <3>1. CASE r # h
        <4>1. Accounted(view, r)
          BY DEF FateInv, OutcomesAreAccounted
        <4> QED BY <1>1, <1>6, <1>9, <1>11, <3>1, <4>1 DEF Accounted, Failed
      <3>2. CASE r = h
        <4>1. deaths = 0 /\ None \in {Says.ras, Says.situ} =>
                 view'.docs[h].moves = <<>> \/ Behind(h)
          <5>1. deaths = 0 /\ Says.ras = None => at.box = 0 \/ Behind(h)
            BY <1>3, <1>4 DEF FateInv, RecordInMemory
          <5> QED BY <1>5, <1>6, <5>1
        <4> QED BY <1>1, <1>4, <1>9, <1>11, <3>2, <4>1 DEF Accounted, Failed
      <3> QED BY <3>1, <3>2
    <2>2. ASSUME NEW i \in 1..Len(stack'), NEW r \in Row
          PROVE  Accounted(stack[i], r)' \/ (caller' = "chunk" /\ i = 1 /\ SliceOf(r)' = at'.slice)
      <3>1. Accounted(stack'[i], r) \/ SliceOf(r) = at.slice
        BY <1>2 DEF FateInv, OutcomesAreAccounted
      <3>2. caller = "chunk" /\ i = 1
        BY <1>2
      <3>3. CASE SliceOf(r) # at.slice
        <4>1. r # h
          BY <1>4, <3>3
        <4> QED BY <1>1, <1>9, <1>11, <3>1, <3>3, <4>1 DEF Accounted, Failed
      <3> QED BY <1>1, <1>2, <1>9, <3>2, <3>3
    <2> QED BY <2>1, <2>2 DEF OutcomesAreAccounted
  <1> QED BY <1>12, <1>13, <1>14, <1>15, <1>16, <1>18, <1>19 DEF FateInv

LEMMA NextKeepsFate == RowsInv /\ RowsInv' /\ FateInv /\ [Next]_vars => FateInv'
  <1> SUFFICES ASSUME RowsInv, RowsInv', FateInv, [Next]_vars PROVE FateInv'
    OBVIOUS
  <1>1. CASE UNCHANGED vars
    BY <1>1, StutterKeepsFate
  <1>2. CASE \E r \in Row : TakeSlice(r)
    BY <1>2, TakeSliceKeepsFate
  <1>3. CASE \E slot \in Slots : StartRow(slot)
    BY <1>3, StartRowKeepsFate
  <1>4. CASE FillRecord
    BY <1>4, FillRecordKeepsFate
  <1>5. CASE AfterFill
    BY <1>5, AfterFillKeepsFate
  <1>6. CASE BeforeSave
    BY <1>6, BeforeSaveKeepsFate
  <1>7. CASE SaveRecord
    BY <1>7, SaveRecordKeepsFate
  <1>8. CASE AfterSave
    BY <1>8, AfterSaveFailsKeepsFate, ImportedKeepsFate DEF AfterSave
  <1>9. CASE ReportSlice
    BY <1>9, ReportSliceKeepsFate
  <1>10. CASE DeleteJob
    BY <1>10, DeleteJobKeepsFate
  <1>11. CASE Die
    BY <1>11, DieKeepsFate
  <1>12. CASE \E box \in Boxes : DeleteBox(box)
    BY <1>12, DeleteBoxKeepsFate
  <1> QED BY <1>1, <1>2, <1>3, <1>4, <1>5, <1>6, <1>7, <1>8, <1>9, <1>10, <1>11, <1>12,
             Zenon DEF Next

(* The invariant behind the theorems on what one row does to another.      *)
THEOREM RowsFate == Spec => []FateInv
  <1> QED BY InitHasFate, NextKeepsFate, RowsInvariant, PTL DEF Spec

(* A row that throws nothing itself (validateData, fillRecord, saveRecord, *)
(* persistRowSideEffects) is reported as failed only when its document was *)
(* there already and those are skipped, or behind an earlier failure.      *)
THEOREM RowsFailForAReason == Spec => []FaultlessRowFailsOnlyBehindAFailure
  <1>1. FateInv => FaultlessRowFailsOnlyBehindAFailure
    <2> SUFFICES ASSUME FateInv, NEW r \in Row, Failed(r), sheet[r].fault = "none"
                 PROVE  (skips /\ view.docs[r].made) \/ BehindFailure(r)
      BY DEF FaultlessRowFailsOnlyBehindAFailure, Failed
    <2>1. (skips /\ view.docs[r].made) \/ Behind(r)
      BY DEF FateInv, OutcomesAreAccounted, Accounted
    <2>2. Behind(r) => BehindFailure(r)
      BY DEF Behind, BehindFailure, Failed
    <2> QED BY <2>1, <2>2
  <1> QED BY <1>1, RowsFate, PTL

(* A document reported as imported is in the box its row names, or in none *)
(* if it names none, unless behind an earlier failure, whatever object ids *)
(* PHP gives again, transactions roll back and deaths repeat.              *)
THEOREM RowsAreAtHome == Spec => []MisplacedOnlyBehindAFailure
  <1>1. RowsInv /\ FateInv => MisplacedOnlyBehindAFailure
    <2> SUFFICES ASSUME RowsInv, FateInv, at.step = "idle", NEW r \in Row, outcome[r] = "ok"
                 PROVE  IsHome(r) \/ BehindFailure(r)
      BY DEF MisplacedOnlyBehindAFailure
    <2>1. view.docs[r].made
      BY DEF RowsInv, NothingLost, Kept
    <2>2. ComesAfter(r) \/ Sited(view, r)
      BY DEF FateInv, DocumentsArePlaced, Placed
    <2>3. Sited(view, r) => IsHome(r)
      BY <2>1 DEF Sited, IsHome
    <2>4. ASSUME ComesAfter(r) PROVE BehindFailure(r)
      <3>1. PICK q \in Row :
                \/ /\ q < r /\ SliceOf(q) = SliceOf(r)
                   /\ \/ LeavesBox(q)
                      \/ sheet[q].fault = "after" /\ sheet[q].situ # None /\ sheet[q].situ = sheet[r].situ
                \/ LeavesBox(q) /\ Failed(q) /\ SliceOf(q) # SliceOf(r) /\ ~Running(q)
        BY <2>4 DEF ComesAfter
      <3>2. Failed(q)
        <4>1. sheet[q].fault # "none" => outcome[q] # "ok"
          BY DEF FateInv, Progress
        <4>2. SliceOf(q) = SliceOf(r) => ~Todo(q)
          BY DEF FateInv, Progress, Running, Todo
        <4>3. outcome[q] \in {"todo", "ok", "failed"}
          BY DEF RowsInv, TypeOK
        <4> QED BY <3>1, <4>1, <4>2, <4>3 DEF LeavesBox, Failed, Todo
      <3> QED BY <2>4, <3>1, <3>2 DEF ComesAfter, BehindFailure, Shares, Failed
    <2> QED BY <2>2, <2>3, <2>4
  <1> QED BY <1>1, RowsInvariant, RowsFate, PTL

(* A row that names one box writes no movement the first time it is        *)
(* imported (buildLegacyMovementChain), unless behind an earlier failure.  *)
THEOREM RowsMoveNothingAtFirst == Spec => []OneBoxIsNoMoveTheFirstTime
  <1>1. FateInv => OneBoxIsNoMoveTheFirstTime
    <2> SUFFICES ASSUME FateInv, deaths = 0, NEW r \in Row, outcome[r] = "ok",
                        None \in {sheet[r].ras, sheet[r].situ}
                 PROVE  view.docs[r].moves = <<>> \/ BehindFailure(r)
      BY DEF OneBoxIsNoMoveTheFirstTime
    <2>1. view.docs[r].moves = <<>> \/ Behind(r)
      BY DEF FateInv, OutcomesAreAccounted, Accounted
    <2>2. Behind(r) => BehindFailure(r)
      BY DEF Behind, BehindFailure, Failed
    <2> QED BY <2>1, <2>2
  <1> QED BY <1>1, RowsFate, PTL

=============================================================================
