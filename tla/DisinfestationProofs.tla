------------------------ MODULE DisinfestationProofs ------------------------
(***************************************************************************)
(* What Disinfestation promises for any number of requests and documents:  *)
(* types, StaysOutUntilTheLast, ReturnsWithTheLast and                     *)
(* FinishLeavesNothingOut.                                                 *)
(*                                                                         *)
(* All three rest on one fact, ReadsHold: what a request read is still     *)
(* true while nobody has written since. An outdated request is excused; of *)
(* one that is not, what it decided follows from the tables it commits to. *)
(***************************************************************************)
EXTENDS Disinfestation, TLAPS

(* What the steps before a commit read, and decided.                       *)
ReadsAreTrue(r) ==
    LET q == request[r] IN
    /\ q.kind \in {"send", "mark"} =>
         /\ q.doc \in Docs
         /\ q.linked = Linked(docs, q.doc)
         /\ q.out = docs[q.doc].out
         /\ q.step = "begun" => q.write = ToWrite(r)
    /\ q.kind = "send" /\ q.step = "begun" /\ q.linked => box.status # "PERM_OUT"
    /\ q.kind = "sendBox" => q.chosen = Going
    /\ q.kind = "finish" => q.chosen = Stamped

ReadsHold == \A r \in Requests : Busy(r) /\ r \notin outdated => ReadsAreTrue(r)

CycleInv == TypeOK /\ ReadsHold /\ StaysOutUntilTheLast /\ ReturnsWithTheLast

FinishStep ==
    \A r \in Requests, toArchive \in BOOLEAN :
        FinishBox(r, toArchive) /\ r \notin outdated => StillOut(docs') = {}

-----------------------------------------------------------------------------
(* Facts about the operators                                               *)

(* An idle request is a request.                                           *)
LEMMA IdleType == Idle \in Request
BY DEF Idle, Request, Kinds, NotWritten

(* Note keeps the types of what it writes.                                 *)
LEMMA NoteTypes ==
    ASSUME TypeOK, NEW docsExcused, NEW strandedExcused \in BOOLEAN, NEW isSent \in BOOLEAN,
           docs' \in [Docs -> Doc], Note(docsExcused, strandedExcused, isSent)
    PROVE  outdated' \subseteq Requests /\ sent' \in BOOLEAN
           /\ excuse' \in [docs : SUBSET Docs, stranded : BOOLEAN]
<1>1. AtOdds(box', docs') \subseteq Docs
  BY DEF AtOdds, StillOut
<1>2. outdated' \subseteq Requests
  BY DEF Note, TypeOK
<1>3. sent' \in BOOLEAN
  BY DEF Note
<1>4. IsStranded(box', docs', sent') \in BOOLEAN /\ excuse.stranded \in BOOLEAN
  BY <1>3 DEF IsStranded, TypeOK
<1>5. excuse'.docs \subseteq Docs /\ excuse'.stranded \in BOOLEAN
      /\ excuse' = [docs |-> excuse'.docs, stranded |-> excuse'.stranded]
  BY <1>1, <1>4 DEF Note
<1> QED
  BY <1>2, <1>3, <1>5

(* Where nothing was written and no request read anew, what was read holds *)
(* on; where something was written, no busy request is up to date.         *)
LEMMA NoteKeepsReads ==
    ASSUME ReadsHold, NEW docsExcused, NEW strandedExcused, NEW isSent,
           \A q \in Requests : request'[q] = request[q] \/ request'[q] = Idle,
           Note(docsExcused, strandedExcused, isSent)
    PROVE  ReadsHold'
<1> SUFFICES ASSUME NEW q \in Requests, Busy(q)', q \notin outdated'
             PROVE  ReadsAreTrue(q)'
  BY DEF ReadsHold
<1>1. box' = box /\ docs' = docs /\ q \notin outdated
  BY DEF Note, Busy
<1>2. request'[q] = request[q]
  BY DEF Busy, Idle
<1>3. Busy(q)
  BY <1>2 DEF Busy
<1>4. ReadsAreTrue(q)
  BY <1>1, <1>3 DEF ReadsHold
<1> QED
  BY <1>1, <1>2, <1>4 DEF ReadsAreTrue, Linked, ToWrite, Returns, StillOut, Going, Stamped

(* What Note excuses is excused.                                           *)
LEMMA NoteExcuses ==
    ASSUME NEW docsExcused, NEW strandedExcused, NEW isSent,
           Note(docsExcused, strandedExcused, isSent),
           AtOdds(box', docs') \subseteq excuse.docs \cup docsExcused,
           IsStranded(box', docs', sent') => excuse.stranded \/ strandedExcused
    PROVE  StaysOutUntilTheLast' /\ ReturnsWithTheLast'
BY DEF Note, StaysOutUntilTheLast, ReturnsWithTheLast

-----------------------------------------------------------------------------
(* Actions that only read                                                  *)

(* A step of one request that writes neither the box nor a document keeps  *)
(* the invariant when what it read is true.                                *)
LEMMA ReadingKeepsInv ==
    ASSUME CycleInv, NEW r \in Requests, NEW q \in Request,
           request' = [request EXCEPT ![r] = q],
           UNCHANGED <<box, docs, outdated, sent, excuse>>,
           lock' \in Requests \cup {NoRequest},
           Busy(r)' /\ r \notin outdated => ReadsAreTrue(r)'
    PROVE  CycleInv'
<1>1. TypeOK'
  BY DEF CycleInv, TypeOK
<1>2. ReadsHold'
  <2> SUFFICES ASSUME NEW p \in Requests, Busy(p)', p \notin outdated'
               PROVE  ReadsAreTrue(p)'
    BY DEF ReadsHold
  <2>1. CASE p = r
    BY <2>1
  <2>2. CASE p # r
    <3>1. request'[p] = request[p]
      BY <2>2 DEF CycleInv, TypeOK
    <3>2. ReadsAreTrue(p)
      BY <3>1 DEF CycleInv, ReadsHold, Busy
    <3> QED
      BY <3>1, <3>2 DEF ReadsAreTrue, Linked, ToWrite, Returns, StillOut, Going, Stamped
  <2> QED
    BY <2>1, <2>2
<1>3. StaysOutUntilTheLast' /\ ReturnsWithTheLast'
  BY DEF CycleInv, StaysOutUntilTheLast, ReturnsWithTheLast, AtOdds, IsStranded, StillOut, Linked
<1> QED
  BY <1>1, <1>2, <1>3 DEF CycleInv

(* A document is loaded.                                                   *)
LEMMA PickKeepsInv ==
    ASSUME CycleInv, NEW r \in Requests, NEW kind \in {"send", "mark"}, NEW d \in Docs,
           Pick(r, kind, d)
    PROVE  CycleInv'
<1> DEFINE q == [Idle EXCEPT !.step = "picked", !.kind = kind, !.doc = d,
                             !.linked = Linked(docs, d), !.out = docs[d].out]
<1>1. docs[d].out \in BOOLEAN /\ Linked(docs, d) \in BOOLEAN
  BY DEF CycleInv, TypeOK, Doc, Linked
<1>2. q \in Request
  BY <1>1 DEF Idle, Request, Kinds, NotWritten
<1>3. request' = [request EXCEPT ![r] = q] /\ UNCHANGED <<box, docs, outdated, sent, excuse>>
      /\ lock' \in Requests \cup {NoRequest}
  BY DEF Pick, CycleInv, TypeOK
<1>4. request'[r] = q
  BY <1>3 DEF CycleInv, TypeOK
<1>5. /\ q.kind = kind /\ q.doc = d /\ q.step = "picked"
      /\ q.linked = Linked(docs, d) /\ q.out = docs[d].out
  BY DEF Idle
<1> HIDE DEF q
<1>6. ReadsAreTrue(r)'
  BY <1>3, <1>4, <1>5 DEF ReadsAreTrue, Linked
<1> QED
  BY <1>2, <1>3, <1>6, ReadingKeepsInv

(* The box and the other documents are read.                               *)
LEMMA LookKeepsInv ==
    ASSUME CycleInv, NEW r \in Requests, Look(r)
    PROVE  CycleInv'
<1> DEFINE q == [request[r] EXCEPT !.step = "begun", !.write = ToWrite(r)]
<1>1. request[r] \in Request
  BY DEF CycleInv, TypeOK
<1>2. ToWrite(r) \in {"IN", "OUT", NotWritten}
  BY DEF ToWrite
<1>3. q \in Request
  BY <1>1, <1>2 DEF Request
<1>4. request' = [request EXCEPT ![r] = q] /\ UNCHANGED <<box, docs, outdated, sent, excuse>>
      /\ lock' \in Requests \cup {NoRequest}
  BY DEF Look, CycleInv, TypeOK
<1>5. request'[r] = q
  BY <1>4 DEF CycleInv, TypeOK
<1>6. /\ q.step = "begun" /\ q.write = ToWrite(r) /\ q.kind = request[r].kind
      /\ q.doc = request[r].doc /\ q.linked = request[r].linked /\ q.out = request[r].out
      /\ q.chosen = request[r].chosen
  BY <1>1 DEF Request
<1>7. ToWrite(r)' = ToWrite(r)
  BY <1>4, <1>5, <1>6 DEF ToWrite, Returns, StillOut, Linked
<1>8. ASSUME r \notin outdated PROVE ReadsAreTrue(r)'
  <2>1. ReadsAreTrue(r)
    BY <1>8 DEF Look, CycleInv, ReadsHold, Busy
  <2>2. request[r].kind = "send" /\ request[r].linked => box.status # "PERM_OUT"
    BY DEF Look
  <2> QED
    BY <1>4, <1>5, <1>6, <1>7, <2>1, <2>2 DEF ReadsAreTrue, Linked, Going, Stamped
<1> HIDE DEF q
<1> QED
  BY <1>3, <1>4, <1>8, ReadingKeepsInv

(* The box is locked and its documents are read.                           *)
LEMMA BeginBoxKeepsInv ==
    ASSUME CycleInv, NEW r \in Requests, NEW kind \in {"sendBox", "finish"}, BeginBox(r, kind)
    PROVE  CycleInv'
<1> DEFINE q == [Idle EXCEPT !.step = "begun", !.kind = kind,
                             !.chosen = IF kind = "sendBox" THEN Going ELSE Stamped]
<1>1. Going \subseteq Docs /\ Stamped \subseteq Docs
  BY DEF Going, Stamped
<1>2. q \in Request
  BY <1>1 DEF Idle, Request, Kinds, NotWritten
<1>3. request' = [request EXCEPT ![r] = q] /\ UNCHANGED <<box, docs, outdated, sent, excuse>>
      /\ lock' \in Requests \cup {NoRequest}
  BY DEF BeginBox
<1>4. request'[r] = q
  BY <1>3 DEF CycleInv, TypeOK
<1>5. q.kind = kind /\ q.chosen = IF kind = "sendBox" THEN Going ELSE Stamped
  BY DEF Idle
<1> HIDE DEF q
<1>6. ReadsAreTrue(r)'
  BY <1>3, <1>4, <1>5 DEF ReadsAreTrue, Linked, Going, Stamped
<1> QED
  BY <1>2, <1>3, <1>6, ReadingKeepsInv

-----------------------------------------------------------------------------
(* Commits of actions on a document                                        *)

(* What WriteBox may leave.                                                *)
LEMMA WriteBoxType ==
    ASSUME TypeOK, NEW r \in Requests, WriteBox(r)
    PROVE  box' \in Box
<1>1. request[r].write \in {"IN", "OUT", NotWritten} /\ box.away \in BOOLEAN
  BY DEF TypeOK, Request, Box
<1>2. CASE request[r].write = NotWritten
  BY <1>2 DEF WriteBox, TypeOK
<1>3. CASE request[r].write # NotWritten
  <2> DEFINE away == box.away /\ request[r].write # "IN"
  <2>1. away \in BOOLEAN
    OBVIOUS
  <2>2. box' = [status |-> request[r].write, away |-> away]
    BY <1>3 DEF WriteBox
  <2> HIDE DEF away
  <2> QED
    BY <1>1, <1>3, <2>1, <2>2 DEF Box
<1> QED
  BY <1>2, <1>3

(* A commit ends its request.                                              *)
LEMMA FinishedRequests ==
    ASSUME TypeOK, NEW r \in Requests, Finished(r)
    PROVE  /\ request' \in [Requests -> Request]
           /\ \A q \in Requests : request'[q] = request[q] \/ request'[q] = Idle
BY IdleType DEF TypeOK, Finished

(* A document sent is out, and no other has changed.                       *)
LEMMA SendDocKeepsInv ==
    ASSUME CycleInv, NEW r \in Requests, SendDoc(r)
    PROVE  CycleInv'
<1> DEFINE d == request[r].doc
           isSent == sent \/ box' # box
           excused == IF r \in outdated THEN StillOut(docs') ELSE {}
<1> USE DEF CycleInv
<1>1. docs' = [docs EXCEPT ![d].out = TRUE] /\ docs' \in [Docs -> Doc]
  BY DEF SendDoc, TypeOK, Doc
<1>2. request' \in [Requests -> Request]
      /\ \A q \in Requests : request'[q] = request[q] \/ request'[q] = Idle
  BY FinishedRequests DEF SendDoc
<1>3. Note(excused, r \in outdated, isSent) /\ isSent \in BOOLEAN /\ lock' = lock
  BY DEF SendDoc, NoteCommit, TypeOK
<1>4. TypeOK'
  <2>1. box' \in Box
    BY WriteBoxType DEF SendDoc
  <2>2. (r \in outdated) \in BOOLEAN
    OBVIOUS
  <2>3. outdated' \subseteq Requests /\ sent' \in BOOLEAN
        /\ excuse' \in [docs : SUBSET Docs, stranded : BOOLEAN]
    <3> HIDE DEF isSent, excused
    <3> QED BY <1>1, <1>3, <2>2, NoteTypes
  <2> QED
    BY <1>1, <1>2, <1>3, <2>1, <2>3 DEF TypeOK
<1>5. ReadsHold'
  <2> HIDE DEF isSent, excused
  <2> QED BY <1>2, <1>3, NoteKeepsReads
<1>6. AtOdds(box', docs') \subseteq excuse.docs \cup excused
      /\ (IsStranded(box', docs', sent') => excuse.stranded \/ r \in outdated)
  <2>1. CASE r \in outdated
    BY <2>1 DEF AtOdds
  <2>2. CASE r \notin outdated
    <3>1. ReadsAreTrue(r) /\ request[r].kind = "send" /\ request[r].step = "begun"
      BY <2>2 DEF SendDoc, Begun, ReadsHold, Busy
    <3>2. d \in Docs /\ request[r].linked = Linked(docs, d) /\ request[r].write = ToWrite(r)
          /\ (request[r].linked => box.status # "PERM_OUT")
      BY <3>1 DEF ReadsAreTrue
    <3>3. CASE request[r].linked
      <4>1. box'.status = "OUT"
        BY <3>1, <3>2, <3>3 DEF SendDoc, WriteBox, ToWrite, TypeOK, Box, NotWritten
      <4>2. docs'[d].out = TRUE /\ docs'[d].at = docs[d].at
        BY <1>1, <3>2 DEF TypeOK, Doc
      <4>3. d \in StillOut(docs')
        BY <3>2, <3>3, <4>2 DEF StillOut, Linked
      <4> QED
        BY <4>1, <4>3 DEF AtOdds, IsStranded
    <3>4. CASE ~request[r].linked
      <4>1. box' = box
        BY <3>2, <3>4 DEF SendDoc, WriteBox, ToWrite
      <4>2. StillOut(docs') = StillOut(docs)
        BY <1>1, <3>2, <3>4 DEF StillOut, Linked, TypeOK, Doc
      <4>3. sent' => sent
        BY <1>3, <4>1 DEF Note
      <4> QED
        BY <4>1, <4>2, <4>3 DEF AtOdds, IsStranded, StaysOutUntilTheLast, ReturnsWithTheLast
    <3> QED
      BY <3>3, <3>4
  <2> QED
    BY <2>1, <2>2
<1>7. StaysOutUntilTheLast' /\ ReturnsWithTheLast'
  <2> HIDE DEF isSent, excused
  <2> QED BY <1>3, <1>6, NoteExcuses
<1> QED
  BY <1>4, <1>5, <1>7

(* A document marked is no longer out, unless its flag was set since it    *)
(* was loaded.                                                             *)
LEMMA MarkDocKeepsInv ==
    ASSUME CycleInv, NEW r \in Requests, MarkDoc(r)
    PROVE  CycleInv'
<1> DEFINE d == request[r].doc
           excused == IF r \in outdated THEN StillOut(docs') ELSE {}
<1> USE DEF CycleInv
<1>1. docs' = [docs EXCEPT ![d].out = @ /\ ~request[r].out] /\ docs' \in [Docs -> Doc]
  <2>1. docs' = [docs EXCEPT ![d].out = @ /\ ~request[r].out]
    BY DEF MarkDoc
  <2>2. request[r].out \in BOOLEAN
    BY DEF TypeOK, Request
  <2> QED
    BY <2>1, <2>2 DEF TypeOK, Doc
<1>2. request' \in [Requests -> Request]
      /\ \A q \in Requests : request'[q] = request[q] \/ request'[q] = Idle
  BY FinishedRequests DEF MarkDoc
<1>3. Note(excused, r \in outdated, sent) /\ sent \in BOOLEAN /\ lock' = lock
  BY DEF MarkDoc, NoteCommit, TypeOK
<1>4. TypeOK'
  <2>1. box' \in Box
    BY WriteBoxType DEF MarkDoc
  <2>2. (r \in outdated) \in BOOLEAN
    OBVIOUS
  <2>3. outdated' \subseteq Requests /\ sent' \in BOOLEAN
        /\ excuse' \in [docs : SUBSET Docs, stranded : BOOLEAN]
    <3> HIDE DEF excused
    <3> QED BY <1>1, <1>3, <2>2, NoteTypes
  <2> QED
    BY <1>1, <1>2, <1>3, <2>1, <2>3 DEF TypeOK
<1>5. ReadsHold'
  <2> HIDE DEF excused
  <2> QED BY <1>2, <1>3, NoteKeepsReads
<1>6. AtOdds(box', docs') \subseteq excuse.docs \cup excused
      /\ (IsStranded(box', docs', sent') => excuse.stranded \/ r \in outdated)
  <2>1. CASE r \in outdated
    BY <2>1 DEF AtOdds
  <2>2. CASE r \notin outdated
    <3>1. ReadsAreTrue(r) /\ request[r].kind = "mark" /\ request[r].step = "begun"
      BY <2>2 DEF MarkDoc, Begun, ReadsHold, Busy
    <3>2. d \in Docs /\ request[r].linked = Linked(docs, d) /\ request[r].write = ToWrite(r)
          /\ request[r].out = docs[d].out
      BY <3>1 DEF ReadsAreTrue
    <3>3. StillOut(docs') = StillOut(docs) \ {d}
      <4>1. docs[d].out \in BOOLEAN
        BY <3>2 DEF TypeOK, Doc
      <4>2. docs'[d].out = FALSE /\ \A e \in Docs \ {d} : docs'[e] = docs[e]
        BY <1>1, <3>2, <4>1 DEF TypeOK, Doc
      <4> QED
        BY <4>2 DEF StillOut, Linked
    <3>4. sent' => sent
      BY <1>3 DEF Note
    <3>5. CASE request[r].write = NotWritten
      <4>1. box' = box
        BY <3>5 DEF MarkDoc, WriteBox
      <4>2. box.status = "OUT" /\ StillOut(docs') = {} => StillOut(docs) = {}
        BY <3>1, <3>2, <3>3, <3>5 DEF ToWrite, Returns, StillOut, NotWritten
      <4> QED
        BY <3>3, <3>4, <4>1, <4>2 DEF AtOdds, IsStranded, StaysOutUntilTheLast, ReturnsWithTheLast
    <3>6. CASE request[r].write # NotWritten
      <4>1. request[r].write = "IN" /\ StillOut(docs) \subseteq {d}
        BY <3>1, <3>2, <3>6 DEF ToWrite, Returns
      <4>2. box'.status = "IN"
        BY <3>6, <4>1 DEF MarkDoc, WriteBox
      <4> QED
        BY <3>3, <4>1, <4>2 DEF AtOdds, IsStranded
    <3> QED
      BY <3>5, <3>6
  <2> QED
    BY <2>1, <2>2
<1>7. StaysOutUntilTheLast' /\ ReturnsWithTheLast'
  <2> HIDE DEF excused
  <2> QED BY <1>3, <1>6, NoteExcuses
<1> QED
  BY <1>4, <1>5, <1>7

-----------------------------------------------------------------------------
(* Commits of actions on the box, and what operators do besides            *)

(* A bulk UPDATE keeps the documents documents.                            *)
LEMMA FlaggedType ==
    ASSUME TypeOK, NEW chosen, NEW out \in BOOLEAN
    PROVE  Flagged(chosen, out) \in [Docs -> Doc]
BY DEF Flagged, TypeOK, Doc

(* The box goes OUT with what is inside it.                                *)
LEMMA SendBoxKeepsInv ==
    ASSUME CycleInv, NEW r \in Requests, SendBox(r)
    PROVE  CycleInv'
<1> DEFINE e == StillOut(docs') = {}
<1> USE DEF CycleInv
<1>1. docs' \in [Docs -> Doc] /\ box' = [status |-> "OUT", away |-> TRUE] /\ lock' = NoRequest
  BY FlaggedType DEF SendBox
<1>2. request' \in [Requests -> Request]
      /\ \A q \in Requests : request'[q] = request[q] \/ request'[q] = Idle
  BY FinishedRequests DEF SendBox
<1>3. Note({}, e, TRUE) /\ e \in BOOLEAN
  BY DEF SendBox
<1>4. AtOdds(box', docs') \subseteq excuse.docs \cup {} /\ (IsStranded(box', docs', sent') => e)
  BY <1>1 DEF AtOdds, IsStranded
<1> HIDE DEF e
<1>5. TypeOK'
  <2>1. outdated' \subseteq Requests /\ sent' \in BOOLEAN
        /\ excuse' \in [docs : SUBSET Docs, stranded : BOOLEAN]
    BY <1>1, <1>3, NoteTypes
  <2> QED
    BY <1>1, <1>2, <2>1 DEF TypeOK, Box
<1>6. ReadsHold'
  BY <1>2, <1>3, NoteKeepsReads
<1>7. StaysOutUntilTheLast' /\ ReturnsWithTheLast'
  BY <1>3, <1>4, NoteExcuses
<1> QED
  BY <1>5, <1>6, <1>7

(* What finishing the box writes, when nobody wrote since it was locked.   *)
LEMMA FinishBringsBack ==
    ASSUME CycleInv, NEW r \in Requests, NEW toArchive \in BOOLEAN, FinishBox(r, toArchive),
           r \notin outdated
    PROVE  StillOut(docs') = {}
<1>1. ReadsAreTrue(r) /\ request[r].kind = "finish"
  BY DEF FinishBox, Begun, CycleInv, ReadsHold, Busy
<1>2. docs' = Flagged(Stamped, FALSE)
  BY <1>1 DEF FinishBox, ReadsAreTrue
<1>3. ASSUME NEW d \in Docs PROVE d \notin StillOut(docs')
  <2>1. docs[d] \in Doc
    BY DEF CycleInv, TypeOK
  <2>2. CASE d \in Stamped /\ Linked(docs, d)
    <3>1. docs'[d].out = FALSE
      BY <1>2, <2>1, <2>2 DEF Flagged, Doc
    <3> QED
      BY <3>1 DEF StillOut
  <2>3. CASE ~(d \in Stamped /\ Linked(docs, d))
    <3>1. docs'[d] = docs[d]
      BY <1>2, <2>3 DEF Flagged
    <3> QED
      BY <2>3, <3>1 DEF StillOut, Stamped, Linked
  <2> QED
    BY <2>2, <2>3
<1> QED
  BY <1>3 DEF StillOut

(* The box comes back with what went with it.                              *)
LEMMA FinishBoxKeepsInv ==
    ASSUME CycleInv, NEW r \in Requests, NEW toArchive \in BOOLEAN, FinishBox(r, toArchive)
    PROVE  CycleInv'
<1> DEFINE excused == IF r \in outdated THEN StillOut(docs') ELSE {}
<1> USE DEF CycleInv
<1>1. docs' \in [Docs -> Doc] /\ box'.status # "OUT" /\ box' \in Box /\ lock' = NoRequest
  BY FlaggedType DEF FinishBox, Box
<1>2. request' \in [Requests -> Request]
      /\ \A q \in Requests : request'[q] = request[q] \/ request'[q] = Idle
  BY FinishedRequests DEF FinishBox
<1>3. Note(excused, r \in outdated, sent) /\ sent \in BOOLEAN /\ (r \in outdated) \in BOOLEAN
  <2>1. Note(excused, r \in outdated, sent)
    BY DEF FinishBox, NoteCommit
  <2> QED
    BY <2>1 DEF TypeOK
<1>4. AtOdds(box', docs') \subseteq excuse.docs \cup excused
      /\ (IsStranded(box', docs', sent') => excuse.stranded \/ r \in outdated)
  BY <1>1, FinishBringsBack DEF AtOdds, IsStranded
<1> HIDE DEF excused
<1>5. TypeOK'
  <2>1. outdated' \subseteq Requests /\ sent' \in BOOLEAN
        /\ excuse' \in [docs : SUBSET Docs, stranded : BOOLEAN]
    BY <1>1, <1>3, NoteTypes
  <2> QED
    BY <1>1, <1>2, <2>1 DEF TypeOK
<1>6. ReadsHold'
  BY <1>2, <1>3, NoteKeepsReads
<1>7. StaysOutUntilTheLast' /\ ReturnsWithTheLast'
  BY <1>3, <1>4, NoteExcuses
<1> QED
  BY <1>5, <1>6, <1>7

(* A request is rolled back.                                               *)
LEMMA GiveUpKeepsInv ==
    ASSUME CycleInv, NEW r \in Requests, GiveUp(r)
    PROVE  CycleInv'
<1> USE DEF CycleInv
<1>1. request' = [request EXCEPT ![r] = Idle] /\ outdated' = outdated \ {r}
      /\ UNCHANGED <<box, docs, sent, excuse>>
  BY DEF GiveUp, Finished
<1>2. TypeOK'
  BY <1>1, IdleType DEF TypeOK, GiveUp
<1>3. ReadsHold'
  <2> SUFFICES ASSUME NEW q \in Requests, Busy(q)', q \notin outdated'
               PROVE  ReadsAreTrue(q)'
    BY DEF ReadsHold
  <2>1. q # r /\ request'[q] = request[q]
    BY <1>1 DEF TypeOK, Busy, Idle
  <2>2. ReadsAreTrue(q)
    BY <1>1, <2>1 DEF ReadsHold, Busy
  <2> QED
    BY <1>1, <2>1, <2>2 DEF ReadsAreTrue, Linked, ToWrite, Returns, StillOut, Going, Stamped
<1>4. StaysOutUntilTheLast' /\ ReturnsWithTheLast'
  BY <1>1 DEF StaysOutUntilTheLast, ReturnsWithTheLast, AtOdds, IsStranded, StillOut, Linked
<1> QED
  BY <1>2, <1>3, <1>4

(* The box is set by hand: the documents out are excused.                  *)
LEMMA SetBoxKeepsInv ==
    ASSUME CycleInv, NEW status \in {"IN", "OUT", "PERM_OUT"}, NEW away \in BOOLEAN,
           SetBox(status, away)
    PROVE  CycleInv'
<1> DEFINE isSent == sent /\ box.status = status
           excused == StillOut(docs)
<1> USE DEF CycleInv
<1>1. box' = [status |-> status, away |-> away] /\ UNCHANGED <<docs, request, lock>>
  BY DEF SetBox
<1>2. Note(excused, FALSE, isSent) /\ isSent \in BOOLEAN
  BY DEF SetBox, TypeOK
<1>3. AtOdds(box', docs') \subseteq excuse.docs \cup excused
  BY <1>1 DEF AtOdds, StillOut, Linked
<1>4. IsStranded(box', docs', sent') => excuse.stranded \/ FALSE
  <2>1. sent' = (isSent /\ box'.status = "OUT")
    BY <1>2 DEF Note
  <2>2. sent' => sent /\ box.status = status
    BY <2>1
  <2>3. box'.status = status
    BY <1>1
  <2> QED
    BY <1>1, <2>2, <2>3 DEF IsStranded, ReturnsWithTheLast, StillOut, Linked
<1> HIDE DEF isSent, excused
<1>5. TypeOK'
  <2>1. outdated' \subseteq Requests /\ sent' \in BOOLEAN
        /\ excuse' \in [docs : SUBSET Docs, stranded : BOOLEAN]
    <3>1. docs' \in [Docs -> Doc]
      BY <1>1 DEF TypeOK
    <3> QED
      BY <1>2, <3>1, NoteTypes
  <2> QED
    BY <1>1, <2>1 DEF TypeOK, Box
<1>6. ReadsHold'
  <2>1. \A q \in Requests : request'[q] = request[q] \/ request'[q] = Idle
    BY <1>1
  <2> QED
    BY <1>2, <2>1, NoteKeepsReads
<1>7. StaysOutUntilTheLast' /\ ReturnsWithTheLast'
  BY <1>2, <1>3, <1>4, NoteExcuses
<1> QED
  BY <1>5, <1>6, <1>7

(* A document is changed by hand: it is excused.                           *)
LEMMA SetDocKeepsInv ==
    ASSUME CycleInv, NEW d \in Docs, NEW doc \in Doc, SetDoc(d, doc)
    PROVE  CycleInv'
<1> USE DEF CycleInv
<1>1. docs' = [docs EXCEPT ![d] = doc] /\ docs' \in [Docs -> Doc]
      /\ UNCHANGED <<box, request, lock>>
  BY DEF SetDoc, TypeOK
<1>2. Note({d}, TRUE, sent) /\ sent \in BOOLEAN
  BY DEF SetDoc, TypeOK
<1>3. AtOdds(box', docs') \subseteq excuse.docs \cup {d}
  <2>1. StillOut(docs') \subseteq StillOut(docs) \cup {d}
    BY <1>1 DEF StillOut, Linked, TypeOK
  <2> QED
    BY <1>1, <2>1 DEF AtOdds, StaysOutUntilTheLast
<1>4. TypeOK'
  <2>1. outdated' \subseteq Requests /\ sent' \in BOOLEAN
        /\ excuse' \in [docs : SUBSET Docs, stranded : BOOLEAN]
    BY <1>1, <1>2, NoteTypes
  <2> QED
    BY <1>1, <2>1 DEF TypeOK
<1>5. ReadsHold'
  <2>1. \A q \in Requests : request'[q] = request[q] \/ request'[q] = Idle
    BY <1>1
  <2> QED
    BY <1>2, <2>1, NoteKeepsReads
<1>6. StaysOutUntilTheLast' /\ ReturnsWithTheLast'
  BY <1>2, <1>3, NoteExcuses
<1> QED
  BY <1>4, <1>5, <1>6

-----------------------------------------------------------------------------
(* The theorems                                                            *)

(* Nothing is out, nothing is sent, nobody is busy at first.               *)
LEMMA InitEstablishesInv ==
    ASSUME Init
    PROVE  CycleInv
<1>1. TypeOK
  BY IdleType DEF Init, TypeOK, Box
<1>2. ReadsHold
  BY DEF Init, ReadsHold, Busy, Idle
<1>3. StaysOutUntilTheLast /\ ReturnsWithTheLast
  BY DEF Init, StaysOutUntilTheLast, ReturnsWithTheLast, AtOdds, IsStranded, StillOut
<1> QED
  BY <1>1, <1>2, <1>3 DEF CycleInv

(* Every step keeps the invariant, and finishing the box leaves nothing    *)
(* out.                                                                    *)
LEMMA NextKeepsInv ==
    ASSUME CycleInv, [Next]_vars
    PROVE  CycleInv' /\ [FinishStep]_vars
<1>1. FinishStep
  BY FinishBringsBack DEF FinishStep
<1>2. CASE Next
  <2>1. ASSUME NEW r \in Requests, NEW kind \in {"send", "mark"}, NEW d \in Docs, Pick(r, kind, d)
        PROVE  CycleInv'
    BY <2>1, PickKeepsInv
  <2>2. ASSUME NEW r \in Requests, NEW kind \in {"sendBox", "finish"}, BeginBox(r, kind)
        PROVE  CycleInv'
    BY <2>2, BeginBoxKeepsInv
  <2>3. ASSUME NEW r \in Requests, NEW toArchive \in BOOLEAN, FinishBox(r, toArchive)
        PROVE  CycleInv'
    BY <2>3, FinishBoxKeepsInv
  <2>4. ASSUME NEW r \in Requests,
               Look(r) \/ SendDoc(r) \/ MarkDoc(r) \/ SendBox(r) \/ GiveUp(r)
        PROVE  CycleInv'
    BY <2>4, LookKeepsInv, SendDocKeepsInv, MarkDocKeepsInv, SendBoxKeepsInv, GiveUpKeepsInv
  <2>5. ASSUME NEW status \in {"IN", "OUT", "PERM_OUT"}, NEW away \in BOOLEAN,
               SetBox(status, away)
        PROVE  CycleInv'
    BY <2>5, SetBoxKeepsInv
  <2>6. ASSUME NEW d \in Docs, NEW doc \in Doc, SetDoc(d, doc)
        PROVE  CycleInv'
    BY <2>6, SetDocKeepsInv
  <2> QED
    BY <1>1, <1>2, <2>1, <2>2, <2>3, <2>4, <2>5, <2>6 DEF Next
<1>3. CASE UNCHANGED vars
  <2>1. UNCHANGED <<box, docs, request, lock, outdated, sent, excuse>>
    BY <1>3 DEF vars
  <2>2. TypeOK' /\ StaysOutUntilTheLast' /\ ReturnsWithTheLast'
    BY <2>1 DEF CycleInv, TypeOK, StaysOutUntilTheLast, ReturnsWithTheLast, AtOdds, IsStranded,
                StillOut, Linked
  <2>3. ReadsHold'
    BY <2>1 DEF CycleInv, ReadsHold, Busy, ReadsAreTrue, Linked, ToWrite, Returns, StillOut,
                Going, Stamped
  <2> QED
    BY <1>1, <2>2, <2>3 DEF CycleInv
<1> QED
  BY <1>2, <1>3

(* The inductive invariant holds in every reachable state.                 *)
THEOREM CycleInvariant == Spec => []CycleInv
<1>1. Init => CycleInv
  BY InitEstablishesInv
<1>2. CycleInv /\ [Next]_vars => CycleInv'
  BY NextKeepsInv
<1> QED
  BY <1>1, <1>2, PTL DEF Spec

(* Every row and request keeps its type.                                   *)
THEOREM CycleTypes == Spec => []TypeOK
<1>1. CycleInv => TypeOK
  BY DEF CycleInv
<1> QED
  BY <1>1, CycleInvariant, PTL

(* However many requests run, a box is IN with a document out only where   *)
(* an operator or an overlap made it so.                                   *)
THEOREM CycleStaysOut == Spec => []StaysOutUntilTheLast
<1>1. CycleInv => StaysOutUntilTheLast
  BY DEF CycleInv
<1> QED
  BY <1>1, CycleInvariant, PTL

(* The box comes back with the last of its documents, however many.        *)
THEOREM CycleReturns == Spec => []ReturnsWithTheLast
<1>1. CycleInv => ReturnsWithTheLast
  BY DEF CycleInv
<1> QED
  BY <1>1, CycleInvariant, PTL

(* Finishing the box brings back all that went with it.                    *)
THEOREM CycleFinish == Spec => FinishLeavesNothingOut
<1>1. CycleInv /\ [Next]_vars => [FinishStep]_vars
  BY NextKeepsInv
<1>2. Spec => [][FinishStep]_vars
  BY <1>1, CycleInvariant, PTL DEF Spec
<1> QED
  BY <1>2 DEF FinishLeavesNothingOut, FinishStep

=============================================================================
