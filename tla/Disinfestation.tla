--------------------------- MODULE Disinfestation ---------------------------
(***************************************************************************)
(* The disinfestation cycle of one RAS box (app/Filament/Actions/Documents *)
(* SendToDisinfestationAction.php and MarkDisinfestedAction.php,           *)
(* app/Filament/Actions/Boxes SendBoxesToDisinfestationAction.php and      *)
(* FinishDisinfestationAction.php).                                        *)
(*                                                                         *)
(* A document is sent and brought back by itself or with its box. Sending  *)
(* takes the box OUT, and the box is to come back IN with the last of its  *)
(* documents. Each request is a transaction: an action on a document loads *)
(* it, then reads the box and the other documents as of one moment, then   *)
(* commits; an action on the box holds the row lock of the box from its    *)
(* first read on. Requests overlap.                                        *)
(*                                                                         *)
(* Where the box is placed by its documents is in BoxLocation, dates are   *)
(* left out.                                                               *)
(***************************************************************************)
CONSTANTS
    Requests,
    Docs,
    NoDoc, NoRequest

ASSUME DisinfestationAssumption == NoDoc \notin Docs /\ NoRequest \notin Requests

VARIABLES
    box,      \* its status, and whether it is at the location Disinfestation
    docs,     \* where each document is, and is_in_disinfestation
    request,  \* what each request has loaded, read and is to do
    lock,     \* who holds the row lock of the box
    outdated, \* requests since whose first read another wrote
    sent,     \* the box is OUT because it, or a document, was sent
    excuse    \* what put the box and its documents at odds

vars == <<box, docs, request, lock, outdated, sent, excuse>>

Box == [status : {"IN", "OUT", "PERM_OUT"}, away : BOOLEAN]

(* "gone": in another box, in none, or archived. Linked to the box, it is  *)
(* "inside" (custody status in_box) or kept "elsewhere".                   *)
Doc == [at : {"gone", "inside", "elsewhere"}, out : BOOLEAN]

Kinds == {"send", "mark", "sendBox", "finish"}
NotWritten == "-"

(* linked, out: of the document as loaded. write: the status the box gets, *)
(* if any. chosen: the documents an action on the box is to flag.          *)
Request == [step : {"idle", "picked", "begun"}, kind : Kinds, doc : Docs \cup {NoDoc},
            linked : BOOLEAN, out : BOOLEAN, write : {"IN", "OUT", NotWritten},
            chosen : SUBSET Docs]
Idle == [step |-> "idle", kind |-> "send", doc |-> NoDoc, linked |-> FALSE, out |-> FALSE,
         write |-> NotWritten, chosen |-> {}]

Linked(of, d) == of[d].at # "gone"
StillOut(of) == {d \in Docs : Linked(of, d) /\ of[d].out}

-----------------------------------------------------------------------------
(* Bookkeeping                                                             *)

Busy(r) == request[r].step # "idle"
Finished(r) == request' = [request EXCEPT ![r] = Idle]

(* No action reads what Note writes. The box and a document are at odds    *)
(* when the box is IN and the document out; the box is stranded when it    *)
(* was sent, is OUT, and none of its documents is out.                     *)
AtOdds(b, of) == IF b.status = "IN" THEN StillOut(of) ELSE {}
IsStranded(b, of, s) == s /\ b.status = "OUT" /\ StillOut(of) = {}

Note(docsExcused, strandedExcused, isSent) ==
    /\ sent' = (isSent /\ box'.status = "OUT")
    /\ excuse' = [docs |-> (excuse.docs \cup docsExcused) \cap AtOdds(box', docs'),
                  stranded |-> /\ excuse.stranded \/ strandedExcused
                               /\ IsStranded(box', docs', sent')]
    /\ outdated' = IF <<box, docs>>' # <<box, docs>>
                   THEN {r \in Requests : request'[r].step # "idle"}
                   ELSE {r \in outdated : request'[r].step # "idle"}

(* What a request wrote on outdated reads excuses what it leaves.          *)
NoteCommit(r, isSent) ==
    Note(IF r \in outdated THEN StillOut(docs') ELSE {}, r \in outdated, isSent)

(* A box written by another request is locked until that one commits.      *)
MayWriteBox(r) == lock \in {NoRequest, r}

-----------------------------------------------------------------------------
(* Actions on a document                                                   *)

(* The documents chosen are loaded; sending skips those already out.       *)
Pick(r, kind, d) ==
    /\ ~Busy(r)
    /\ kind = "send" => ~docs[d].out
    /\ request' = [request EXCEPT ![r] = [Idle EXCEPT !.step = "picked", !.kind = kind, !.doc = d,
                                          !.linked = Linked(docs, d), !.out = docs[d].out]]
    /\ UNCHANGED <<box, docs, lock, outdated, sent, excuse>>

(* Mutants: documents kept elsewhere hold the box back no more; the        *)
(* document that returns holds it back too (no whereKeyNot).               *)
ReturnsCountingItself(d) == box.status # "PERM_OUT" /\ StillOut(docs) = {}
ReturnsWithThoseInside(d) ==
    /\ box.status # "PERM_OUT"
    /\ \A other \in StillOut(docs) \ {d} : docs[other].at # "inside"

(* othersStillOut: the box is back with the last of its documents.         *)
Returns(d) == box.status # "PERM_OUT" /\ StillOut(docs) \subseteq {d}

(* applyBarcodeStatus for a document loaded in the box: the box is written *)
(* if its status is another.                                               *)
ToWrite(r) ==
    LET status == IF request[r].kind = "send" THEN "OUT" ELSE "IN" IN
    IF /\ request[r].linked
       /\ request[r].kind = "mark" => Returns(request[r].doc)
       /\ box.status # status
    THEN status ELSE NotWritten

(* Box::find is the first read of the transaction, and fixes what it sees  *)
(* of the other documents. A PERM OUT box refuses to go OUT.               *)
Look(r) ==
    /\ request[r].step = "picked"
    /\ request[r].kind = "send" /\ request[r].linked => box.status # "PERM_OUT"
    /\ request' = [request EXCEPT ![r] = [@ EXCEPT !.step = "begun", !.write = ToWrite(r)]]
    /\ UNCHANGED <<box, docs, lock, outdated, sent, excuse>>

Begun(r, kind) == request[r].step = "begun" /\ request[r].kind = kind

(* Mutant: the box is written whether or not the request is to write it.   *)
WriteBoxAlways(r) ==
    /\ MayWriteBox(r)
    /\ box' = [status |-> request[r].write, away |-> box.away /\ request[r].write # "IN"]

(* On its way IN the box goes to RAS.                                      *)
WriteBox(r) ==
    IF request[r].write = NotWritten THEN UNCHANGED box
    ELSE /\ MayWriteBox(r)
         /\ box' = [status |-> request[r].write, away |-> box.away /\ request[r].write # "IN"]

SendDoc(r) ==
    /\ Begun(r, "send")
    /\ WriteBox(r)
    /\ docs' = [docs EXCEPT ![request[r].doc].out = TRUE]
    /\ Finished(r)
    /\ UNCHANGED lock
    /\ NoteCommit(r, sent \/ box' # box)

(* The flag is written only if it was set when the document was loaded.    *)
MarkDoc(r) ==
    /\ Begun(r, "mark")
    /\ WriteBox(r)
    /\ docs' = [docs EXCEPT ![request[r].doc].out = @ /\ ~request[r].out]
    /\ Finished(r)
    /\ UNCHANGED lock
    /\ NoteCommit(r, sent)

-----------------------------------------------------------------------------
(* Actions on the box                                                      *)

(* Only what is inside the box goes with it.                               *)
Going == {d \in Docs : docs[d] = [at |-> "inside", out |-> FALSE]}

(* Mutant: stampDocuments as it was before 2026-11-06, with only what is   *)
(* inside the box.                                                         *)
StampedInside == {d \in Docs : docs[d].at = "inside"}

(* What is inside, and what is out with the box.                           *)
Stamped == {d \in Docs : docs[d].at = "inside" \/ (Linked(docs, d) /\ docs[d].out)}

(* BoxBulkSupport::run locks the box; the documents are read then.         *)
BeginBox(r, kind) ==
    /\ ~Busy(r)
    /\ lock = NoRequest
    /\ lock' = r
    /\ request' = [request EXCEPT ![r] = [Idle EXCEPT !.step = "begun", !.kind = kind,
                       !.chosen = IF kind = "sendBox" THEN Going ELSE Stamped]]
    /\ UNCHANGED <<box, docs, outdated, sent, excuse>>

(* A bulk UPDATE of the documents chosen, those still in the box.          *)
Flagged(chosen, out) ==
    [d \in Docs |-> IF d \in chosen /\ Linked(docs, d) THEN [docs[d] EXCEPT !.out = out]
                    ELSE docs[d]]

SendBox(r) ==
    /\ Begun(r, "sendBox")
    /\ box.status # "PERM_OUT"
    /\ request[r].chosen # {} \/ ~box.away \/ box.status # "OUT"
    /\ docs' = Flagged(request[r].chosen, TRUE)
    /\ box' = [status |-> "OUT", away |-> TRUE]
    /\ Finished(r)
    /\ lock' = NoRequest
    /\ Note({}, StillOut(docs') = {}, TRUE)

(* Back to RAS and IN, or to an archive and PERM OUT.                      *)
FinishBox(r, toArchive) ==
    /\ Begun(r, "finish")
    /\ box.away
    /\ toArchive \/ box.status # "PERM_OUT"
    /\ docs' = Flagged(request[r].chosen, FALSE)
    /\ box' = [status |-> IF toArchive THEN "PERM_OUT" ELSE "IN", away |-> FALSE]
    /\ Finished(r)
    /\ lock' = NoRequest
    /\ NoteCommit(r, sent)

(* A guard refuses, the database does, or the process dies: rolled back.   *)
GiveUp(r) ==
    /\ Busy(r)
    /\ Finished(r)
    /\ lock' = IF lock = r THEN NoRequest ELSE lock
    /\ outdated' = outdated \ {r}
    /\ UNCHANGED <<box, docs, sent, excuse>>

-----------------------------------------------------------------------------
(* What operators do besides, one transaction or page save each            *)

(* MarkBoxStatusAction, the edit page, MoveBoxToLocationAction.            *)
SetBox(status, away) ==
    /\ lock = NoRequest
    /\ box.status = "PERM_OUT" => status # "OUT"
    /\ status = "IN" /\ box.status # "IN" => ~away
    /\ box' = [status |-> status, away |-> away]
    /\ UNCHANGED <<docs, request, lock>>
    /\ Note(StillOut(docs), FALSE, sent /\ box.status = status)

(* MoveToBoxAction and the pages: a document comes, goes, is kept          *)
(* elsewhere, is archived or restored, or has its toggle set.              *)
SetDoc(d, doc) ==
    /\ docs[d].at = "gone" /\ doc.at # "gone" => box.status # "PERM_OUT"
    /\ docs' = [docs EXCEPT ![d] = doc]
    /\ UNCHANGED <<box, request, lock>>
    /\ Note({d}, TRUE, sent)

-----------------------------------------------------------------------------
Init ==
    /\ box = [status |-> "IN", away |-> FALSE]
    /\ docs \in [Docs -> {doc \in Doc : ~doc.out}]
    /\ request = [r \in Requests |-> Idle]
    /\ lock = NoRequest
    /\ outdated = {}
    /\ sent = FALSE
    /\ excuse = [docs |-> {}, stranded |-> FALSE]

Next ==
    \/ \E r \in Requests :
        \/ \E kind \in {"send", "mark"}, d \in Docs : Pick(r, kind, d)
        \/ Look(r)
        \/ SendDoc(r)
        \/ MarkDoc(r)
        \/ \E kind \in {"sendBox", "finish"} : BeginBox(r, kind)
        \/ SendBox(r)
        \/ \E toArchive \in BOOLEAN : FinishBox(r, toArchive)
        \/ GiveUp(r)
    \/ \E status \in {"IN", "OUT", "PERM_OUT"}, away \in BOOLEAN : SetBox(status, away)
    \/ \E d \in Docs, doc \in Doc : SetDoc(d, doc)

Spec == Init /\ [][Next]_vars

-----------------------------------------------------------------------------
(* Properties                                                              *)

(* The box, the documents and the requests keep their types.               *)
TypeOK ==
    /\ box \in Box
    /\ docs \in [Docs -> Doc]
    /\ request \in [Requests -> Request]
    /\ lock \in Requests \cup {NoRequest}
    /\ outdated \subseteq Requests
    /\ sent \in BOOLEAN
    /\ excuse \in [docs : SUBSET Docs, stranded : BOOLEAN]

(* "A box in disinfestation stays out until the last of its documents      *)
(* there is back": it is IN with a document out only if an operator made   *)
(* it so, or a request that overlapped with another.                       *)
StaysOutUntilTheLast == AtOdds(box, docs) \subseteq excuse.docs

(* "The closing bookend": a box that was sent is not left OUT with all its *)
(* documents back, unless they were marked by overlapping requests, went   *)
(* or came by hand, or there were none.                                    *)
ReturnsWithTheLast == IsStranded(box, docs, sent) => excuse.stranded

(* Finishing the box brings everything back that went with it: only what   *)
(* was sent while the request ran stays out.                               *)
FinishLeavesNothingOut ==
    [][\A r \in Requests, toArchive \in BOOLEAN :
        FinishBox(r, toArchive) /\ r \notin outdated => StillOut(docs') = {}]_vars

=============================================================================
