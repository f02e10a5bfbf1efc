----------------------------- MODULE SeriesTree -----------------------------
(***************************************************************************)
(* The hierarchy of series (app/Models/Series.php): a series sits under    *)
(* another, or at the top level. The edit page                             *)
(* (app/Filament/Resources/SeriesResource.php) and the import              *)
(* (app/Filament/Imports/SeriesImporter.php) refuse a parent that is the   *)
(* series itself or one of its descendants.                                *)
(*                                                                         *)
(* A save of the page checks, then writes, in no transaction. A slice of   *)
(* an import is one transaction of many rows, each checked against what    *)
(* the slice saw when it began and what its own rows wrote. Archived       *)
(* series keep their parent and are hidden from every query. A series yet  *)
(* to be created is one at the top level with nothing under it.            *)
(*                                                                         *)
(* A check reads the tree row by row; it is one step here.                 *)
(***************************************************************************)
EXTENDS FiniteSets, Naturals

CONSTANTS
    Series, NoSeries,
    Requests

ASSUME SeriesAssumption == NoSeries \notin Series /\ IsFiniteSet(Series)

VARIABLES
    parent,   \* parent_id of each series
    archived, \* the series with a deleted_at
    request,  \* what each request has read and is to write
    outdated, \* requests since whose first read another wrote
    excused   \* series on a loop that no check could see

vars == <<parent, archived, request, outdated, excused>>

(* A request that saves a page, or runs a slice of an import. parent and   *)
(* archived are the tables as the slice sees them, moved and revived the   *)
(* rows it has written.                                                    *)
Idle == [kind |-> "idle"]
Page == [kind : {"page"}, series : Series, to : Series]
Slice == [kind : {"slice"}, parent : [Series -> Series \cup {NoSeries}],
          archived : SUBSET Series, moved : SUBSET Series, revived : SUBSET Series]

-----------------------------------------------------------------------------
(* The tree                                                                *)

(* The children relation.                                                  *)
Children(of, hidden, s) == {c \in Series : of[c] = s /\ c \notin hidden}

(* What descendants() gives, and s too when it is on a loop: the series    *)
(* under s through series not archived, the least set with the children of *)
(* s and of its members. The walk itself is in module SeriesWalk.          *)
Below(of, hidden, s) ==
    {d \in Series : \A S \in SUBSET Series :
        (\A x \in S \cup {s} : Children(of, hidden, x) \subseteq S) => d \in S}

(* Mutant: only the series itself and its children are refused.            *)
DisallowedOneLevel(of, hidden, s) == {s} \cup Children(of, hidden, s)

(* disallowedParentIds()                                                   *)
Disallowed(of, hidden, s) == {s} \cup Below(of, hidden, s)

(* Both callers look the parent up among the series not archived.          *)
MayPutUnder(of, hidden, s, p) == p \notin hidden /\ p \notin Disallowed(of, hidden, s)

-----------------------------------------------------------------------------
(* Bookkeeping: no action reads Above, or what Note writes.                *)

(* The series above s, archived ones too, s itself when it is on a loop:   *)
(* the least set with the parent of s and of its members. It is not        *)
(* ancestors() of the code, which stops at an archived parent and after    *)
(* 100 steps: loops are judged on the whole table.                         *)
Above(of, s) ==
    {a \in Series : \A S \in SUBSET Series :
        (\A x \in S \cup {s} : of[x] \in S \cup {NoSeries}) => a \in S}

OnLoops(of) == {s \in Series : s \in Above(of, s)}

Is(r, kind) == request[r].kind = kind

(* What r puts on a loop is excused when r decided on outdated reads, and  *)
(* a loop that passes through a series archived while r ran is too.        *)
Note(r, revived) ==
    LET unseen(s) == r \in outdated \/ Above(parent', s) \cap (archived' \cup revived) # {} IN
    /\ excused' = {s \in OnLoops(parent') : s \in excused \/ unseen(s)}
    /\ outdated' = IF <<parent, archived>>' # <<parent, archived>>
                   THEN {q \in Requests : request'[q].kind # "idle"}
                   ELSE {q \in outdated : request'[q].kind # "idle"}

(* Rows that an open slice wrote, and rows it put others under: locked for *)
(* its foreign keys.                                                       *)
Written(r) == UNION {request[q].moved \cup request[q].revived :
                        q \in {q \in Requests \ {r} : Is(q, "slice")}}
PutUnder(r) == UNION {{request[q].parent[s] : s \in request[q].moved} :
                        q \in {q \in Requests \ {r} : Is(q, "slice")}}
MayWrite(r, s) == s \notin Written(r) \cup PutUnder(r)

-----------------------------------------------------------------------------
(* The edit page                                                           *)

(* The options of the field and its closure rule read the tree.            *)
CheckPage(r, s, p) ==
    /\ Is(r, "idle")
    /\ s \notin archived
    /\ parent[s] # p
    /\ MayPutUnder(parent, archived, s, p)
    /\ request' = [request EXCEPT ![r] = [kind |-> "page", series |-> s, to |-> p]]
    /\ UNCHANGED <<parent, archived, outdated, excused>>

SavePage(r) ==
    /\ Is(r, "page")
    /\ MayWrite(r, request[r].series)
    /\ request[r].to \notin Written(r)
    /\ parent' = [parent EXCEPT ![request[r].series] = request[r].to]
    /\ request' = [request EXCEPT ![r] = Idle]
    /\ UNCHANGED archived
    /\ Note(r, {})

(* Mutant: what is archived takes the series above along.                  *)
TouchWithParent(r, s) ==
    /\ Is(r, "idle")
    /\ MayWrite(r, s)
    /\ archived' = archived \cup {s, parent[s]}
    /\ UNCHANGED <<parent, request>>
    /\ Note(r, {})

(* Saves that need no check: to the top level, archived, restored.         *)
Touch(r, s) ==
    /\ Is(r, "idle")
    /\ MayWrite(r, s)
    /\ \/ parent' = [parent EXCEPT ![s] = NoSeries] /\ s \notin archived /\ UNCHANGED archived
       \/ archived' \in {archived \cup {s}, archived \ {s}} /\ UNCHANGED parent
    /\ UNCHANGED request
    /\ Note(r, {})

-----------------------------------------------------------------------------
(* An import, told to overwrite what exists                                *)

(* The first read of the transaction fixes what it sees.                   *)
BeginSlice(r) ==
    /\ Is(r, "idle")
    /\ request' = [request EXCEPT ![r] = [kind |-> "slice", parent |-> parent,
                       archived |-> archived, moved |-> {}, revived |-> {}]]
    /\ UNCHANGED <<parent, archived, outdated, excused>>

(* A row for s, archived or not, with a parent. A parent that is refused   *)
(* fails the row before anything is written.                               *)
RowWithParent(r, s, p) ==
    /\ Is(r, "slice")
    /\ MayPutUnder(request[r].parent, request[r].archived, s, p)
    /\ MayWrite(r, s)
    /\ p \notin Written(r)
    /\ request' = [request EXCEPT ![r] =
           [request[r] EXCEPT
               !.parent[s] = p,
               !.moved = IF request[r].parent[s] = p THEN @ ELSE @ \cup {s},
               !.archived = @ \ {s},
               !.revived = IF s \in request[r].archived THEN @ \cup {s} ELSE @]]
    /\ UNCHANGED <<parent, archived, outdated, excused>>

(* Without a parent the row leaves the one the series has, and only an     *)
(* archived series is changed. So does a row when the import skips what    *)
(* exists.                                                                 *)
RowReviving(r, s) ==
    /\ Is(r, "slice")
    /\ s \in request[r].archived
    /\ MayWrite(r, s)
    /\ request' = [request EXCEPT ![r] =
           [request[r] EXCEPT !.archived = @ \ {s}, !.revived = @ \cup {s}]]
    /\ UNCHANGED <<parent, archived, outdated, excused>>

CommitSlice(r) ==
    /\ Is(r, "slice")
    /\ parent' = [s \in Series |-> IF s \in request[r].moved THEN request[r].parent[s] ELSE parent[s]]
    /\ archived' = archived \ request[r].revived
    /\ request' = [request EXCEPT ![r] = Idle]
    /\ Note(r, request[r].revived)

(* The page is refused or closed, or the worker dies: rolled back.         *)
GiveUp(r) ==
    /\ ~Is(r, "idle")
    /\ request' = [request EXCEPT ![r] = Idle]
    /\ outdated' = outdated \ {r}
    /\ UNCHANGED <<parent, archived, excused>>

-----------------------------------------------------------------------------
Init ==
    /\ parent = [s \in Series |-> NoSeries]
    /\ archived = {}
    /\ request = [r \in Requests |-> Idle]
    /\ outdated = {}
    /\ excused = {}

Next ==
    \E r \in Requests :
        \/ \E s, p \in Series : CheckPage(r, s, p) \/ RowWithParent(r, s, p)
        \/ \E s \in Series : Touch(r, s) \/ RowReviving(r, s)
        \/ SavePage(r)
        \/ BeginSlice(r)
        \/ CommitSlice(r)
        \/ GiveUp(r)

Spec == Init /\ [][Next]_vars

-----------------------------------------------------------------------------
(* Properties                                                              *)

(* The tables and the requests keep their types.                           *)
TypeOK ==
    /\ parent \in [Series -> Series \cup {NoSeries}]
    /\ archived \subseteq Series
    /\ request \in [Requests -> {Idle} \cup Page \cup Slice]
    /\ outdated \subseteq Requests
    /\ excused \subseteq Series

(* The page and the import build no loop, through any number of levels and *)
(* whatever they do one after the other: a loop is left only by requests   *)
(* that overlapped, or passes through a series that was archived.          *)
LoopsWereOutOfSight == OnLoops(parent) \subseteq excused

(* "Options EXCLUDE the record itself and all of its descendants so a      *)
(* cycle cannot be formed from the UI": no series is its own ancestor.     *)
NoSeriesIsItsOwnAncestor ==
    \A s \in OnLoops(parent) : Above(parent, s) \cap archived # {}

=============================================================================
