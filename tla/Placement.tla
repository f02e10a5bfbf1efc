----------------------------- MODULE Placement -----------------------------
(***************************************************************************)
(* What the custody code promises about where documents are, without the   *)
(* requests that make it so: a document is in a box, in none, or not       *)
(* registered; it is put only into an open box; a box leaves the inventory *)
(* only when nothing is in it.                                             *)
(***************************************************************************)
CONSTANTS Boxes, Docs,
          NoBox,        \* registered, in no box
          Gone          \* not registered

VARIABLES place,        \* where each document is
          inventory,    \* the boxes that exist
          open          \* the boxes that take documents

placementVars == <<place, inventory, open>>

PlacementInit ==
    /\ place = [d \in Docs |-> Gone]
    /\ inventory = {}
    /\ open = {}

Register(d, p) ==
    /\ place[d] = Gone
    /\ p \in open \cup {NoBox}
    /\ place' = [place EXCEPT ![d] = p]
    /\ UNCHANGED <<inventory, open>>

Put(d, p) ==
    /\ place[d] # Gone
    /\ p \in open \cup {NoBox}
    /\ place' = [place EXCEPT ![d] = p]
    /\ UNCHANGED <<inventory, open>>

Withdraw(d) ==
    /\ place' = [place EXCEPT ![d] = Gone]
    /\ UNCHANGED <<inventory, open>>

AddBox(b) ==
    /\ b \notin inventory
    /\ inventory' = inventory \cup {b}
    /\ open' = open \cup {b}
    /\ UNCHANGED place

Close(b) ==
    /\ open' = open \ {b}
    /\ UNCHANGED <<place, inventory>>

Reopen(b) ==
    /\ b \in inventory
    /\ open' = open \cup {b}
    /\ UNCHANGED <<place, inventory>>

RemoveBox(b) ==
    /\ \A d \in Docs : place[d] # b
    /\ inventory' = inventory \ {b}
    /\ open' = open \ {b}
    /\ UNCHANGED place

PlacementNext ==
    \/ \E d \in Docs, p \in Boxes \cup {NoBox} : Register(d, p) \/ Put(d, p)
    \/ \E d \in Docs : Withdraw(d)
    \/ \E b \in Boxes : AddBox(b) \/ Close(b) \/ Reopen(b) \/ RemoveBox(b)

PlacementSpec == PlacementInit /\ [][PlacementNext]_placementVars

=============================================================================
