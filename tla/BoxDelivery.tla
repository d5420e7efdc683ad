---------------------------- MODULE BoxDelivery ----------------------------
(***************************************************************************)
(* What retrieving boxes promises: the arm holds one box at a time, a box  *)
(* that was picked up ends at the drop-off place, and it ends anywhere     *)
(* else only if a tablet moved the arm while it was held, or a frame did   *)
(* not reach the arm.                                                      *)
(***************************************************************************)
CONSTANTS Boxes, Sessions, Console, Nobody

VARIABLES
    boxAt,      \* where each box is
    by,         \* the sender of the arm's last frame
    disturbed   \* since the held box was picked up, a tablet moved the arm, or
                \* a frame was not written

Held == {b \in Boxes : boxAt[b] = "held"}

Init ==
    /\ boxAt = [b \in Boxes |-> "field"]
    /\ by = Nobody
    /\ disturbed = FALSE

\* A frame that moves no box.
Carry ==
    /\ by' \in Sessions \cup {Console}
    /\ disturbed' = (Held # {} /\ (disturbed \/ by' \in Sessions))
    /\ UNCHANGED boxAt

\* A frame that does not reach the arm while a box is held.
Miss ==
    /\ Held # {}
    /\ disturbed' = TRUE
    /\ UNCHANGED <<boxAt, by>>

PickUp(b) ==
    /\ Held = {}
    /\ boxAt[b] = "field"
    /\ boxAt' = [boxAt EXCEPT ![b] = "held"]
    /\ by' = Console
    /\ disturbed' = FALSE

Deliver(b) ==
    /\ boxAt[b] = "held"
    /\ boxAt' = [boxAt EXCEPT ![b] = "delivered"]
    /\ by' \in Sessions \cup {Console}
    /\ disturbed' = FALSE

Drop(b) ==
    /\ boxAt[b] = "held"
    /\ by' \in Sessions \cup {Console}
    /\ disturbed \/ by' \in Sessions
    /\ boxAt' = [boxAt EXCEPT ![b] = "dropped"]
    /\ disturbed' = FALSE

Next == Carry \/ Miss \/ \E b \in Boxes : PickUp(b) \/ Deliver(b) \/ Drop(b)

Spec == Init /\ [][Next]_<<boxAt, by, disturbed>>
=============================================================================
