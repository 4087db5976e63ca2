---------------------------- MODULE PackageTracking ---------------------------
(***************************************************************************)
(* What the conveyor system promises about packages, whatever the layout:  *)
(* a package outside the plant is sent to one place that has room and      *)
(* takes its colour, may be stored there, and at some time leaves.         *)
(***************************************************************************)
EXTENDS Naturals, FiniteSets

CONSTANTS
    PackageId,
    Place,       \* where a box can be
    Outside,     \* the place of a package that is not in the plant
    Capacity,    \* packages a place takes
    ColourOf

VARIABLE
    where        \* for each package its place, and whether it is stored there

AtPlace(c) == {p \in PackageId : where[p].place = c}

NotInPlant == [place |-> Outside, stored |-> FALSE]

Init == where = [p \in PackageId |-> NotInPlant]

SendTo(p, c) ==
    /\ where[p].place = Outside
    /\ \A q \in AtPlace(c) : ColourOf[q] = ColourOf[p]
    /\ Cardinality(AtPlace(c)) < Capacity
    /\ where' = [where EXCEPT ![p] = [place |-> c, stored |-> FALSE]]

Store(p) ==
    /\ where[p].place # Outside
    /\ where' = [where EXCEPT ![p].stored = TRUE]

(* Any number of packages leave at once, the others stay as they are. *)
Leave ==
    /\ DOMAIN where' = PackageId
    /\ \A p \in PackageId : where'[p] \in {where[p], NotInPlant}

Next ==
    \/ Leave
    \/ \E p \in PackageId : Store(p) \/ \E c \in Place : SendTo(p, c)

Spec == Init /\ [][Next]_where
===============================================================================
