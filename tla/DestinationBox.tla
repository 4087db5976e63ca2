---------------------------- MODULE DestinationBox ----------------------------
(***************************************************************************)
(* The bookkeeping of one destination box (DestinationBox.cpp).  A box is  *)
(* a value: the operations are operators from a box to a box, and the      *)
(* conveyor system (ConveyorSystem.tla) owns the boxes.                    *)
(*                                                                         *)
(* The field "location" is left out: it is written by initialize_box and   *)
(* read by nothing (get_location has no caller).                           *)
(***************************************************************************)
EXTENDS Naturals, FiniteSets

CONSTANTS
    PackageId,              \* the package ids a client may use
    BoxId,                  \* the box ids a client may use
    NoBoxId,                \* the id of an uninitialized box, the code's -1
    DESTINATION_BOX_SIZE    \* packages a box holds, stored and in transit

ASSUME BoxSizeAssumption == DESTINATION_BOX_SIZE \in Nat \ {0}

ASSUME NoBoxIdAssumption == NoBoxId \notin BoxId

PackageType == {"RED", "YELLOW", "GREEN"}

BoxType == PackageType \union {"NONE", "INVALID"}

Box == [id               : BoxId \union {NoBoxId},
        package_type     : BoxType,
        packages_stored  : SUBSET PackageId,
        packages_transit : SUBSET PackageId]

------------------------------------------------------------------------------
(* Queries *)

is_initialized(box) == box.package_type # "INVALID"

Contents(box) == box.packages_stored \union box.packages_transit

(* Mutant: the packages in transit are not counted. *)
Occupancy_StoredOnly(box) == Cardinality(box.packages_stored)

(* The code adds the sizes of the two sets: a package in both counts twice. *)
Occupancy(box) ==
    Cardinality(box.packages_stored) + Cardinality(box.packages_transit)

has_package_stored(box, p) == p \in box.packages_stored

has_package_in_transit(box, p) == p \in box.packages_transit

(* Mutant: the last place of a box is never given away. *)
can_accept_package_OffByOne(box, colour) ==
    \/ box.package_type = "NONE"
    \/ box.package_type = colour /\ Occupancy(box) < DESTINATION_BOX_SIZE - 1

(* An empty box of no colour yet accepts everything without looking at the *)
(* size, which add_package looks at again.                                 *)
can_accept_package(box, colour) ==
    \/ box.package_type = "NONE"
    \/ box.package_type = colour /\ Occupancy(box) < DESTINATION_BOX_SIZE

(* Whether add_package will add the package, its result. *)
adds_package(box, colour) ==
    /\ is_initialized(box)
    /\ box.package_type \in {"NONE", colour}
    /\ Occupancy(box) < DESTINATION_BOX_SIZE

------------------------------------------------------------------------------
(* Operations *)

NewBox == [id |-> NoBoxId, package_type |-> "INVALID",
           packages_stored |-> {}, packages_transit |-> {}]

initialize_box(box, id) ==
    IF is_initialized(box) THEN box
    ELSE [box EXCEPT !.package_type = "NONE", !.id = id]

(* A package that is already in transit to the box only leaves a log line. *)
add_package(box, p, colour) ==
    IF adds_package(box, colour)
    THEN [box EXCEPT !.package_type = colour,
                     !.packages_transit = @ \union {p}]
    ELSE box

(* Mutant: a package that was not expected is stored. *)
package_received_Unexpected(box, p) ==
    IF is_initialized(box)
    THEN [box EXCEPT !.packages_transit = @ \ {p},
                     !.packages_stored = @ \union {p}]
    ELSE box

(* Mutant: the package stays in transit when it is stored. *)
package_received_KeepsTransit(box, p) ==
    IF is_initialized(box) /\ has_package_in_transit(box, p)
    THEN [box EXCEPT !.packages_stored = @ \union {p}]
    ELSE box

(* An arrival of a package that is not in transit, a duplicate message     *)
(* perhaps, changes nothing.                                               *)
package_received(box, p) ==
    IF is_initialized(box) /\ has_package_in_transit(box, p)
    THEN [box EXCEPT !.packages_transit = @ \ {p},
                     !.packages_stored = @ \union {p}]
    ELSE box

(* Mutant: clearing gives the box back its colour although packages may    *)
(* still be on their way to it.                                            *)
clear_box_ForgetsColour(box, removed) ==
    [box EXCEPT !.package_type = "NONE",
                !.packages_transit = @ \ removed,
                !.packages_stored =
                    @ \ (removed \ box.packages_transit)]

(* Mutant: the whole box is cleared, whatever the conveyor reports. *)
clear_box_Everything(box, removed) ==
    [box EXCEPT !.packages_transit = {}, !.packages_stored = {}]

(* A package in both sets loses its transit entry only.  The colour stays, *)
(* also when the box is now empty.                                         *)
clear_box(box, removed) ==
    [box EXCEPT !.packages_transit = @ \ removed,
                !.packages_stored =
                    @ \ (removed \ box.packages_transit)]

(* remove_package takes a stored package only. *)
remove_package(box, p) ==
    [box EXCEPT !.packages_stored = @ \ {p}]
===============================================================================
