--------------------------- MODULE MCCentralComputer ---------------------------
(***************************************************************************)
(* Instances of CentralComputer for TLC: two conveyors, a box on the       *)
(* second one and packages that compete for it.                            *)
(***************************************************************************)
EXTENDS CentralComputer, TLC

CONSTANTS r1, r2, b1, none

MCConveyorId == 1 .. 2

MCKeyRank == <<0, 1>>

Pair == 1 :> <<-1, 2>> @@ 2 :> <<-1, -1, -1, 1>>

(* No link: a box on the second conveyor ends the process. *)
Apart == 1 :> <<>> @@ 2 :> <<-1>>

Configure(config) == [id |-> "CONVEYOR_STATE_MSG", config |-> config]

AddBox == [id |-> "ADD_DESTINATION_BOX", conveyor |-> 2, box |-> b1,
           location |-> 2]

(* There is no such location. *)
AddBoxOutside == [AddBox EXCEPT !.location = 4]

MCConfigurations == {Pair, Apart}

(* The number of the second one is that of no colour. *)
RedAndNone == r1 :> "RED" @@ r2 :> "NONE"

MCRequests ==
    {Configure(Pair), Configure(Apart), AddBox, AddBoxOutside,
     [id |-> "ADD_PACKAGE", package |-> r1],
     [id |-> "ADD_PACKAGE", package |-> r2],
     [id |-> "DESTINATION_BOX_STATUS", box |-> b1],
     [id |-> "REMOVE_PACKAGE", package |-> r1, box |-> b1],
     [id |-> "CLEAR_BOX", box |-> b1]}

(* One package on its way. *)
OnePackage ==
    {Configure(Pair), AddBox, [id |-> "ADD_PACKAGE", package |-> r1]}
===============================================================================
