--------------------------- MODULE MCConveyorSystem ---------------------------
(***************************************************************************)
(* Instances of ConveyorSystem for TLC.                                    *)
(***************************************************************************)
EXTENDS ConveyorSystem

CONSTANTS r1, r2, g1, b1, b2, none

MCConveyorId == 1 .. 3

(* "3" comes before "2" as a JSON key, as "10" comes before "2". *)
MCKeyRank == <<0, 2, 1>>

E == EMPTY_CONVEYOR_ID

Line == 1 :> <<E, 2>> @@ 2 :> <<E, 3, E, 1>> @@ 3 :> <<E, E, E, 2>>

(* A list that starts over: conveyor 3 replaces the empty north of 1. *)
Triangle == 1 :> <<E, 2, E, E, 3>> @@ 2 :> <<1, E, 3>> @@ 3 :> <<1, 2>>

Pair == 1 :> <<E, E, 2, E>> @@ 2 :> <<1, E, E, E>>

(* No belt leads to conveyor 3. *)
Island == 1 :> <<E, 2>> @@ 2 :> <<1>> @@ 3 :> <<E>>

(* The input conveyor is missing. *)
Apart == 2 :> <<3>> @@ 3 :> <<E, E, 2>>

Layouts == {Line, Triangle, Apart}

JustPair == {Pair}

WithIsland == {Island}

NoPackages == [p \in {} |-> "RED"]

TwoRedOneGreen == r1 :> "RED" @@ r2 :> "RED" @@ g1 :> "GREEN"

TwoRed == r1 :> "RED" @@ r2 :> "RED"
===============================================================================
