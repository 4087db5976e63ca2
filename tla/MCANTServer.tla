------------------------------ MODULE MCANTServer ------------------------------
(***************************************************************************)
(* Instances of ANTServer for TLC: the input conveyor and another one,     *)
(* whose boxes have the ids 1 and 2.                                       *)
(***************************************************************************)
EXTENDS ANTServer

MCConveyorId == {1, 2}

MCBoxAt == <<1, 2>>
===============================================================================
